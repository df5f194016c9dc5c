---------------------------- MODULE ScaleProofs ----------------------------
(***************************************************************************)
(* What a pause, an edit of a Deployment at rest and an edit in place      *)
(* promise about replica counts, Pods and reports, for every instance of   *)
(* the composed system.                                                    *)
(***************************************************************************)
EXTENDS ChurnlessProofs

-----------------------------------------------------------------------------
(***************************************************************************)
(* Which Deployment a reconcile in progress may have read.                 *)
(***************************************************************************)
\* A ReplicaSet that does not exist has no replicas, and a reconcile that is about
\* to create one is still right that it does not exist.
Vacant ==
    /\ \A s \in Structures : rs[s].gen = 0 => rs[s].replicas = 0
    /\ dctx.pc = "create" => rs[dctx.d.structure].gen = 0

\* Generations only grow, from the API server to the cache to the read, and one
\* generation is one spec.  Once the status is written a reconcile may be ahead of
\* the cache.
GenerationsOrdered ==
    /\ deploy.status.gen <= deploy.gen /\ dcache.gen <= deploy.gen
    /\ dcache.gen = deploy.gen => dcache.paused = deploy.paused
    /\ dctx # DIdle => /\ dctx.d.gen <= deploy.gen
                       /\ dctx.d.gen = deploy.gen => dctx.d.paused = deploy.paused
    /\ dctx.pc \in {"create", "sync", "status"} => dctx.d.gen <= dcache.gen

\* A Deployment that is paused, as the reconcile holds it, is not rolled out.
NoPausedRollout == dctx.pc \in {"list", "scale"} => ~dctx.d.paused

\* Once a generation is published, the cache has it, and no reconcile with an
\* older one is left.
PublishedIsRead ==
    deploy.status.gen = deploy.gen =>
        /\ dcache.gen = deploy.gen
        /\ dctx # DIdle => dctx.d.gen = deploy.gen

PauseInv == Vacant /\ GenerationsOrdered /\ NoPausedRollout /\ PublishedIsRead

-----------------------------------------------------------------------------
(***************************************************************************)
(* Who writes what.                                                        *)
(***************************************************************************)
\* The parts of the state that the proofs keep needing.
LEMMA Parts ==
    ASSUME TypeInv
    PROVE  /\ rs \in [Structures -> ReplicaSet] /\ Named
           /\ \A s \in Structures : rs[s].gen \in Nat /\ rs[s].replicas \in Nat
           /\ deploy \in Deployment /\ dcache \in Deployment
           /\ dctx \in DContext /\ rctx \in RContext
           /\ dctx # DIdle => dctx.d \in Deployment
BY DContextKinds
   DEF TypeInv, TypeOK, ClusterTypeOK, DeploymentTypeOK, ReplicaSetTypeOK, ReplicaSet,
       ListContext, ScaleContext

\* What is not a Deployment reconcile creates, scales or renames no ReplicaSet.
LEMMA StoreKept ==
    ASSUME TypeInv,
           \/ ClusterNext
           \/ (\E s \in Structures : RRead(s)) \/ RStep \/ RFail
    PROVE  \A s \in Structures : rs'[s].gen = rs[s].gen /\ rs'[s].replicas = rs[s].replicas
<1>1. CASE ClusterNext
    BY <1>1 DEF ClusterNext, UserEdit, RefreshDeployment, RefreshReplicaSet, Kubelet,
                KubeletRestart, KubeletReady, PodGone, Evict
<1>2. CASE (\E s \in Structures : RRead(s)) \/ RCreatePod \/ RDeletePod \/ RPatchPod \/ RFail
    BY <1>2 DEF RRead, RCreatePod, RDeletePod, RPatchPod, RFail, clusterVars
<1>3. CASE RPatchStatus
    <2> DEFINE new == MergePatch(rctx.obj.status, CalculatedStatus(rctx), rs[rctx.s].status)
    <2>1. rs \in [Structures -> ReplicaSet] /\ rctx \in RContext
        BY Parts
    <2>2. rctx.s \in Structures
        BY <1>3, <2>1, RContextKinds DEF RPatchStatus
    <2>3. rs' = [rs EXCEPT ![rctx.s] = [rs[rctx.s] EXCEPT !.status = new]]
        BY <1>3, <2>1, <2>2 DEF RPatchStatus
    <2> HIDE DEF new
    <2> QED
        BY <2>1, <2>2, <2>3 DEF ReplicaSet
<1> QED
    BY <1>1, <1>2, <1>3 DEF RStep

\* What they leave alone of the Deployment's side, the cluster's steps apart.
LEMMA ReconcileKeeps ==
    ASSUME (\E s \in Structures : RRead(s)) \/ RStep \/ RFail
    PROVE  UNCHANGED <<deploy, dcache, rscache>>
BY DEF RStep, RRead, RCreatePod, RDeletePod, RPatchPod, RPatchStatus, RFail, clusterVars

\* The three writes of a Deployment reconcile to a ReplicaSet.
LEMMA CreateFacts ==
    ASSUME TypeInv, DCreate
    PROVE  /\ dctx.pc = "create" /\ dctx.d.structure \in Structures
           /\ rs'[dctx.d.structure].gen = 1 /\ rs'[dctx.d.structure].replicas = 0
           /\ rs'[dctx.d.structure].status.available = 0
           /\ \A s \in Structures \ {dctx.d.structure} : rs'[s] = rs[s]
           /\ dctx' = DIdle /\ UNCHANGED <<deploy, dcache, rscache, pods>>
<1>1. dctx.pc = "create" /\ dctx.d.structure \in Structures
    BY Parts, DContextKinds DEF DCreate, Deployment
<1>2. PICK b \in CreationSeconds :
         rs' = [rs EXCEPT ![dctx.d.structure] =
                  [NoReplicaSet EXCEPT !.gen = 1, !.rev = dctx.d.rev, !.born = b]]
    BY DEF DCreate
<1> DEFINE new == [NoReplicaSet EXCEPT !.gen = 1, !.rev = dctx.d.rev, !.born = b]
<1>3. new.replicas = 0 /\ new.gen = 1 /\ new.status.available = 0
    BY DEF NoReplicaSet, NoStatus
<1> HIDE DEF new
<1>4. rs' = [rs EXCEPT ![dctx.d.structure] = new]
    BY <1>2 DEF new
<1> QED
    BY <1>1, <1>3, <1>4, Parts DEF DCreate

LEMMA SyncFacts ==
    ASSUME TypeInv, DSync
    PROVE  /\ \A s \in Structures : /\ rs'[s].replicas = rs[s].replicas
                                    /\ rs'[s].status = rs[s].status
                                    /\ rs'[s].gen >= rs[s].gen /\ rs'[s].gen \in Nat
           /\ \A s \in Structures \ {dctx.cur} : rs'[s] = rs[s]
           /\ dctx.pc = "sync" /\ dctx.cur \in Structures
           /\ dctx' = DIdle /\ UNCHANGED <<deploy, dcache, rscache, pods>>
<1> DEFINE cur == dctx.cur
           rev == SyncedRevision(dctx.d, cur)
           gen == IF rev = rs[cur].rev THEN rs[cur].gen ELSE rs[cur].gen + 1
<1>1. rs' = [rs EXCEPT ![cur] = [rs[cur] EXCEPT !.rev = rev, !.par = dctx.par, !.gen = gen]]
    BY DEF DSync
<1>2. cur \in Structures /\ rs \in [Structures -> ReplicaSet]
    BY Parts, DContextKinds DEF DSync
<1>3. gen >= rs[cur].gen /\ gen \in Nat
    BY <1>2, Parts
<1> HIDE DEF rev, gen
<1>4. \A s \in Structures : /\ rs'[s].replicas = rs[s].replicas
                            /\ rs'[s].status = rs[s].status
                            /\ rs'[s].gen = IF s = cur THEN gen ELSE rs[s].gen
    BY <1>1, <1>2 DEF ReplicaSet
<1>5. \A s \in Structures \ {cur} : rs'[s] = rs[s]
    BY <1>1, <1>2
<1> QED
    BY <1>2, <1>3, <1>4, <1>5, Parts DEF DSync

LEMMA ScaleFacts ==
    ASSUME TypeInv, DScale
    PROVE  /\ dctx.pc = "scale" /\ dctx.rs \in Structures
           /\ rs'[dctx.rs].gen = rs[dctx.rs].gen + 1 /\ rs'[dctx.rs].replicas = dctx.n
           /\ rs'[dctx.rs].status = rs[dctx.rs].status
           /\ \A s \in Structures \ {dctx.rs} : rs'[s] = rs[s]
           /\ dctx' = DIdle /\ UNCHANGED <<deploy, dcache, rscache, pods>>
<1> DEFINE t == dctx.rs
           new == [rs[t] EXCEPT !.replicas = dctx.n, !.gen = rs[t].gen + 1]
<1>1. dctx.pc = "scale" /\ t \in Structures /\ rs \in [Structures -> ReplicaSet]
    BY Parts, DContextKinds DEF DScale, ScaleContext
<1>2. rs' = [rs EXCEPT ![t] = new]
    BY <1>1 DEF DScale
<1>3. new.replicas = dctx.n /\ new.gen = rs[t].gen + 1 /\ new.status = rs[t].status
    BY <1>1 DEF ReplicaSet
<1> HIDE DEF new
<1> QED
    BY <1>1, <1>2, <1>3 DEF DScale

\* A rollout is of the Deployment the reconcile holds, which is not paused.
LEMMA RolloutOf ==
    ASSUME NEW d, NEW cur, NEW view, NEW next \in RolloutChoices(d, cur, view), next # DIdle
    PROVE  next.pc \in {"list", "scale"} /\ next.d = d /\ next.cur = cur /\ ~d.paused
BY DEF RolloutChoices

\* What a read starts.
LEMMA ReadFacts ==
    ASSUME TypeInv, DRead
    PROVE  /\ dctx = DIdle /\ UNCHANGED clusterVars
           /\ \/ dctx' = DIdle
              \/ /\ dctx'.d = dcache
                 /\ \/ dctx'.pc = "create" /\ CurrentChoices(dcache) = {}
                    \/ dctx'.pc = "sync" /\ dctx'.cur \in CurrentChoices(dcache)
                    \/ /\ dctx'.pc = "status" /\ dctx'.view = rs
                       /\ dctx'.cur \in CurrentChoices(dcache)
                    \/ /\ dctx'.pc \in {"list", "scale"} /\ ~dcache.paused
                       /\ dctx'.cur \in CurrentChoices(dcache)
                       /\ dctx' \in RolloutChoices(dcache, dctx'.cur, rs)
<1>1. dctx = DIdle /\ UNCHANGED clusterVars
    BY DEF DRead
<1>2. CASE DReadCreate
    BY <1>1, <1>2 DEF DReadCreate
<1>3. ASSUME NEW cur \in CurrentChoices(dcache), DReadSync(cur)
      PROVE  dctx'.d = dcache /\ dctx'.pc = "sync" /\ dctx'.cur \in CurrentChoices(dcache)
    BY <1>3 DEF DReadSync
<1>4. ASSUME NEW cur \in CurrentChoices(dcache), DReadStatus(cur)
      PROVE  /\ dctx'.d = dcache /\ dctx'.pc = "status" /\ dctx'.view = rs
             /\ dctx'.cur \in CurrentChoices(dcache)
    BY <1>4 DEF DReadStatus
<1>5. ASSUME NEW cur \in CurrentChoices(dcache), DReadRollout(cur), dctx' # DIdle
      PROVE  /\ dctx'.d = dcache /\ dctx'.pc \in {"list", "scale"} /\ ~dcache.paused
             /\ dctx'.cur \in CurrentChoices(dcache)
             /\ dctx' \in RolloutChoices(dcache, dctx'.cur, rs)
    BY <1>5, RolloutOf DEF DReadRollout
<1> QED
    BY <1>1, <1>2, <1>3, <1>4, <1>5 DEF DRead

\* The status patch: the published generation is the reconcile's or stays as it
\* was, and what follows is of the spec the API server has, with the current
\* ReplicaSet and the list of the read.
LEMMA StatusFacts ==
    ASSUME TypeInv, DStatus
    PROVE  /\ dctx.pc = "status" /\ dctx # DIdle
           /\ dctx.d \in Deployment /\ dctx.cur \in Structures
           /\ dctx.view \in [Structures -> ReplicaSet] /\ SpecStands(dctx.view)
           /\ UNCHANGED <<rs, rscache, pods>> /\ dcache' \in {dcache, deploy'}
           /\ deploy' \in Deployment
           /\ deploy'.gen = deploy.gen /\ deploy'.paused = deploy.paused
           /\ deploy'.structure = deploy.structure /\ deploy'.replicas = deploy.replicas
           /\ deploy'.strategy = deploy.strategy /\ deploy'.rev = deploy.rev
           /\ deploy'.status.gen \in {deploy.status.gen, dctx.d.gen}
           /\ dctx' # DIdle =>
                 /\ dctx'.pc \in {"list", "scale"} /\ dctx'.cur = dctx.cur
                 /\ dctx'.d \in Deployment
                 /\ dctx'.d.gen = deploy.gen /\ dctx'.d.rev = deploy.rev
                 /\ dctx'.d.structure = deploy.structure /\ dctx'.d.replicas = deploy.replicas
                 /\ dctx'.d.strategy = deploy.strategy
                 /\ ~dctx'.d.paused /\ ~deploy.paused
                 /\ dctx' \in RolloutChoices(dctx'.d, dctx.cur, dctx.view)
<1>1. /\ dctx.pc = "status" /\ DeploymentWritten /\ UNCHANGED <<rs, rscache, pods, faults>>
    BY DEF DStatus
<1>2. /\ dctx # DIdle /\ dctx.d \in Deployment /\ dctx.cur \in Structures
      /\ dctx.view \in [Structures -> ReplicaSet] /\ SpecStands(dctx.view)
    BY <1>1, Parts, DContextKinds DEF TypeInv, ViewStands, DIdle
<1>3. dcache' \in {dcache, deploy'}
    BY <1>1 DEF DeploymentWritten
<1>4. PICK d \in Deployment :
         /\ d.gen = deploy.gen /\ d.structure = deploy.structure /\ d.rev = deploy.rev
         /\ d.strategy = deploy.strategy /\ d.replicas = deploy.replicas
         /\ deploy.paused => d.paused
         /\ dctx' \in RolloutChoices(d, dctx.cur, dctx.view)
    BY Parts, StatusWrite
<1>5. dctx' # DIdle => /\ dctx'.pc \in {"list", "scale"} /\ dctx'.cur = dctx.cur
                       /\ dctx'.d = d /\ ~d.paused
    BY <1>4, RolloutOf
<1>6. /\ deploy' \in Deployment
      /\ deploy'.gen = deploy.gen /\ deploy'.paused = deploy.paused
      /\ deploy'.structure = deploy.structure /\ deploy'.replicas = deploy.replicas
      /\ deploy'.strategy = deploy.strategy /\ deploy'.rev = deploy.rev
      /\ deploy'.status.gen \in {deploy.status.gen, dctx.d.gen}
    BY Parts, StatusWrite
<1> QED
    BY <1>1, <1>2, <1>3, <1>4, <1>5, <1>6

\* The list of the old Pods goes on with the same Deployment or ends.
LEMMA ListFacts ==
    ASSUME TypeInv, DListPods
    PROVE  /\ dctx.pc = "list" /\ UNCHANGED clusterVars
           /\ \/ dctx' = DIdle
              \/ /\ dctx'.pc = "scale" /\ dctx'.d = dctx.d /\ dctx'.cur = dctx.cur
                 /\ dctx'.rs = dctx.cur /\ dctx'.n = dctx.d.replicas
                 /\ rs[dctx.cur].replicas # dctx.d.replicas
                 /\ \A p \in DOMAIN pods : pods[p].owner = dctx.cur \/ pods[p].phase = "Terminal"
BY DEF DListPods

\* The user and the informer.
LEMMA EditFacts ==
    ASSUME TypeInv, UserEdit
    PROVE  /\ UNCHANGED <<rs, rscache, pods>> /\ dcache' \in {dcache, deploy'}
           /\ deploy'.gen = deploy.gen + 1 /\ deploy'.status = deploy.status
BY DEF UserEdit, SpecChoices, DeploymentWritten

LEMMA ClusterFacts ==
    ASSUME ClusterNext
    PROVE  \/ UserEdit
           \/ RefreshDeployment
           \/ UNCHANGED <<deploy, dcache>>
BY DEF ClusterNext, RefreshReplicaSet, Kubelet, KubeletRestart, KubeletReady, PodGone, Evict

-----------------------------------------------------------------------------
(***************************************************************************)
(* A published pause.                                                      *)
(***************************************************************************)
\* Generations are numbers.
LEMMA GenerationTypes ==
    ASSUME TypeInv
    PROVE  /\ deploy.gen \in Nat /\ deploy.status.gen \in Nat /\ dcache.gen \in Nat
           /\ dctx # DIdle => dctx.d.gen \in Nat
BY Parts DEF Deployment, DeploymentStatus

\* A Deployment at rest has all its replicas in one ReplicaSet.
LEMMA RestedFacts ==
    ASSUME SteadyInit
    PROVE  /\ deploy.structure \in Structures
           /\ rs[deploy.structure].gen = 2 /\ rs[deploy.structure].replicas = deploy.replicas
           /\ rs[deploy.structure].status.available = deploy.replicas
           /\ \A s \in Structures \ {deploy.structure} : rs[s] = NoReplicaSet
<1> DEFINE done == [NoReplicaSet EXCEPT
              !.gen = 2, !.rev = deploy.rev, !.replicas = deploy.replicas,
              !.status = [gen |-> 2, replicas |-> deploy.replicas,
                          available |-> deploy.replicas, terminating |-> 0,
                          rev |-> deploy.rev, updated |-> deploy.replicas,
                          ready |-> deploy.replicas]]
           view == [s \in Structures |-> IF s = deploy.structure THEN done ELSE NoReplicaSet]
<1>1. /\ done.gen = 2 /\ done.replicas = deploy.replicas
      /\ done.status.available = deploy.replicas
      /\ DOMAIN done = DOMAIN NoReplicaSet
    BY DEF NoReplicaSet
<1> HIDE DEF done
<1>2. rs = [view EXCEPT ![deploy.structure].par = Parallelism(deploy, view)]
    BY DEF SteadyInit, Rested, done
<1>3. deploy.structure \in Structures
    BY DEF SteadyInit, SpecChoices
<1>4. \A s \in Structures \ {deploy.structure} : rs[s] = NoReplicaSet
    BY <1>2
<1>5. rs[deploy.structure] = [done EXCEPT !.par = Parallelism(deploy, view)]
    BY <1>2, <1>3
<1> HIDE DEF view
<1>6. /\ rs[deploy.structure].gen = 2 /\ rs[deploy.structure].replicas = deploy.replicas
      /\ rs[deploy.structure].status.available = deploy.replicas
    BY <1>1, <1>5 DEF NoReplicaSet
<1> QED
    BY <1>3, <1>4, <1>6

LEMMA PauseInit == Init \/ SteadyInit => PauseInv
<1>1. ASSUME Init PROVE PauseInv
    <2>1. /\ deploy.gen = 1 /\ deploy.status.gen = 0 /\ dcache = deploy /\ dctx = DIdle
          /\ \A s \in Structures : rs[s].replicas = 0
        BY <1>1 DEF Init, ClusterInit, DeploymentInit, SpecChoices, NoReplicaSet
    <2> QED
        BY <2>1 DEF PauseInv, Vacant, GenerationsOrdered, NoPausedRollout, PublishedIsRead, DIdle
<1>2. ASSUME SteadyInit PROVE PauseInv
    <2>1. /\ deploy.gen = 1 /\ deploy.status.gen = 1 /\ dcache = deploy /\ dctx = DIdle
        BY <1>2 DEF SteadyInit, SpecChoices
    <2>2. \A s \in Structures : rs[s].gen = 0 => rs[s].replicas = 0
        BY <1>2, RestedFacts DEF NoReplicaSet
    <2> QED
        BY <2>1, <2>2 DEF PauseInv, Vacant, GenerationsOrdered, NoPausedRollout, PublishedIsRead,
                          DIdle
<1> QED
    BY <1>1, <1>2

LEMMA PauseStep == TypeInv /\ PauseInv /\ [Next]_vars => PauseInv'
<1> SUFFICES ASSUME TypeInv, PauseInv, [Next]_vars PROVE PauseInv'
    OBVIOUS
<1> USE DEF PauseInv
<1>0. DIdle.pc = "idle"
    BY DEF DIdle
<1>1. ASSUME UNCHANGED <<deploy, dcache, dctx>>,
             \A s \in Structures : rs'[s].gen = rs[s].gen /\ rs'[s].replicas = rs[s].replicas
      PROVE  PauseInv'
    <2>1. dctx.pc = "create" => dctx.d.structure \in Structures
        BY Parts, DContextKinds DEF Deployment
    <2> QED
        BY <1>1, <2>1 DEF Vacant, GenerationsOrdered, NoPausedRollout, PublishedIsRead
<1>2. ASSUME UNCHANGED <<deploy, dcache>>, dctx' = DIdle,
             \A s \in Structures : rs'[s].gen = 0 => rs'[s].replicas = 0
      PROVE  PauseInv'
    BY <1>0, <1>2 DEF Vacant, GenerationsOrdered, NoPausedRollout, PublishedIsRead
<1>3. CASE UNCHANGED vars
    BY <1>1, <1>3 DEF vars
<1>4. CASE ClusterNext /\ UNCHANGED <<dctx, rctx>>
    <2>1. CASE UNCHANGED <<deploy, dcache>>
        BY <1>1, <1>4, <2>1, StoreKept
    <2>2. CASE UserEdit
        <3>1. Vacant' /\ NoPausedRollout'
            BY <1>4, <2>2, EditFacts DEF Vacant, NoPausedRollout
        <3>2. GenerationsOrdered' /\ PublishedIsRead'
            BY <1>0, <1>4, <2>2, EditFacts, GenerationTypes DEF GenerationsOrdered, PublishedIsRead
        <3> QED
            BY <3>1, <3>2
    <2>3. CASE RefreshDeployment
        <3>1. dcache' = deploy /\ UNCHANGED <<deploy, rs>>
            BY <2>3 DEF RefreshDeployment
        <3>2. Vacant' /\ NoPausedRollout'
            BY <1>4, <3>1 DEF Vacant, NoPausedRollout
        <3>3. GenerationsOrdered' /\ PublishedIsRead'
            BY <1>0, <1>4, <3>1, GenerationTypes DEF GenerationsOrdered, PublishedIsRead
        <3> QED
            BY <3>2, <3>3
    <2> QED
        BY <1>4, <2>1, <2>2, <2>3, ClusterFacts
<1>5. CASE ((\E s \in Structures : RRead(s)) \/ RStep \/ RFail) /\ UNCHANGED dctx
    BY <1>1, <1>5, StoreKept, ReconcileKeeps
<1>6. CASE DRead
    <2>1. UNCHANGED <<deploy, dcache, rs>>
        BY <1>6, ReadFacts DEF clusterVars
    <2>2. CASE dctx' = DIdle
        BY <1>2, <2>1, <2>2 DEF Vacant
    <2>3. CASE dctx' # DIdle
        <3>1. /\ dctx'.d = dcache
              /\ dctx'.pc \in {"list", "scale"} => ~dcache.paused
            BY <1>6, <2>3, ReadFacts
        <3>2. dctx'.pc = "create" => rs[dcache.structure].gen = 0
            <4> SUFFICES ASSUME dctx'.pc = "create" PROVE rs[dcache.structure].gen = 0
                OBVIOUS
            <4>1. CurrentChoices(dcache) = {} /\ dcache.structure \in Structures
                BY <1>6, <2>3, ReadFacts, Parts DEF Deployment
            <4>2. dcache.structure \notin Existing
                BY <4>1 DEF CurrentChoices
            <4> QED
                BY <4>1, <4>2, Parts DEF Existing
        <3> QED
            BY <2>1, <3>1, <3>2, GenerationTypes
               DEF Vacant, GenerationsOrdered, NoPausedRollout, PublishedIsRead
    <2> QED
        BY <2>2, <2>3
<1>7. CASE DCreate
    BY <1>2, <1>7, CreateFacts DEF Vacant
<1>8. CASE DSync
    <2>1. \A s \in Structures : rs'[s].gen = 0 => rs'[s].replicas = 0
        BY <1>8, SyncFacts, Parts DEF Vacant
    <2> QED
        BY <1>2, <1>8, <2>1, SyncFacts
<1>9. CASE DStatus
    <2>1. dctx' # DIdle => dctx'.pc \in {"list", "scale"} /\ ~dctx'.d.paused
        BY <1>9, StatusFacts
    <2>2. Vacant' /\ NoPausedRollout'
        BY <1>0, <1>9, <2>1, StatusFacts DEF Vacant, NoPausedRollout
    <2>3. dctx.d.gen <= dcache.gen /\ dctx.d.gen \in Nat
        BY <1>9, StatusFacts, GenerationTypes DEF GenerationsOrdered
    <2>4. dctx' # DIdle => dctx'.d.gen = deploy.gen /\ dctx'.d.paused = deploy.paused
        <3> SUFFICES ASSUME dctx' # DIdle
                     PROVE  dctx'.d.gen = deploy.gen /\ dctx'.d.paused = deploy.paused
            OBVIOUS
        <3>1. dctx'.d.gen = deploy.gen /\ ~dctx'.d.paused /\ ~deploy.paused
            BY <1>9, StatusFacts
        <3>2. dctx'.d.paused \in BOOLEAN /\ deploy.paused \in BOOLEAN
            BY <1>9, StatusFacts, Parts DEF Deployment
        <3> QED
            BY <3>1, <3>2
    <2>5. GenerationsOrdered' /\ PublishedIsRead'
        BY <1>0, <1>9, <2>1, <2>3, <2>4, StatusFacts, GenerationTypes
           DEF GenerationsOrdered, PublishedIsRead
    <2> QED
        BY <2>2, <2>5
<1>10. CASE DListPods
    <2>1. UNCHANGED <<deploy, dcache, rs>>
        BY <1>10, ListFacts DEF clusterVars
    <2>2. CASE dctx' = DIdle
        BY <1>2, <2>1, <2>2 DEF Vacant
    <2>3. CASE /\ dctx'.pc = "scale" /\ dctx'.d = dctx.d
        <3>1. dctx # DIdle /\ ~dctx.d.paused
            BY <1>0, <1>10, ListFacts DEF NoPausedRollout
        <3> QED
            BY <2>1, <2>3, <3>1
               DEF Vacant, GenerationsOrdered, NoPausedRollout, PublishedIsRead
    <2> QED
        BY <1>10, <2>2, <2>3, ListFacts
<1>11. CASE DScale
    <2>1. \A s \in Structures : rs'[s].gen = 0 => rs'[s].replicas = 0
        BY <1>11, ScaleFacts, Parts DEF Vacant
    <2> QED
        BY <1>2, <1>11, <2>1, ScaleFacts
<1>12. CASE DFail
    BY <1>2, <1>12 DEF DFail, Vacant
<1> QED
    BY <1>3, <1>4, <1>5, <1>6, <1>7, <1>8, <1>9, <1>10, <1>11, <1>12 DEF Next, DWork

\* A pause that the status shows has reached everybody who could still scale: the
\* reconcile that published it works with it from then on, and no other is left
\* with a Deployment from before.  A status patch that returns the pause stops the
\* rollout it would have started.
THEOREM PauseIsObeyed == Spec \/ SteadySpec => PausedKeepsScale
<1>1. ASSUME TypeInv, PauseInv, [Next]_vars, Published("DeploymentPaused"), deploy.paused
      PROVE  \A s \in Structures : rs'[s].replicas = rs[s].replicas
    <2>1. deploy.status.gen = deploy.gen
        BY <1>1 DEF Published
    <2>2. ~DScale
        <3> SUFFICES ASSUME DScale PROVE FALSE
            OBVIOUS
        <3>1. dctx.pc = "scale" /\ dctx # DIdle
            BY <1>1, ScaleFacts DEF DIdle
        <3>2. ~dctx.d.paused /\ dctx.d.gen = deploy.gen
            BY <1>1, <2>1, <3>1 DEF PauseInv, NoPausedRollout, PublishedIsRead
        <3> QED
            BY <1>1, <3>1, <3>2 DEF PauseInv, GenerationsOrdered
    <2>3. CASE DCreate
        <3>1. rs[dctx.d.structure].replicas = 0
            BY <1>1, <2>3, CreateFacts DEF PauseInv, Vacant
        <3> QED
            BY <1>1, <2>3, <3>1, CreateFacts
    <2>4. CASE DSync
        BY <1>1, <2>4, SyncFacts
    <2>5. CASE DRead \/ DStatus \/ DListPods \/ DFail \/ UNCHANGED vars
        BY <2>5 DEF DRead, DStatus, DListPods, DFail, clusterVars, vars
    <2>6. CASE \/ ClusterNext
               \/ (\E s \in Structures : RRead(s)) \/ RStep \/ RFail
        BY <1>1, <2>6, StoreKept
    <2> QED
        BY <1>1, <2>2, <2>3, <2>4, <2>5, <2>6 DEF Next, DWork
<1>2. TypeInv /\ PauseInv /\ [Next]_vars =>
        [Published("DeploymentPaused") /\ deploy.paused
            => \A s \in Structures : rs'[s].replicas = rs[s].replicas]_vars
    BY <1>1
<1>3. Spec \/ SteadySpec => []PauseInv
    BY PauseInit, PauseStep, TypeInvariant, PTL DEF Spec, SteadySpec
<1> QED
    BY <1>2, <1>3, TypeInvariant, PTL DEF Spec, SteadySpec, PausedKeepsScale
-----------------------------------------------------------------------------
(***************************************************************************)
(* A Deployment whose structure and replica count stay.                    *)
(***************************************************************************)
\* What a user must not touch for every Pod to keep its identity.
Frozen == deploy'.structure = deploy.structure /\ deploy'.replicas = deploy.replicas

SameTarget(d) == d.structure = deploy.structure /\ d.replicas = deploy.replicas

\* However old a reconcile's copy of the Deployment is, it aims at the same number
\* of replicas of the same ReplicaSet.
OneTarget ==
    /\ SameTarget(dcache)
    /\ dctx # DIdle => SameTarget(dctx.d)
    /\ dctx.pc \in {"sync", "status", "list", "scale"} => dctx.cur = deploy.structure
    /\ dctx.pc = "scale" => dctx.rs = deploy.structure /\ dctx.n = deploy.replicas

\* There is no other ReplicaSet.  This one has no replicas or all of them, in the
\* API server and in the cache, and the cache is not ahead.
AllOrNothing ==
    LET cur == deploy.structure
    IN  /\ \A s \in Structures \ {cur} : /\ rs[s].gen = 0 /\ rs[s].replicas = 0
                                         /\ CachedReplicaSet(s).gen = 0
        /\ rs[cur].replicas \in {0, deploy.replicas}
        /\ CachedReplicaSet(cur).replicas \in {0, deploy.replicas}
        /\ CachedReplicaSet(cur).replicas = deploy.replicas
           => rs[cur].replicas = deploy.replicas

\* The Pods that are there and the ones about to be created are not too many, and
\* whoever counts them later counts against a copy that allows them.
NoneTooMany ==
    LET cur == deploy.structure
    IN  /\ \A p \in DOMAIN pods : pods[p].owner = cur
        /\ Cardinality(ActivePods(cur)) <= deploy.replicas
        /\ ActivePods(cur) # {} \/ rctx.pc = "create"
           => CachedReplicaSet(cur).replicas = deploy.replicas
        /\ rctx.pc = "create" => /\ rctx.s = cur
                                 /\ Cardinality(ActivePods(cur)) + rctx.n <= deploy.replicas
        /\ rctx.pc # "delete"

IdentityInv == OneTarget /\ AllOrNothing /\ NoneTooMany

-----------------------------------------------------------------------------
\* The ReplicaSets as listed are a view; so are the ones in the API server.
LEMMA ListedView ==
    ASSUME NEW view \in [Structures -> ReplicaSet]
    PROVE  ViewOK(view)
BY DEF ViewOK, ReplicaSet, RSStatus

LEMMA StoreStands == SpecStands(rs)
BY DEF SpecStands

\* With no other ReplicaSet in the way, rollout scales to the desired count in one
\* step, or not at all.
LEMMA OneStepScale ==
    ASSUME NEW view \in [Structures -> ReplicaSet], SpecStands(view),
           NEW d \in Deployment, NEW cur \in Structures,
           \A s \in Structures \ {cur} : rs[s].replicas = 0,
           rs[cur].replicas \in {0, d.replicas}, NEW next \in RolloutChoices(d, cur, view)
    PROVE  \/ next = DIdle
           \/ next.pc = "list" /\ next.d = d /\ next.cur = cur
           \/ /\ next.pc = "scale" /\ next.d = d /\ next.cur = cur
              /\ next.rs = cur /\ next.n = d.replicas
<1>1. d.replicas \in Nat /\ Limits(d).surge \in Nat
    BY DeploymentFields DEF LimitsOK
<1>2. /\ \A s \in Structures \ {cur} : view[s].replicas = 0
      /\ view[cur].replicas \in {0, d.replicas}
    BY DEF SpecStands
<1>3. TotalOldReplicas(cur, view) = 0
    BY <1>2, ZeroTotal DEF TotalOldReplicas
<1>4. TotalReplicaSpec(view) = view[cur].replicas
    BY <1>1, <1>2, <1>3, SpecSplit, ListedView, StructuresAssumption
<1>5. RecreateScaleDowns(cur, view) = {} /\ ScaleDowns(d.replicas, Limits(d), cur, view) = {}
    BY <1>2 DEF RecreateScaleDowns, ScaleDowns
<1>6. RollingChoices(d.replicas, Limits(d), cur, view) \subseteq {[rs |-> cur, n |-> d.replicas]}
    <2>1. CASE view[cur].replicas < d.replicas
        <3>1. view[cur].replicas = 0
            BY <1>1, <1>2, <2>1
        <3>2. view[cur].replicas + ScaleUp(d.replicas, Limits(d), cur, view) = d.replicas
            BY <1>1, <1>4, <3>1 DEF ScaleUp, Min2
        <3> QED
            BY <1>1, <1>4, <1>5, <3>2 DEF RollingChoices
    <2>2. CASE ~(view[cur].replicas < d.replicas)
        BY <1>5, <2>2 DEF RollingChoices
    <2> QED
        BY <2>1, <2>2
<1>7. ScaleChoices(d, cur, view) \subseteq {[rs |-> cur, n |-> d.replicas]}
    BY <1>5, <1>6 DEF ScaleChoices
<1> QED
    BY <1>7 DEF RolloutChoices

\* Nothing moves the target.
LEMMA Untouched ==
    ASSUME [Frozen]_vars
    PROVE  deploy'.structure = deploy.structure /\ deploy'.replicas = deploy.replicas
BY DEF Frozen, vars

\* The read finds the one ReplicaSet, or none.
LEMMA OneCurrent ==
    ASSUME TypeInv, OneTarget, AllOrNothing
    PROVE  CurrentChoices(dcache) \subseteq {deploy.structure}
<1>1. Existing \subseteq {deploy.structure}
    BY Parts DEF AllOrNothing, Existing
<1>2. dcache.structure = deploy.structure
    BY DEF OneTarget, SameTarget
<1> QED
    BY <1>1, <1>2 DEF CurrentChoices

LEMMA TargetStep ==
    ASSUME TypeInv, PauseInv, IdentityInv, [Next]_vars, [Frozen]_vars
    PROVE  OneTarget'
<1> USE DEF IdentityInv
<1>0. DIdle.pc = "idle"
    BY DEF DIdle
<1>1. ASSUME dctx' = dctx, dcache' \in {dcache, deploy, deploy'}
      PROVE  OneTarget'
    BY <1>1, Untouched DEF OneTarget, SameTarget
<1>2. ASSUME dctx' = DIdle, dcache' = dcache
      PROVE  OneTarget'
    BY <1>0, <1>2, Untouched DEF OneTarget, SameTarget
<1>3. CASE UNCHANGED vars
    BY <1>1, <1>3 DEF vars
<1>4. CASE ClusterNext /\ UNCHANGED <<dctx, rctx>>
    BY <1>1, <1>4, ClusterFacts, EditFacts DEF RefreshDeployment
<1>5. CASE ((\E s \in Structures : RRead(s)) \/ RStep \/ RFail) /\ UNCHANGED dctx
    BY <1>1, <1>5, ReconcileKeeps
<1>6. ASSUME NEW d \in Deployment, SameTarget(d), NEW view \in [Structures -> ReplicaSet],
             SpecStands(view), dctx' \in RolloutChoices(d, deploy.structure, view),
             dcache' \in {dcache, deploy'}
      PROVE  OneTarget'
    <2> DEFINE cur == deploy.structure
    <2>1. /\ cur \in Structures /\ d.replicas = deploy.replicas
          /\ \A s \in Structures \ {cur} : rs[s].replicas = 0
          /\ rs[cur].replicas \in {0, d.replicas}
        BY <1>6, Parts DEF Deployment, SameTarget, AllOrNothing
    <2>2. \/ dctx' = DIdle
          \/ dctx'.pc = "list" /\ dctx'.d = d /\ dctx'.cur = cur
          \/ /\ dctx'.pc = "scale" /\ dctx'.d = d /\ dctx'.cur = cur
             /\ dctx'.rs = cur /\ dctx'.n = d.replicas
        BY <1>6, <2>1, OneStepScale
    <2> QED
        BY <1>0, <1>6, <2>1, <2>2, Untouched DEF OneTarget, SameTarget
<1>7. CASE DRead
    <2>1. UNCHANGED <<deploy, dcache>> /\ SameTarget(dcache)
        BY <1>7, ReadFacts DEF clusterVars, OneTarget
    <2>2. CASE dctx' = DIdle
        BY <1>2, <2>1, <2>2
    <2>3. CASE dctx' # DIdle /\ dctx'.pc \in {"create", "sync", "status"}
        <3>1. dctx'.d = dcache /\ (dctx'.pc # "create" => dctx'.cur = deploy.structure)
            BY <1>7, <2>3, ReadFacts, OneCurrent
        <3> QED
            BY <2>1, <2>3, <3>1 DEF OneTarget, SameTarget
    <2>4. CASE dctx' # DIdle /\ dctx'.pc \in {"list", "scale"}
        <3>1. dctx' \in RolloutChoices(dcache, deploy.structure, rs)
            BY <1>7, <2>4, ReadFacts, OneCurrent
        <3> QED
            BY <1>6, <2>1, <3>1, StoreStands, Parts
    <2> QED
        BY <1>7, <2>2, <2>3, <2>4, ReadFacts
<1>8. CASE DCreate \/ DSync \/ DScale
    BY <1>2, <1>8, CreateFacts, SyncFacts, ScaleFacts
<1>9. CASE DFail
    BY <1>2, <1>9 DEF DFail
<1>10. CASE DStatus
    <2>1. dctx.cur = deploy.structure /\ dcache' \in {dcache, deploy'}
        BY <1>10, StatusFacts DEF OneTarget
    <2>2. CASE dctx' = DIdle
        BY <1>0, <2>1, <2>2, Untouched DEF OneTarget, SameTarget
    <2>3. CASE dctx' # DIdle
        <3>1. /\ dctx'.d \in Deployment /\ SameTarget(dctx'.d)
              /\ dctx.view \in [Structures -> ReplicaSet] /\ SpecStands(dctx.view)
              /\ dctx' \in RolloutChoices(dctx'.d, deploy.structure, dctx.view)
            BY <1>10, <2>1, <2>3, StatusFacts DEF SameTarget
        <3> QED
            BY <1>6, <2>1, <3>1
    <2> QED
        BY <2>2, <2>3
<1>11. CASE DListPods
    <2>1. UNCHANGED <<deploy, dcache>> /\ dctx # DIdle
        BY <1>0, <1>11, ListFacts DEF clusterVars
    <2>2. CASE dctx' = DIdle
        BY <1>2, <2>1, <2>2
    <2>3. CASE /\ dctx'.pc = "scale" /\ dctx'.d = dctx.d /\ dctx'.cur = dctx.cur
               /\ dctx'.rs = dctx.cur /\ dctx'.n = dctx.d.replicas
        BY <1>11, <2>1, <2>3, ListFacts DEF OneTarget, SameTarget
    <2> QED
        BY <1>11, <2>2, <2>3, ListFacts
<1> QED
    BY <1>3, <1>4, <1>5, <1>8, <1>9, <1>10, <1>11, <1>7 DEF Next, DWork

\* A cached copy stays as it is or becomes what the API server has.
LEMMA CacheFacts ==
    ASSUME TypeInv, [Next]_vars, NEW s \in Structures
    PROVE  CachedReplicaSet(s)' \in {CachedReplicaSet(s), rs'[s]}
<1>1. CASE rscache' = rscache
    BY <1>1 DEF CachedReplicaSet
<1>2. ASSUME NEW t \in Lagging, RefreshReplicaSet(t)
      PROVE  CachedReplicaSet(s)' \in {CachedReplicaSet(s), rs'[s]}
    <2>1. rscache' = [rscache EXCEPT ![t] = rs[t]] /\ rs' = rs
        BY <1>2 DEF RefreshReplicaSet
    <2>2. rscache \in [Lagging -> ReplicaSet]
        BY DEF TypeInv, TypeOK, ClusterTypeOK
    <2> QED
        BY <2>1, <2>2 DEF CachedReplicaSet
<1>3. rscache' = rscache \/ \E t \in Lagging : RefreshReplicaSet(t)
    <2>1. ASSUME ClusterNext, ~ \E t \in Lagging : RefreshReplicaSet(t)
          PROVE  rscache' = rscache
        <3>1. CASE UserEdit \/ RefreshDeployment
            BY <3>1 DEF UserEdit, RefreshDeployment
        <3>2. ASSUME NEW p \in DOMAIN pods,
                     KubeletRestart(p) \/ KubeletReady(p) \/ PodGone(p) \/ Evict(p)
              PROVE  rscache' = rscache
            BY <3>2 DEF KubeletRestart, KubeletReady, PodGone, Evict
        <3> QED
            BY <2>1, <3>1, <3>2 DEF ClusterNext, Kubelet
    <2>2. ASSUME DWork \/ DFail PROVE rscache' = rscache
        <3>1. CASE DRead \/ DListPods
            BY <3>1 DEF DRead, DListPods, clusterVars
        <3>2. CASE DFail
            BY <3>2 DEF DFail
        <3> QED
            BY <2>2, <3>1, <3>2, CreateFacts, SyncFacts, StatusFacts, ScaleFacts DEF DWork
    <2>3. ASSUME (\E t \in Structures : RRead(t)) \/ RStep \/ RFail PROVE rscache' = rscache
        BY <2>3, ReconcileKeeps
    <2> QED
        BY <2>1, <2>2, <2>3 DEF Next, vars
<1> QED
    BY <1>1, <1>2, <1>3

\* The replica count is set once, from nothing to everything, and never taken back.
LEMMA SetOnce ==
    ASSUME TypeInv, PauseInv, IdentityInv, [Next]_vars
    PROVE  LET cur == deploy.structure
           IN  /\ \A s \in Structures \ {cur} : rs'[s].gen = 0 /\ rs'[s].replicas = 0
               /\ rs'[cur].replicas \in {rs[cur].replicas, deploy.replicas}
               /\ rs[cur].replicas = deploy.replicas => rs'[cur].replicas = deploy.replicas
<1> USE DEF IdentityInv
<1> DEFINE cur == deploy.structure
<1>1. cur \in Structures
    BY Parts DEF Deployment
<1>2. \A s \in Structures \ {cur} : rs[s].gen = 0 /\ rs[s].replicas = 0
    BY DEF AllOrNothing
<1>3. ASSUME \A s \in Structures : rs'[s].gen = rs[s].gen /\ rs'[s].replicas = rs[s].replicas
      PROVE  /\ \A s \in Structures \ {cur} : rs'[s].gen = 0 /\ rs'[s].replicas = 0
             /\ rs'[cur].replicas = rs[cur].replicas
    BY <1>1, <1>2, <1>3
<1>4. CASE rs' = rs
    BY <1>3, <1>4
<1>5. CASE ClusterNext \/ (\E s \in Structures : RRead(s)) \/ RStep \/ RFail
    BY <1>3, <1>5, StoreKept
<1>6. CASE DCreate
    <2>1. dctx.d.structure = cur
        BY <1>6, CreateFacts DEF OneTarget, SameTarget, DIdle
    <2>2. rs[cur].replicas = 0
        BY <1>1, <1>6, <2>1, CreateFacts DEF PauseInv, Vacant
    <2> QED
        BY <1>2, <1>6, <2>1, <2>2, CreateFacts
<1>7. CASE DSync
    <2>1. dctx.cur = cur
        BY <1>7, SyncFacts DEF OneTarget
    <2> QED
        BY <1>1, <1>2, <1>7, <2>1, SyncFacts
<1>8. CASE DScale
    <2>1. dctx.rs = cur /\ dctx.n = deploy.replicas
        BY <1>8, ScaleFacts DEF OneTarget
    <2> QED
        BY <1>2, <1>8, <2>1, ScaleFacts
<1>9. CASE DRead \/ DStatus \/ DListPods \/ DFail \/ UNCHANGED vars
    BY <1>4, <1>9 DEF DRead, DStatus, DListPods, DFail, clusterVars, vars
<1> QED
    BY <1>5, <1>6, <1>7, <1>8, <1>9 DEF Next, DWork

LEMMA ReplicasStep ==
    ASSUME TypeInv, PauseInv, IdentityInv, [Next]_vars, [Frozen]_vars
    PROVE  /\ AllOrNothing'
           /\ CachedReplicaSet(deploy.structure).replicas = deploy.replicas
              => (CachedReplicaSet(deploy.structure).replicas = deploy.replicas)'
<1> USE DEF IdentityInv
<1>1. PICK cur \in Structures : cur = deploy.structure
    BY Parts DEF Deployment
<1>2. /\ \A s \in Structures \ {cur} : rs'[s].gen = 0 /\ rs'[s].replicas = 0
      /\ rs'[cur].replicas \in {rs[cur].replicas, deploy.replicas}
      /\ rs[cur].replicas = deploy.replicas => rs'[cur].replicas = deploy.replicas
    BY <1>1, SetOnce
<1>3. \A s \in Structures : CachedReplicaSet(s)' \in {CachedReplicaSet(s), rs'[s]}
    BY CacheFacts
<1>4. /\ \A s \in Structures \ {cur} : CachedReplicaSet(s).gen = 0
      /\ rs[cur].replicas \in {0, deploy.replicas}
      /\ CachedReplicaSet(cur).replicas \in {0, deploy.replicas}
      /\ CachedReplicaSet(cur).replicas = deploy.replicas => rs[cur].replicas = deploy.replicas
    BY <1>1 DEF AllOrNothing
<1>5. CachedReplicaSet(cur)' \in {CachedReplicaSet(cur), rs'[cur]}
    BY <1>3
<1>6. /\ CachedReplicaSet(cur)'.replicas \in {0, deploy.replicas}
      /\ CachedReplicaSet(cur)'.replicas = deploy.replicas
         => rs'[cur].replicas = deploy.replicas
    BY <1>2, <1>4, <1>5
<1>7. \A s \in Structures \ {cur} : CachedReplicaSet(s)'.gen = 0
    BY <1>2, <1>3, <1>4
<1>8. deploy'.structure = cur /\ deploy'.replicas = deploy.replicas
    BY <1>1, Untouched
<1>9. CachedReplicaSet(cur).replicas = deploy.replicas
      => CachedReplicaSet(cur)'.replicas = deploy.replicas
    BY <1>2, <1>4, <1>5
<1> QED
    BY <1>1, <1>2, <1>4, <1>6, <1>7, <1>8, <1>9 DEF AllOrNothing, CachedReplicaSet

\* What a step does to the Pods, the creation of one apart: no Pod becomes active
\* or changes its owner, a Pod that has ended stays so, and only a reconcile that
\* deletes makes one terminate.
LEMMA PodFacts ==
    ASSUME TypeInv, [Next]_vars, ~RCreatePod
    PROVE  /\ \A p \in DOMAIN pods' :
                 /\ p \in DOMAIN pods /\ pods'[p].owner = pods[p].owner
                 /\ pods'[p].phase = "Active" => pods[p].phase = "Active"
                 /\ pods[p].phase = "Terminal" => pods'[p].phase = "Terminal"
           /\ rctx.pc # "delete" =>
                 \A p \in DOMAIN pods : pods[p].phase = "Active"
                    => p \in DOMAIN pods' /\ pods'[p].phase # "Terminating"
<1> DEFINE Goal == /\ \A p \in DOMAIN pods' :
                         /\ p \in DOMAIN pods /\ pods'[p].owner = pods[p].owner
                         /\ pods'[p].phase = "Active" => pods[p].phase = "Active"
                         /\ pods[p].phase = "Terminal" => pods'[p].phase = "Terminal"
                   /\ rctx.pc # "delete" =>
                         \A p \in DOMAIN pods : pods[p].phase = "Active"
                            => p \in DOMAIN pods' /\ pods'[p].phase # "Terminating"
<1>1. \A p \in DOMAIN pods : pods[p] \in Pod
    BY DEF TypeInv, TypeOK, ClusterTypeOK
<1>2. CASE pods' = pods
    BY <1>2
<1>3. ASSUME NEW p \in DOMAIN pods, KubeletRestart(p) \/ KubeletReady(p) \/ PodGone(p) \/ Evict(p)
      PROVE  Goal
    <2>1. CASE KubeletRestart(p)
        BY <1>1, <2>1 DEF KubeletRestart, Pod
    <2>2. CASE KubeletReady(p)
        BY <1>1, <2>2 DEF KubeletReady, Pod
    <2>3. CASE PodGone(p)
        BY <1>1, <2>3 DEF PodGone, Pod
    <2>4. CASE Evict(p)
        BY <1>1, <2>4 DEF Evict, Pod
    <2> QED
        BY <1>3, <2>1, <2>2, <2>3, <2>4
<1>4. CASE RDeletePod
    <2>1. PICK p : pods' = IF p \in DOMAIN pods /\ pods[p].phase = "Active"
                           THEN [pods EXCEPT ![p].phase = "Terminating"] ELSE pods
        BY <1>4 DEF RDeletePod
    <2>2. rctx.pc = "delete"
        BY <1>4 DEF RDeletePod
    <2> QED
        BY <1>1, <2>1, <2>2 DEF Pod
<1>5. CASE RPatchPod
    <2>1. PICK p : \/ p \in DOMAIN pods /\ pods' = [pods EXCEPT ![p].rev = rctx.obj.rev]
                   \/ UNCHANGED pods
        BY <1>5 DEF RPatchPod
    <2> QED
        BY <1>1, <2>1 DEF Pod
<1>6. CASE DWork \/ DFail
    <2>1. pods' = pods
        <3>1. CASE DRead \/ DListPods \/ DFail
            BY <3>1 DEF DRead, DListPods, DFail, clusterVars
        <3> QED
            BY <1>6, <3>1, CreateFacts, SyncFacts, StatusFacts, ScaleFacts DEF DWork
    <2> QED
        BY <1>2, <2>1
<1>7. CASE (\E s \in Structures : RRead(s)) \/ RPatchStatus \/ RFail \/ UNCHANGED vars
    BY <1>2, <1>7 DEF RRead, RPatchStatus, RFail, clusterVars, vars
<1>8. CASE ClusterNext
    <2>1. CASE UserEdit \/ RefreshDeployment \/ \E s \in Lagging : RefreshReplicaSet(s)
        BY <1>2, <2>1 DEF UserEdit, RefreshDeployment, RefreshReplicaSet
    <2> QED
        BY <1>3, <1>8, <2>1 DEF ClusterNext, Kubelet
<1> QED
    BY <1>4, <1>5, <1>6, <1>7, <1>8 DEF Next, RStep

\* Where a ReplicaSet reconcile goes from here, its read and its creations apart.
LEMMA ReconcileFacts ==
    ASSUME TypeInv, [Next]_vars, ~RCreatePod, ~ \E s \in Structures : RRead(s)
    PROVE  \/ rctx' = rctx
           \/ rctx'.pc = "idle"
           \/ RDeletePod /\ rctx.pc = "delete"
           \/ RPatchPod /\ rctx.pc = "update" /\ rctx'.pc = "update" /\ rctx'.s = rctx.s
<1>1. rctx \in RContext
    BY Parts
<1>2. CASE RDeletePod
    BY <1>2 DEF RDeletePod
<1>3. CASE RPatchPod
    <2>1. /\ rctx.pc = "update"
          /\ rctx \in [pc: {"update"}, s: Structures, obj: ReplicaSet,
                       seen: UNION {[D -> Pod] : D \in SUBSET PodIds},
                       terminating: Nat, inFlight: Nat]
        BY <1>1, <1>3, RContextKinds DEF RPatchPod
    <2>2. PICK p : \/ rctx' = [rctx EXCEPT !.seen = [rctx.seen EXCEPT ![p] = pods'[p]],
                                           !.inFlight = rctx.inFlight + 1]
                   \/ rctx' = RIdle
        BY <1>3, <2>1 DEF RPatchPod
    <2> DEFINE answered == [rctx.seen EXCEPT ![p] = pods'[p]]
    <2>3. rctx' = [rctx EXCEPT !.seen = answered, !.inFlight = rctx.inFlight + 1] \/ rctx' = RIdle
        BY <2>2
    <2> HIDE DEF answered
    <2>4. ASSUME rctx' = [rctx EXCEPT !.seen = answered, !.inFlight = rctx.inFlight + 1]
          PROVE  rctx'.pc = "update" /\ rctx'.s = rctx.s
        BY <2>1, <2>4
    <2> QED
        BY <1>3, <2>1, <2>3, <2>4 DEF RIdle
<1>4. CASE RPatchStatus \/ RFail
    BY <1>4 DEF RPatchStatus, RFail, RIdle
<1> QED
    BY <1>2, <1>3, <1>4 DEF Next, RStep, vars

\* A smaller set of active Pods is not larger.
LEMMA FewerPods ==
    ASSUME NEW S \in SUBSET PodIds, NEW T \in SUBSET S
    PROVE  Cardinality(T) \in Nat /\ Cardinality(S) \in Nat /\ Cardinality(T) <= Cardinality(S)
BY PodsCount, FS_Subset

LEMMA CountStep ==
    ASSUME TypeInv, PauseInv, IdentityInv, [Next]_vars, [Frozen]_vars
    PROVE  NoneTooMany'
<1> USE DEF IdentityInv
<1>1. PICK cur \in Structures : cur = deploy.structure
    BY Parts DEF Deployment
<1>2. deploy'.structure = cur /\ deploy'.replicas = deploy.replicas /\ deploy.replicas \in Nat
    BY <1>1, Untouched, Parts, DeploymentFields
<1>3. CachedReplicaSet(cur).replicas = deploy.replicas
      => CachedReplicaSet(cur)'.replicas = deploy.replicas
    BY <1>1, <1>2, ReplicasStep DEF CachedReplicaSet
<1>4. /\ \A p \in DOMAIN pods : pods[p].owner = cur
      /\ Cardinality(ActivePods(cur)) <= deploy.replicas
      /\ ActivePods(cur) # {} \/ rctx.pc = "create"
         => CachedReplicaSet(cur).replicas = deploy.replicas
      /\ rctx.pc = "create" => /\ rctx.s = cur
                               /\ Cardinality(ActivePods(cur)) + rctx.n <= deploy.replicas
      /\ rctx.pc # "delete"
    BY <1>1 DEF NoneTooMany
<1>5. DOMAIN pods \subseteq PodIds /\ rctx \in RContext
    BY DEF TypeInv, TypeOK, ClusterTypeOK, ReplicaSetTypeOK
<1>6. ActivePods(cur) \in SUBSET PodIds /\ Cardinality(ActivePods(cur)) \in Nat
    BY <1>5, PodsCount DEF ActivePods, PodsIn
<1>7. rctx.pc = "create" => rctx.n \in Nat
    BY <1>5, RContextKinds
<1> DEFINE Goal ==
             /\ \A p \in DOMAIN pods' : pods'[p].owner = cur
             /\ Cardinality(ActivePods(cur)') <= deploy.replicas
             /\ ActivePods(cur)' # {} \/ rctx'.pc = "create"
                => CachedReplicaSet(cur)'.replicas = deploy.replicas
             /\ rctx'.pc = "create" => /\ rctx'.s = cur
                                      /\ Cardinality(ActivePods(cur)') + rctx'.n <= deploy.replicas
             /\ rctx'.pc # "delete"
<1>8. SUFFICES Goal
    BY <1>1, <1>2 DEF NoneTooMany, ActivePods, PodsIn, CachedReplicaSet
<1>9. CASE RCreatePod
    <2>1. /\ rctx.pc = "create" /\ rctx \in [pc: {"create"}, s: Structures, obj: ReplicaSet, n: Nat]
          /\ rctx.s = cur /\ rctx.n > 0
        BY <1>4, <1>5, <1>9, RContextKinds DEF RCreatePod, TypeInv, SourceNamed
    <2>2. PICK p \in PodIds \ DOMAIN pods :
             pods' = [q \in DOMAIN pods \cup {p} |->
                         IF q = p THEN NewPod(rctx.s, rctx.obj.rev) ELSE pods[q]]
        BY <1>9 DEF RCreatePod
    <2>3. ActivePods(cur)' = ActivePods(cur) \cup {p} /\ p \notin ActivePods(cur)
        BY <2>1, <2>2 DEF ActivePods, PodsIn, NewPod
    <2>4. Cardinality(ActivePods(cur)') = Cardinality(ActivePods(cur)) + 1
        BY <1>6, <2>3, PodsCount, FS_AddElement
    <2>5. \A q \in DOMAIN pods' : pods'[q].owner = cur
        BY <1>4, <2>1, <2>2 DEF NewPod
    <2>6. CASE rctx.n = 1
        <3>1. rctx' = RIdle
            BY <1>9, <2>6 DEF RCreatePod
        <3> QED
            BY <1>2, <1>3, <1>4, <1>6, <2>1, <2>4, <2>5, <2>6, <3>1 DEF RIdle
    <2>7. CASE rctx.n # 1
        <3>1. rctx' = [rctx EXCEPT !.n = rctx.n - 1]
            BY <1>9, <2>1, <2>7 DEF RCreatePod
        <3>2. rctx'.pc = "create" /\ rctx'.s = cur /\ rctx'.n = rctx.n - 1
            BY <2>1, <3>1
        <3> QED
            BY <1>2, <1>3, <1>4, <1>6, <1>7, <2>1, <2>4, <2>5, <3>2
    <2> QED
        BY <2>6, <2>7
<1>10. ASSUME ~RCreatePod
       PROVE  /\ \A p \in DOMAIN pods' : pods'[p].owner = cur
              /\ ActivePods(cur)' \subseteq ActivePods(cur)
              /\ Cardinality(ActivePods(cur)') \in Nat
              /\ Cardinality(ActivePods(cur)') <= Cardinality(ActivePods(cur))
    <2>1. \A p \in DOMAIN pods' : /\ p \in DOMAIN pods /\ pods'[p].owner = pods[p].owner
                                  /\ pods'[p].phase = "Active" => pods[p].phase = "Active"
        BY <1>10, PodFacts
    <2>2. ActivePods(cur)' \subseteq ActivePods(cur)
        BY <2>1 DEF ActivePods, PodsIn
    <2> QED
        BY <1>4, <1>6, <2>1, <2>2, FewerPods
<1>11. ASSUME NEW s \in Structures, RRead(s)
       PROVE  Goal
    <2> DEFINE obj   == CachedReplicaSet(s)
               count == Cardinality(ActivePods(s))
    <2>1. /\ obj.gen > 0 /\ UNCHANGED clusterVars
          /\ \/ /\ count < obj.replicas
                /\ rctx' = [pc |-> "create", s |-> s, obj |-> obj,
                            n |-> Min2(obj.replicas - count, BurstReplicas)]
             \/ count > obj.replicas
             \/ rctx'.pc = "update"
        BY <1>11 DEF RRead
    <2>2. s = cur
        BY <1>1, <2>1 DEF AllOrNothing
    <2>3. obj.replicas \in {0, deploy.replicas} /\ count \in Nat
        BY <1>1, <1>6, <2>2 DEF AllOrNothing
    <2>4. ActivePods(cur)' = ActivePods(cur) /\ CachedReplicaSet(cur)' = CachedReplicaSet(cur)
        BY <2>1 DEF ActivePods, PodsIn, CachedReplicaSet, clusterVars
    <2>5. \A p \in DOMAIN pods' : pods'[p].owner = cur
        BY <1>4, <2>1 DEF clusterVars
    <2>6. CASE count > obj.replicas
        <3>1. ActivePods(cur) # {}
            BY <1>2, <2>2, <2>3, <2>6, FS_EmptySet
        <3> QED
            BY <1>2, <1>4, <2>2, <2>3, <2>6, <3>1
    <2>7. CASE rctx'.pc = "update"
        BY <1>4, <2>4, <2>5, <2>7
    <2>8. CASE /\ count < obj.replicas
               /\ rctx' = [pc |-> "create", s |-> s, obj |-> obj,
                           n |-> Min2(obj.replicas - count, BurstReplicas)]
        <3>1. obj.replicas = deploy.replicas
            BY <1>2, <2>3, <2>8
        <3>2. rctx'.pc = "create" /\ rctx'.s = cur
              /\ rctx'.n = Min2(obj.replicas - count, BurstReplicas)
            BY <2>2, <2>8
        <3>3. count + rctx'.n <= deploy.replicas
            BY <1>2, <2>3, <2>8, <3>1, <3>2, BurstAssumption DEF Min2
        <3> QED
            BY <1>4, <2>2, <2>4, <2>5, <3>1, <3>2, <3>3
    <2> QED
        BY <2>1, <2>6, <2>7, <2>8
<1>12. CASE ~RCreatePod /\ ~ \E s \in Structures : RRead(s)
    <2>1. \/ rctx' = rctx
          \/ rctx'.pc = "idle"
          \/ rctx.pc = "update" /\ rctx'.pc = "update"
        BY <1>4, <1>12, ReconcileFacts
    <2> QED
        BY <1>2, <1>3, <1>4, <1>6, <1>7, <1>10, <1>12, <2>1
<1> QED
    BY <1>9, <1>11, <1>12

LEMMA IdentityInit == Init \/ SteadyInit => IdentityInv
<1>1. ASSUME Init PROVE IdentityInv
    <2>1. /\ dcache = deploy /\ dctx = DIdle /\ rctx = RIdle /\ DOMAIN pods = {}
          /\ \A s \in Structures : /\ rs[s] = NoReplicaSet
                                   /\ CachedReplicaSet(s) = NoReplicaSet
        BY <1>1 DEF Init, ClusterInit, DeploymentInit, ReplicaSetInit, CachedReplicaSet
    <2>2. deploy.structure \in Structures /\ deploy.replicas \in Nat
        BY <1>1, TypeInit, Parts, DeploymentFields DEF Deployment
    <2>3. ActivePods(deploy.structure) = {}
        BY <2>1 DEF ActivePods, PodsIn
    <2> QED
        BY <2>1, <2>2, <2>3, FS_EmptySet
           DEF IdentityInv, OneTarget, SameTarget, AllOrNothing, NoneTooMany, DIdle, RIdle,
               NoReplicaSet
<1>2. ASSUME SteadyInit PROVE IdentityInv
    <2> DEFINE cur == deploy.structure
    <2>1. /\ dcache = deploy /\ dctx = DIdle /\ rctx = RIdle
          /\ \A s \in Structures : CachedReplicaSet(s) = rs[s]
        BY <1>2, BoundsAssumption DEF SteadyInit, CachedReplicaSet
    <2>2. cur \in Structures /\ deploy.replicas \in Nat
        BY <1>2, SteadyTypeInit, Parts, DeploymentFields DEF Deployment
    <2>3. /\ rs[cur].replicas = deploy.replicas
          /\ \A s \in Structures \ {cur} : rs[s] = NoReplicaSet
        BY <1>2, RestedFacts
    <2>4. PICK P \in SUBSET PodIds :
             /\ Cardinality(P) = deploy.replicas
             /\ pods = [p \in P |-> [NewPod(cur, deploy.rev) EXCEPT !.ready = TRUE]]
        BY <1>2 DEF SteadyInit
    <2>5. ActivePods(cur) = P /\ \A p \in DOMAIN pods : pods[p].owner = cur
        BY <2>4 DEF ActivePods, PodsIn, NewPod
    <2> HIDE DEF cur
    <2>6. NoneTooMany
        <3>1. rctx.pc = "idle" /\ CachedReplicaSet(cur).replicas = deploy.replicas
            BY <2>1, <2>2, <2>3 DEF RIdle
        <3>2. Cardinality(ActivePods(cur)) <= deploy.replicas
            BY <2>2, <2>4, <2>5
        <3> QED
            BY <2>5, <3>1, <3>2 DEF NoneTooMany, cur
    <2>7. OneTarget /\ AllOrNothing
        BY <2>1, <2>2, <2>3 DEF OneTarget, SameTarget, AllOrNothing, DIdle, NoReplicaSet, cur
    <2> QED
        BY <2>6, <2>7 DEF IdentityInv
<1> QED
    BY <1>1, <1>2

\* While nobody touches the structure and the replica count, a Pod that serves is
\* never deleted, whatever else of the template and of the strategy is edited, however
\* old the caches are, whichever calls fail and whichever Pods are evicted.
THEOREM IdentityIsKept == (Spec \/ SteadySpec) /\ [][Frozen]_vars => IdentityKept
<1>1. TypeInv /\ PauseInv /\ IdentityInv /\ [Next]_vars /\ [Frozen]_vars => IdentityInv'
    BY TargetStep, ReplicasStep, CountStep DEF IdentityInv
<1>2. TypeInv /\ PauseInv /\ IdentityInv /\ [Next]_vars =>
        [\A p \in DOMAIN pods : pods[p].phase = "Active"
            => p \in DOMAIN pods' /\ pods'[p].phase # "Terminating"]_vars
    <2> SUFFICES ASSUME TypeInv, IdentityInv, [Next]_vars,
                        NEW p \in DOMAIN pods, pods[p].phase = "Active"
                 PROVE  p \in DOMAIN pods' /\ pods'[p].phase # "Terminating"
        OBVIOUS
    <2>1. rctx.pc # "delete"
        BY DEF IdentityInv, NoneTooMany
    <2>2. CASE RCreatePod
        BY <2>2 DEF RCreatePod
    <2>3. CASE ~RCreatePod
        BY <2>1, <2>3, PodFacts
    <2> QED
        BY <2>2, <2>3
<1>3. Spec \/ SteadySpec => [](TypeInv /\ PauseInv)
    BY PauseInit, PauseStep, TypeInvariant, PTL DEF Spec, SteadySpec
<1>4. (Spec \/ SteadySpec) /\ [][Frozen]_vars => []IdentityInv
    BY <1>1, <1>3, IdentityInit, PTL DEF Spec, SteadySpec
<1> QED
    BY <1>2, <1>3, <1>4, PTL DEF Spec, SteadySpec, IdentityKept
-----------------------------------------------------------------------------
(***************************************************************************)
(* One edit of a Deployment at rest.                                       *)
(*                                                                         *)
(* The user edits a rolled-out Deployment once, whatever the edit is as    *)
(* long as it leaves the replica count alone: a reconcile that read the    *)
(* old structure must not get another count to scale it to.  Then every    *)
(* ReplicaSet goes one way: the replica counts in the API server, in the   *)
(* cache and of the Pods only fall, or only rise.                          *)
(***************************************************************************)
\* What is supposed of everybody else: one edit, of anything but the replica
\* count, no eviction, no restart.
EditedOnce == deploy.gen <= 2
FrozenReplicas == deploy'.replicas = deploy.replicas
NoEviction == ~ \E p \in DOMAIN pods : Evict(p)
NoRestart  == ~ \E p \in DOMAIN pods : KubeletRestart(p)

SameSpec(d) == /\ d.structure = deploy.structure /\ d.replicas = deploy.replicas
               /\ d.strategy = deploy.strategy

AtRest(d) == \A s \in Structures : rs[s].replicas = IF s = d.structure THEN d.replicas ELSE 0

\* A reconcile holds the spec before the edit or the one after it, and as long as
\* the earlier one may be read nothing has been scaled.
TwoSpecs ==
    /\ deploy.gen >= 1 /\ dcache.gen >= 1 /\ (dctx # DIdle => dctx.d.gen >= 1)
    /\ dcache.replicas = deploy.replicas
    /\ dctx # DIdle => dctx.d.replicas = deploy.replicas
    /\ dcache.gen = deploy.gen => SameSpec(dcache)
    /\ dctx # DIdle /\ dctx.d.gen = deploy.gen => SameSpec(dctx.d)
    /\ dcache.gen = 1 => AtRest(dcache) /\ ~dcache.paused
    /\ dctx # DIdle /\ dctx.d.gen = 1 =>
          AtRest(dctx.d) /\ ~dctx.d.paused /\ dctx.pc # "scale"

\* A rollout takes an old ReplicaSet down, and the current one towards its target.
\* A reconcile that read the spec before the edit and holds the one after it has
\* another ReplicaSet as the current one, with all its replicas.
RolloutDirected ==
    /\ dctx.pc = "status" /\ ~dctx.d.paused => dctx.cur = dctx.d.structure
    /\ dctx.pc = "list" => \/ dctx.cur = dctx.d.structure /\ dctx.d.gen <= dcache.gen
                           \/ rs[dctx.cur].replicas = dctx.d.replicas
    /\ dctx.pc = "scale" =>
          /\ dctx.cur = dctx.d.structure /\ dctx.d.gen <= dcache.gen
          /\ IF dctx.rs # deploy.structure THEN dctx.n <= rs[dctx.rs].replicas
             ELSE \/ rs[dctx.rs].replicas <= dctx.n /\ dctx.n <= deploy.replicas
                  \/ rs[dctx.rs].replicas > deploy.replicas /\ dctx.n = deploy.replicas

\* A ReplicaSet that shrinks has at least the Pods its cached copy asks for, and
\* the copy asks for no fewer than the API server; nobody creates a Pod for it.
Shrinking(s) ==
    /\ rs[s].replicas <= CachedReplicaSet(s).replicas
    /\ CachedReplicaSet(s).replicas <= Cardinality(ActivePods(s))
    /\ rctx.pc = "create" => rctx.s # s
    /\ rctx.pc = "delete" /\ rctx.s = s
       => CachedReplicaSet(s).replicas <= Cardinality(ActivePods(s) \ rctx.victims)

\* The mirror image for one that grows.
Growing(s) ==
    /\ Cardinality(ActivePods(s)) <= CachedReplicaSet(s).replicas
    /\ CachedReplicaSet(s).replicas <= rs[s].replicas
    /\ rctx.pc = "delete" => rctx.s # s
    /\ rctx.pc = "create" /\ rctx.s = s
       => Cardinality(ActivePods(s)) + rctx.n <= CachedReplicaSet(s).replicas

MustShrink(s) == \/ deploy.gen = 1 \/ s # deploy.structure
                 \/ rs[s].replicas > deploy.replicas
MustGrow(s)   == \/ deploy.gen = 1
                 \/ s = deploy.structure /\ rs[s].replicas < deploy.replicas

OneWay ==
    \A s \in Structures : /\ MustShrink(s) => Shrinking(s)
                          /\ MustGrow(s) => Growing(s)
                          /\ Shrinking(s) \/ Growing(s)

\* A reconcile deletes Pods of its own ReplicaSet.
VictimsOwned ==
    rctx.pc = "delete" => \A p \in rctx.victims \cap DOMAIN pods : pods[p].owner = rctx.s

EditInv == TwoSpecs /\ RolloutDirected /\ VictimsOwned /\ OneWay

-----------------------------------------------------------------------------
\* At rest there is nothing to scale.
LEMMA RestScale ==
    ASSUME NEW view \in [Structures -> ReplicaSet], SpecStands(view),
           NEW d \in Deployment, NEW cur \in Structures, rs[cur].replicas = d.replicas,
           \A s \in Structures \ {cur} : rs[s].replicas = 0,
           NEW next \in RolloutChoices(d, cur, view)
    PROVE  next.pc # "scale"
<1>1. d.replicas \in Nat
    BY DeploymentFields
<1>2. view[cur].replicas = d.replicas /\ \A s \in Structures \ {cur} : view[s].replicas = 0
    BY DEF SpecStands
<1>3. RecreateScaleDowns(cur, view) = {} /\ ScaleDowns(d.replicas, Limits(d), cur, view) = {}
    BY <1>2 DEF RecreateScaleDowns, ScaleDowns
<1>4. ScaleChoices(d, cur, view) = {}
    BY <1>1, <1>2, <1>3 DEF ScaleChoices, RollingChoices
<1> QED
    BY <1>4 DEF RolloutChoices, DIdle

\* A scale patch takes an old ReplicaSet down within what the minimum leaves over,
\* and the current one towards the desired count.
LEMMA ScaleDirection ==
    ASSUME NEW view \in [Structures -> ReplicaSet],
           NEW d \in Deployment, NEW cur \in Structures, NEW c \in ScaleChoices(d, cur, view)
    PROVE  /\ c.rs \in Structures
           /\ c.rs # cur =>
                 /\ c.n <= view[c.rs].replicas
                 /\ d.strategy.recreate \/
                    LET budget == TotalAvailableReplicas(view)
                                    - Max2(d.replicas - Limits(d).unavailable, 0)
                    IN  view[c.rs].replicas <= view[c.rs].status.available
                        => view[c.rs].replicas - c.n <= budget
           /\ c.rs = cur =>
                 /\ ~d.strategy.recreate
                 /\ \/ view[cur].replicas <= c.n /\ c.n <= d.replicas
                    \/ view[cur].replicas > d.replicas /\ c.n = d.replicas
<1> DEFINE lim == Limits(d)
<1>1. /\ d.replicas \in Nat /\ lim.surge \in Nat /\ lim.unavailable \in Nat
      /\ LimitsOK(lim) /\ ViewOK(view) /\ IsFiniteSet(Structures)
    BY DeploymentFields, ListedView, StructuresAssumption DEF LimitsOK
<1>2. \A s \in Structures : view[s].replicas \in Nat /\ view[s].status.available \in Nat
    BY DEF ReplicaSet, RSStatus
<1>3. TotalReplicaSpec(view) \in Nat /\ TotalAvailableReplicas(view) \in Nat
    BY <1>1, SumsType
<1> HIDE DEF lim
<1>4. CASE d.strategy.recreate
    <2>1. c \in RecreateScaleDowns(cur, view)
        BY <1>4 DEF ScaleChoices
    <2> QED
        BY <1>2, <1>4, <2>1 DEF RecreateScaleDowns
<1>5. CASE ~d.strategy.recreate
    <2>1. c \in RollingChoices(d.replicas, lim, cur, view)
        BY <1>5 DEF ScaleChoices, lim
    <2>2. CASE /\ view[cur].replicas < d.replicas
               /\ TotalReplicaSpec(view) < d.replicas + lim.surge
        <3>1. c.rs = cur /\ c.n = view[cur].replicas + ScaleUp(d.replicas, lim, cur, view)
            BY <2>1, <2>2 DEF RollingChoices
        <3>2. /\ 0 <= ScaleUp(d.replicas, lim, cur, view)
              /\ ScaleUp(d.replicas, lim, cur, view) <= d.replicas - view[cur].replicas
              /\ ScaleUp(d.replicas, lim, cur, view) \in Int
            BY <1>1, <1>2, <1>3, <2>2 DEF ScaleUp, Min2
        <3> QED
            BY <1>1, <1>2, <1>5, <3>1, <3>2
    <2>3. CASE c \in ScaleDowns(d.replicas, lim, cur, view)
        <3>1. PICK o \in Structures \ {cur} :
                 /\ c = [rs |-> o, n |-> view[o].replicas - Decrease(d.replicas, lim, cur, o, view)]
                 /\ Decrease(d.replicas, lim, cur, o, view) > 0
            BY <2>3 DEF ScaleDowns
        <3>2. Decrease(d.replicas, lim, cur, o, view) \in 0..view[o].replicas
            BY <1>1, DecreaseBounds
        <3>3. view[o].replicas <= view[o].status.available =>
                Decrease(d.replicas, lim, cur, o, view)
                   <= TotalAvailableReplicas(view) - Max2(d.replicas - lim.unavailable, 0)
            BY <1>1, <1>2, <1>3, <3>1, <3>2 DEF Decrease, Min2, Max2
        <3> QED
            BY <1>2, <1>5, <3>1, <3>2, <3>3 DEF lim
    <2>4. CASE /\ c = [rs |-> cur, n |-> d.replicas]
               /\ view[cur].replicas # d.replicas
        BY <1>1, <1>2, <1>5, <2>4
    <2> QED
        BY <2>1, <2>2, <2>3, <2>4 DEF RollingChoices
<1> QED
    BY <1>4, <1>5

\* A scale patch is of the edited Deployment.
LEMMA ScaleIsNew ==
    ASSUME TypeInv, PauseInv, EditInv, EditedOnce, dctx.pc = "scale"
    PROVE  /\ dctx # DIdle
           /\ deploy.gen = 2 /\ dcache.gen = 2 /\ dctx.d.gen = 2
           /\ SameSpec(dctx.d) /\ dctx.cur = deploy.structure
<1>1. dctx # DIdle
    BY DEF DIdle
<1>2. dctx.d.gen # 1 /\ dctx.d.gen >= 1 /\ dctx.d.gen <= dcache.gen
    BY <1>1 DEF EditInv, TwoSpecs, RolloutDirected
<1>3. deploy.gen = 2 /\ dcache.gen = 2 /\ dctx.d.gen = 2
    BY <1>1, <1>2, GenerationTypes DEF EditedOnce, PauseInv, GenerationsOrdered
<1>4. SameSpec(dctx.d)
    BY <1>1, <1>3 DEF EditInv, TwoSpecs
<1> QED
    BY <1>1, <1>3, <1>4 DEF EditInv, RolloutDirected, SameSpec

\* What a read or a status patch goes on with: a rollout of the spec that was read,
\* or, if the status patch returned a newer one, at most a look at the old Pods.
LEMMA NewRollout ==
    ASSUME TypeInv, PauseInv, EditInv, EditedOnce, DRead \/ DStatus,
           dctx'.pc \in {"list", "scale"}
    PROVE  /\ dctx'.d \in Deployment /\ dctx'.cur \in Structures
           /\ \/ dctx'.cur = dctx'.d.structure /\ dctx'.d.gen <= dcache.gen
              \/ rs[dctx'.cur].replicas = dctx'.d.replicas
           /\ dctx'.pc = "scale" =>
                 /\ dctx'.cur = dctx'.d.structure /\ dctx'.d.gen <= dcache.gen
                 /\ dctx'.d.gen # 1 /\ SameSpec(dctx'.d)
           /\ \E view \in [Structures -> ReplicaSet] :
                 /\ SpecStands(view)
                 /\ view = rs \/ (DStatus /\ view = dctx.view)
                 /\ dctx' \in RolloutChoices(dctx'.d, dctx'.cur, view)
<1> USE DEF EditInv
<1>0. dctx' # DIdle
    BY DEF DIdle
<1>1. CASE DRead
    <2>1. /\ dctx'.d = dcache /\ ~dcache.paused /\ dctx'.cur \in CurrentChoices(dcache)
          /\ dctx' \in RolloutChoices(dcache, dctx'.cur, rs)
        BY <1>0, <1>1, ReadFacts
    <2>2. dctx'.cur = dcache.structure
        BY <2>1 DEF CurrentChoices
    <2>3. dcache \in Deployment /\ dcache.structure \in Structures /\ dcache.gen \in Nat
        BY Parts, GenerationTypes DEF Deployment
    <2>4. dctx'.pc = "scale" => dcache.gen # 1
        BY <2>1, <2>2, <2>3, RestScale, StoreStands, Parts DEF TwoSpecs, AtRest
    <2>5. dctx'.pc = "scale" => SameSpec(dcache)
        BY <2>4, GenerationTypes DEF TwoSpecs, EditedOnce, PauseInv, GenerationsOrdered
    <2> QED
        BY <2>1, <2>2, <2>3, <2>4, <2>5, StoreStands, Parts
<1>2. CASE DStatus
    <2>1. /\ dctx.pc = "status" /\ dctx # DIdle /\ dctx.cur \in Structures
          /\ dctx.view \in [Structures -> ReplicaSet] /\ SpecStands(dctx.view)
          /\ dctx'.cur = dctx.cur /\ dctx'.d \in Deployment /\ dctx'.d.gen = deploy.gen
          /\ SameSpec(dctx'.d) /\ ~deploy.paused
          /\ dctx' \in RolloutChoices(dctx'.d, dctx'.cur, dctx.view)
        BY <1>0, <1>2, StatusFacts DEF SameSpec
    <2>2. dctx.d.gen <= dcache.gen /\ deploy.gen \in Nat
        BY <2>1, GenerationTypes DEF PauseInv, GenerationsOrdered
    <2>3. ASSUME dctx.d.gen = 1
          PROVE  /\ rs[dctx.cur].replicas = dctx'.d.replicas /\ dctx'.pc # "scale"
                 /\ dctx.cur = dctx.d.structure
        <3>1. AtRest(dctx.d) /\ dctx.cur = dctx.d.structure /\ dctx.d.replicas = deploy.replicas
            BY <2>1, <2>3 DEF TwoSpecs, RolloutDirected
        <3>2. /\ rs[dctx.cur].replicas = dctx'.d.replicas
              /\ \A s \in Structures \ {dctx.cur} : rs[s].replicas = 0
            BY <2>1, <3>1 DEF AtRest, SameSpec
        <3> QED
            BY <2>1, <3>1, <3>2, RestScale
    <2>4. ASSUME dctx.d.gen # 1
          PROVE  /\ dctx.d.gen = deploy.gen /\ deploy.gen # 1
                 /\ dctx'.cur = dctx'.d.structure
        <3>1. dctx.d.gen = deploy.gen /\ deploy.gen # 1
            BY <2>1, <2>4, GenerationTypes
               DEF TwoSpecs, EditedOnce, PauseInv, GenerationsOrdered
        <3>2. SameSpec(dctx.d) /\ ~dctx.d.paused
            BY <2>1, <3>1 DEF TwoSpecs, PauseInv, GenerationsOrdered
        <3> QED
            BY <2>1, <3>1, <3>2 DEF RolloutDirected, SameSpec
    <2> QED
        BY <1>2, <2>1, <2>2, <2>3, <2>4
<1> QED
    BY <1>1, <1>2

\* The replica count of the Deployment stays.
LEMMA SameReplicas ==
    ASSUME [FrozenReplicas]_vars
    PROVE  deploy'.replicas = deploy.replicas
BY DEF FrozenReplicas, vars

\* The cached Deployment only gets newer.
LEMMA NewerCache ==
    ASSUME TypeInv, PauseInv, [Next]_vars
    PROVE  dcache'.gen \in Nat /\ dcache.gen <= dcache'.gen
<1>1. /\ dcache.gen \in Nat /\ deploy.gen \in Nat /\ dcache.gen <= deploy.gen
    BY GenerationTypes DEF PauseInv, GenerationsOrdered
<1>2. CASE UNCHANGED dcache
    BY <1>1, <1>2
<1>3. CASE UserEdit \/ RefreshDeployment
    BY <1>1, <1>3, EditFacts DEF RefreshDeployment
<1>4. CASE DStatus
    BY <1>1, <1>4, StatusFacts
<1>5. CASE DRead \/ DCreate \/ DSync \/ DListPods \/ DScale \/ DFail \/ UNCHANGED vars
    BY <1>2, <1>5 DEF DRead, DCreate, DSync, DListPods, DScale, DFail, clusterVars, vars
<1> QED
    BY <1>2, <1>3, <1>4, <1>5, ClusterFacts, ReconcileKeeps DEF Next, DWork

LEMMA SpecsStep ==
    ASSUME TypeInv, PauseInv, EditInv, EditedOnce, EditedOnce', [Next]_vars, [FrozenReplicas]_vars
    PROVE  TwoSpecs'
<1> USE DEF EditInv
<1>0. DIdle.pc = "idle" /\ deploy'.replicas = deploy.replicas
    BY SameReplicas DEF DIdle
<1>1. /\ deploy.gen \in {1, 2} /\ dcache.gen \in 1..deploy.gen
      /\ dctx # DIdle => dctx.d.gen \in 1..deploy.gen
    BY GenerationTypes DEF TwoSpecs, EditedOnce, PauseInv, GenerationsOrdered
<1>2. /\ deploy.structure \in Structures /\ dcache.structure \in Structures
      /\ dctx # DIdle => dctx.d.structure \in Structures
    BY Parts DEF Deployment
<1>3. deploy.gen = 1 => AtRest(deploy) /\ ~deploy.paused
    BY <1>1 DEF TwoSpecs, SameSpec, AtRest, PauseInv, GenerationsOrdered
<1>4. ASSUME \A s \in Structures : rs'[s].replicas = rs[s].replicas,
             UNCHANGED deploy, dcache' \in {dcache, deploy},
             dctx' = dctx \/ dctx' = DIdle
      PROVE  TwoSpecs'
    <2>1. /\ AtRest(dcache) => AtRest(dcache)' \/ dcache' # dcache
          /\ AtRest(deploy) => AtRest(deploy)'
          /\ AtRest(dctx.d) => AtRest(dctx.d)' \/ dctx' # dctx
        BY <1>4 DEF AtRest
    <2>2. /\ dcache'.gen >= 1 /\ (dcache'.gen = 1 => AtRest(dcache)' /\ ~dcache'.paused)
          /\ dcache'.replicas = deploy'.replicas
        BY <1>1, <1>3, <1>4, <2>1 DEF TwoSpecs, AtRest
    <2>3. dcache'.gen = deploy'.gen => SameSpec(dcache)'
        BY <1>4 DEF TwoSpecs, SameSpec
    <2>4. CASE dctx' = dctx
        BY <1>4, <2>1, <2>2, <2>3, <2>4 DEF TwoSpecs, SameSpec
    <2>5. CASE dctx' = DIdle
        BY <1>4, <2>2, <2>3, <2>5 DEF TwoSpecs
    <2> QED
        BY <1>4, <2>4, <2>5
<1>5. CASE UNCHANGED vars
    BY <1>4, <1>5 DEF vars
<1>6. CASE ClusterNext /\ UNCHANGED <<dctx, rctx>>
    <2>1. CASE UserEdit
        <3>1. deploy.gen = 1 /\ deploy'.gen = 2
            BY <1>1, <2>1, EditFacts DEF EditedOnce
        <3>2. dcache.gen = 1 /\ (dctx # DIdle => dctx.d.gen = 1)
            BY <1>1, <3>1
        <3>3. dcache' \in {dcache, deploy'} /\ UNCHANGED <<rs, dctx>>
            BY <1>6, <2>1, EditFacts
        <3>4. /\ dcache' = dcache => AtRest(dcache)' /\ ~dcache'.paused
              /\ dcache'.replicas = deploy'.replicas
            BY <1>0, <3>2, <3>3 DEF TwoSpecs, AtRest
        <3>5. dctx # DIdle => /\ AtRest(dctx.d)' /\ ~dctx.d.paused /\ dctx.pc # "scale"
                              /\ dctx.d.replicas = deploy'.replicas
            BY <1>0, <3>2, <3>3 DEF TwoSpecs, AtRest
        <3> QED
            BY <3>1, <3>2, <3>3, <3>4, <3>5 DEF TwoSpecs, SameSpec
    <2>2. CASE RefreshDeployment
        BY <1>4, <1>6, <2>2, StoreKept DEF RefreshDeployment
    <2>3. CASE UNCHANGED <<deploy, dcache>>
        BY <1>4, <1>6, <2>3, StoreKept
    <2> QED
        BY <1>6, <2>1, <2>2, <2>3, ClusterFacts
<1>7. CASE ((\E s \in Structures : RRead(s)) \/ RStep \/ RFail) /\ UNCHANGED dctx
    BY <1>4, <1>7, StoreKept, ReconcileKeeps
<1>8. CASE DRead
    <2>1. UNCHANGED <<deploy, dcache, rs>>
        BY <1>8, ReadFacts DEF clusterVars
    <2>2. CASE dctx' = DIdle
        BY <1>4, <2>1, <2>2
    <2>3. CASE dctx' # DIdle
        <3>1. dctx'.d = dcache
            BY <1>8, <2>3, ReadFacts
        <3>2. AtRest(dcache) => AtRest(dcache)' /\ AtRest(dctx.d)'
            BY <2>1, <3>1 DEF AtRest
        <3>3. dcache.gen = 1 => dctx'.pc # "scale"
            BY <1>8, <3>1, NewRollout
        <3> QED
            BY <1>1, <2>1, <3>1, <3>2, <3>3 DEF TwoSpecs, SameSpec
    <2> QED
        BY <2>2, <2>3
<1>9. CASE DCreate
    <2>1. rs[dctx.d.structure].replicas = 0
        BY <1>9, CreateFacts DEF PauseInv, Vacant
    <2> QED
        BY <1>4, <1>9, <2>1, CreateFacts
<1>10. CASE DSync
    BY <1>4, <1>10, SyncFacts
<1>11. CASE DScale
    <2>1. deploy.gen = 2 /\ dcache.gen = 2
        BY <1>11, ScaleFacts, ScaleIsNew
    <2> QED
        BY <1>11, <2>1, ScaleFacts DEF TwoSpecs, SameSpec
<1>12. CASE DFail
    BY <1>4, <1>12 DEF DFail
<1>13. CASE DStatus
    <2>1. /\ deploy'.gen = deploy.gen /\ SameSpec(deploy)' /\ UNCHANGED rs
          /\ deploy'.structure = deploy.structure /\ deploy'.replicas = deploy.replicas
          /\ deploy'.strategy = deploy.strategy /\ deploy'.paused = deploy.paused
          /\ dcache' \in {dcache, deploy'}
        BY <1>13, StatusFacts DEF SameSpec
    <2>2. /\ dcache'.gen >= 1 /\ (dcache'.gen = 1 => AtRest(dcache)' /\ ~dcache'.paused)
          /\ dcache'.replicas = deploy'.replicas
        BY <1>1, <1>3, <2>1 DEF TwoSpecs, AtRest
    <2>3. dcache'.gen = deploy'.gen => SameSpec(dcache)'
        BY <2>1 DEF TwoSpecs, SameSpec
    <2>4. ASSUME dctx' # DIdle
          PROVE  /\ dctx'.d.gen = deploy.gen /\ SameSpec(dctx.d)' /\ ~dctx'.d.paused
                 /\ dctx'.d.replicas = deploy'.replicas
                 /\ deploy.gen = 1 => AtRest(dctx.d)' /\ dctx'.pc # "scale"
        <3>1. /\ dctx'.d.gen = deploy.gen /\ SameSpec(dctx'.d) /\ ~dctx'.d.paused
              /\ dctx'.pc \in {"list", "scale"}
            BY <1>13, <2>4, StatusFacts DEF SameSpec
        <3>2. deploy.gen = 1 => dctx'.pc # "scale"
            BY <1>13, <3>1, NewRollout
        <3> QED
            BY <1>3, <2>1, <3>1, <3>2 DEF AtRest, SameSpec
    <2> QED
        BY <1>1, <2>1, <2>2, <2>3, <2>4 DEF TwoSpecs
<1>14. CASE DListPods
    <2>1. UNCHANGED <<deploy, dcache, rs>> /\ dctx.pc = "list" /\ dctx # DIdle
        BY <1>0, <1>14, ListFacts DEF clusterVars
    <2>2. CASE dctx' = DIdle
        BY <1>4, <2>1, <2>2
    <2>3. CASE /\ dctx'.pc = "scale" /\ dctx'.d = dctx.d
               /\ rs[dctx.cur].replicas # dctx.d.replicas
        <3>1. dctx.cur = dctx.d.structure
            BY <2>1, <2>3 DEF RolloutDirected
        <3>2. dctx.d.gen # 1
            BY <1>2, <2>1, <2>3, <3>1 DEF TwoSpecs, AtRest
        <3>3. dcache.gen = 1 => AtRest(dcache)'
            BY <2>1 DEF TwoSpecs, AtRest
        <3> QED
            BY <1>1, <2>1, <2>3, <3>2, <3>3 DEF TwoSpecs, SameSpec
    <2> QED
        BY <1>14, <2>2, <2>3, ListFacts
<1> QED
    BY <1>5, <1>6, <1>7, <1>8, <1>9, <1>10, <1>11, <1>12, <1>13, <1>14 DEF Next, DWork

LEMMA DirectedStep ==
    ASSUME TypeInv, PauseInv, EditInv, EditedOnce, EditedOnce', [Next]_vars
    PROVE  RolloutDirected'
<1> USE DEF EditInv
<1>0. DIdle.pc = "idle"
    BY DEF DIdle
<1>1. ASSUME dctx' = dctx, \A s \in Structures : rs'[s].replicas = rs[s].replicas,
             \/ deploy'.structure = deploy.structure /\ deploy'.replicas = deploy.replicas
             \/ dctx.pc # "scale"
      PROVE  RolloutDirected'
    <2>1. /\ dctx.pc = "scale" => dctx.rs \in Structures
          /\ dctx.pc = "list" => dctx.cur \in Structures
          /\ dctx.pc \in {"list", "scale"} => dctx.d.gen \in Nat
        BY <1>0, Parts, GenerationTypes, DContextKinds DEF ScaleContext, ListContext
    <2>2. dctx.pc \in {"list", "scale"} /\ dctx.d.gen <= dcache.gen => dctx.d.gen <= dcache'.gen
        BY <2>1, GenerationTypes, NewerCache
    <2> QED
        BY <1>1, <2>1, <2>2 DEF RolloutDirected
<1>2. ASSUME dctx' = DIdle
      PROVE  RolloutDirected'
    BY <1>0, <1>2 DEF RolloutDirected
<1>3. CASE UNCHANGED vars
    BY <1>1, <1>3 DEF vars
<1>4. CASE ClusterNext /\ UNCHANGED <<dctx, rctx>>
    <2>1. CASE UserEdit
        <3>1. deploy.gen # 2
            BY <2>1, EditFacts, GenerationTypes DEF EditedOnce
        <3> QED
            BY <1>1, <1>4, <2>1, <3>1, EditFacts, ScaleIsNew, StoreKept
    <2>2. CASE RefreshDeployment
        BY <1>1, <1>4, <2>2, StoreKept DEF RefreshDeployment
    <2>3. CASE UNCHANGED <<deploy, dcache>>
        BY <1>1, <1>4, <2>3, StoreKept
    <2> QED
        BY <1>4, <2>1, <2>2, <2>3, ClusterFacts
<1>5. CASE ((\E s \in Structures : RRead(s)) \/ RStep \/ RFail) /\ UNCHANGED dctx
    BY <1>1, <1>5, StoreKept, ReconcileKeeps
<1>6. ASSUME DRead \/ DStatus, dctx'.pc \in {"list", "scale"}
      PROVE  RolloutDirected'
    <2>1. /\ UNCHANGED rs /\ deploy'.structure = deploy.structure
          /\ deploy'.replicas = deploy.replicas /\ deploy'.gen = deploy.gen
          /\ dcache' \in {dcache, deploy'}
        BY <1>6, ReadFacts, StatusFacts DEF clusterVars
    <2>2. dctx'.d.gen <= dcache.gen => dctx'.d.gen <= dcache'.gen
        <3>1. dctx'.d.gen \in Nat
            BY <1>6, NewRollout DEF Deployment
        <3> QED
            BY <3>1, GenerationTypes, NewerCache
    <2>3. CASE dctx'.pc = "list"
        BY <1>6, <2>1, <2>2, <2>3, NewRollout DEF RolloutDirected
    <2>4. CASE dctx'.pc = "scale"
        <3>1. /\ dctx'.cur = dctx'.d.structure /\ dctx'.d.gen <= dcache.gen
              /\ SameSpec(dctx'.d) /\ dctx'.d \in Deployment /\ dctx'.cur \in Structures
            BY <1>6, <2>4, NewRollout
        <3>2. PICK view \in [Structures -> ReplicaSet] :
                 SpecStands(view) /\ dctx' \in RolloutChoices(dctx'.d, dctx'.cur, view)
            BY <1>6, NewRollout
        <3>3. PICK c \in ScaleChoices(dctx'.d, dctx'.cur, view) :
                 dctx'.rs = c.rs /\ dctx'.n = c.n
            BY <1>0, <2>4, <3>2 DEF RolloutChoices
        <3>4. /\ c.rs \in Structures
              /\ c.rs # dctx'.cur => c.n <= view[c.rs].replicas
              /\ c.rs = dctx'.cur =>
                    \/ view[c.rs].replicas <= c.n /\ c.n <= dctx'.d.replicas
                    \/ view[c.rs].replicas > dctx'.d.replicas /\ c.n = dctx'.d.replicas
            BY <3>1, <3>3, ScaleDirection
        <3>5. view[c.rs].replicas = rs[c.rs].replicas
            BY <3>2, <3>4 DEF SpecStands
        <3> QED
            BY <2>1, <2>2, <2>4, <3>1, <3>3, <3>4, <3>5 DEF RolloutDirected, SameSpec
    <2> QED
        BY <1>6, <2>3, <2>4
<1>7. CASE DRead
    <2>1. CASE dctx' = DIdle \/ dctx'.pc \in {"create", "sync"}
        BY <1>2, <2>1 DEF RolloutDirected
    <2>2. CASE dctx' # DIdle /\ dctx'.pc = "status"
        <3>1. dctx'.d = dcache /\ dctx'.cur \in CurrentChoices(dcache)
            BY <1>7, <2>2, ReadFacts
        <3> QED
            BY <2>2, <3>1 DEF RolloutDirected, CurrentChoices
    <2> QED
        BY <1>6, <1>7, <2>1, <2>2, ReadFacts
<1>8. CASE DCreate \/ DSync \/ DScale \/ DFail
    BY <1>2, <1>8, CreateFacts, SyncFacts, ScaleFacts DEF DFail
<1>9. CASE DStatus
    BY <1>2, <1>6, <1>9, StatusFacts
<1>10. CASE DListPods
    <2>1. UNCHANGED <<deploy, dcache, rs>> /\ dctx.pc = "list" /\ dctx # DIdle
        BY <1>0, <1>10, ListFacts DEF clusterVars
    <2>2. CASE dctx' = DIdle
        BY <1>2, <2>2
    <2>3. CASE /\ dctx'.pc = "scale" /\ dctx'.d = dctx.d /\ dctx'.cur = dctx.cur
               /\ dctx'.rs = dctx.cur /\ dctx'.n = dctx.d.replicas
               /\ rs[dctx.cur].replicas # dctx.d.replicas
        <3>1. /\ dctx.cur = dctx.d.structure /\ dctx.d.gen <= dcache.gen
              /\ dctx.d \in Deployment
            BY <2>1, <2>3, Parts DEF RolloutDirected
        <3>2. dctx.d.gen # 1
            BY <2>1, <2>3, <3>1 DEF TwoSpecs, AtRest, Deployment
        <3>3. SameSpec(dctx.d)
            BY <2>1, <3>1, <3>2, GenerationTypes
               DEF TwoSpecs, EditedOnce, PauseInv, GenerationsOrdered
        <3>4. rs[dctx.cur].replicas \in Nat /\ dctx.d.replicas \in Nat
            BY <3>1, Parts, DeploymentFields DEF Deployment
        <3> QED
            BY <2>1, <2>3, <3>1, <3>3, <3>4 DEF RolloutDirected, SameSpec
    <2> QED
        BY <1>10, <2>2, <2>3, ListFacts
<1> QED
    BY <1>3, <1>4, <1>5, <1>7, <1>8, <1>9, <1>10 DEF Next, DWork

-----------------------------------------------------------------------------
\* Counts are numbers.
LEMMA CountTypes ==
    ASSUME TypeInv, NEW s \in Structures
    PROVE  /\ rs[s].replicas \in Nat /\ CachedReplicaSet(s).replicas \in Nat
           /\ ActivePods(s) \in SUBSET PodIds /\ IsFiniteSet(ActivePods(s))
           /\ Cardinality(ActivePods(s)) \in Nat
           /\ rctx.pc = "create" => rctx.n \in Nat /\ rctx.n > 0
           /\ rctx.pc = "delete" => rctx.victims \in SUBSET PodIds
<1>1. CachedReplicaSet(s) \in ReplicaSet
    BY DEF TypeInv, TypeOK, ClusterTypeOK, CachedReplicaSet
<1>2. ActivePods(s) \in SUBSET PodIds
    BY DEF TypeInv, TypeOK, ClusterTypeOK, ActivePods, PodsIn
<1> QED
    BY <1>1, <1>2, Parts, PodsCount, RContextKinds DEF ReplicaSet, TypeInv, SourceNamed

\* Without evictions only the two loops of the ReplicaSet reconcile change which
\* Pods are active.
LEMMA ActiveKept ==
    ASSUME TypeInv, [Next]_vars, [NoEviction]_vars, ~RCreatePod, ~RDeletePod, NEW s
    PROVE  ActivePods(s)' = ActivePods(s)
<1>1. \A p \in DOMAIN pods : pods[p] \in Pod
    BY DEF TypeInv, TypeOK, ClusterTypeOK
<1>2. CASE pods' = pods
    BY <1>2 DEF ActivePods, PodsIn
<1>3. ASSUME NEW p \in DOMAIN pods, KubeletRestart(p) \/ KubeletReady(p) \/ PodGone(p)
      PROVE  ActivePods(s)' = ActivePods(s)
    <2>1. CASE KubeletRestart(p)
        BY <1>1, <2>1 DEF KubeletRestart, Pod, ActivePods, PodsIn
    <2>2. CASE KubeletReady(p)
        BY <1>1, <2>2 DEF KubeletReady, Pod, ActivePods, PodsIn
    <2>3. CASE PodGone(p)
        BY <1>1, <2>3 DEF PodGone, Pod, ActivePods, PodsIn
    <2> QED
        BY <1>3, <2>1, <2>2, <2>3
<1>4. CASE RPatchPod
    <2>1. PICK p : \/ p \in DOMAIN pods /\ pods' = [pods EXCEPT ![p].rev = rctx.obj.rev]
                   \/ UNCHANGED pods
        BY <1>4 DEF RPatchPod
    <2>2. CASE p \in DOMAIN pods /\ pods' = [pods EXCEPT ![p].rev = rctx.obj.rev]
        <3>1. /\ DOMAIN pods' = DOMAIN pods
              /\ \A q \in DOMAIN pods : /\ pods'[q].phase = pods[q].phase
                                        /\ pods'[q].owner = pods[q].owner
            BY <1>1, <2>2 DEF Pod
        <3> QED
            BY <3>1 DEF ActivePods, PodsIn
    <2> QED
        BY <1>2, <2>1, <2>2
<1>5. CASE DWork \/ DFail
    <2>1. pods' = pods
        <3>1. CASE DRead \/ DListPods \/ DFail
            BY <3>1 DEF DRead, DListPods, DFail, clusterVars
        <3> QED
            BY <1>5, <3>1, CreateFacts, SyncFacts, StatusFacts, ScaleFacts DEF DWork
    <2> QED
        BY <1>2, <2>1
<1>6. CASE (\E t \in Structures : RRead(t)) \/ RPatchStatus \/ RFail \/ UNCHANGED vars
    BY <1>2, <1>6 DEF RRead, RPatchStatus, RFail, clusterVars, vars
<1>7. CASE ClusterNext
    <2>1. CASE UserEdit \/ RefreshDeployment \/ \E t \in Lagging : RefreshReplicaSet(t)
        BY <1>2, <2>1 DEF UserEdit, RefreshDeployment, RefreshReplicaSet
    <2>2. CASE \E p \in DOMAIN pods : Evict(p)
        BY <1>2, <2>2 DEF NoEviction, vars
    <2> QED
        BY <1>3, <1>7, <2>1, <2>2 DEF ClusterNext, Kubelet
<1> QED
    BY <1>4, <1>5, <1>6, <1>7 DEF Next, RStep

\* One creation.
LEMMA CreationFacts ==
    ASSUME TypeInv, RCreatePod
    PROVE  /\ rctx.pc = "create" /\ rctx.s \in Structures /\ rctx.n \in Nat /\ rctx.n > 0
           /\ \E p \in PodIds \ DOMAIN pods :
                 /\ DOMAIN pods' = DOMAIN pods \cup {p}
                 /\ \A q \in DOMAIN pods : pods'[q] = pods[q]
                 /\ pods'[p].owner = rctx.s /\ pods'[p].phase = "Active"
           /\ \A s : s # rctx.s => ActivePods(s)' = ActivePods(s)
           /\ \/ rctx.n = 1 /\ rctx' = RIdle
              \/ rctx'.pc = "create" /\ rctx'.s = rctx.s /\ rctx'.n = rctx.n - 1
           /\ UNCHANGED <<deploy, dcache, rs, rscache>>
<1>1. /\ rctx.pc = "create" /\ rctx \in [pc: {"create"}, s: Structures, obj: ReplicaSet, n: Nat]
      /\ rctx.n > 0
    BY Parts, RContextKinds DEF RCreatePod, TypeInv, SourceNamed
<1>2. PICK p \in PodIds \ DOMAIN pods :
         pods' = [q \in DOMAIN pods \cup {p} |->
                     IF q = p THEN NewPod(rctx.s, rctx.obj.rev) ELSE pods[q]]
    BY DEF RCreatePod
<1>3. /\ DOMAIN pods' = DOMAIN pods \cup {p}
      /\ \A q \in DOMAIN pods : pods'[q] = pods[q]
      /\ pods'[p].owner = rctx.s /\ pods'[p].phase = "Active"
    BY <1>2 DEF NewPod
<1>4. \A s : s # rctx.s => ActivePods(s)' = ActivePods(s)
    BY <1>2, <1>3 DEF ActivePods, PodsIn
<1>5. \/ rctx.n = 1 /\ rctx' = RIdle
      \/ rctx'.pc = "create" /\ rctx'.s = rctx.s /\ rctx'.n = rctx.n - 1
    <2>1. CASE rctx.n = 1
        BY <2>1 DEF RCreatePod
    <2>2. CASE rctx.n # 1
        <3>1. rctx' = [rctx EXCEPT !.n = rctx.n - 1]
            BY <1>1, <2>2 DEF RCreatePod
        <3> QED
            BY <1>1, <3>1
    <2> QED
        BY <2>1, <2>2
<1>6. UNCHANGED <<deploy, dcache, rs, rscache>>
    BY DEF RCreatePod
<1> QED
    BY <1>1, <1>3, <1>4, <1>5, <1>6

LEMMA CreationCount ==
    ASSUME TypeInv, RCreatePod, NEW s \in Structures, s = rctx.s
    PROVE  /\ \E p : ActivePods(s)' = ActivePods(s) \cup {p}
           /\ Cardinality(ActivePods(s)') = Cardinality(ActivePods(s)) + 1
<1>1. PICK p \in PodIds \ DOMAIN pods :
         /\ DOMAIN pods' = DOMAIN pods \cup {p}
         /\ \A q \in DOMAIN pods : pods'[q] = pods[q]
         /\ pods'[p].owner = s /\ pods'[p].phase = "Active"
    BY CreationFacts
<1>2. ActivePods(s)' = ActivePods(s) \cup {p} /\ p \notin ActivePods(s)
    BY <1>1 DEF ActivePods, PodsIn
<1> QED
    BY <1>2, CountTypes, FS_AddElement

\* One deletion.
LEMMA DeletionFacts ==
    ASSUME TypeInv, VictimsOwned, RDeletePod
    PROVE  /\ rctx.pc = "delete" /\ rctx.s \in Structures
           /\ \E p \in rctx.victims :
                 /\ ActivePods(rctx.s) \ {p} = {q \in DOMAIN pods' : /\ pods'[q].phase = "Active"
                                                                     /\ pods'[q].owner = rctx.s}
                 /\ \/ rctx' = RIdle /\ rctx.victims = {p}
                    \/ /\ rctx'.pc = "delete" /\ rctx'.s = rctx.s
                       /\ rctx'.victims = rctx.victims \ {p}
           /\ \A s : s # rctx.s => ActivePods(s)' = ActivePods(s)
           /\ DOMAIN pods' = DOMAIN pods
           /\ \A q \in DOMAIN pods : /\ pods'[q].owner = pods[q].owner
                                     /\ pods'[q].ready = pods[q].ready
                                     /\ \/ pods'[q].phase = pods[q].phase
                                        \/ /\ pods'[q].phase = "Terminating"
                                           /\ pods[q].phase = "Active"
           /\ UNCHANGED <<deploy, dcache, rs, rscache>>
<1>1. /\ rctx.pc = "delete"
      /\ rctx \in [pc: {"delete"}, s: Structures, victims: SUBSET PodIds]
    BY Parts, RContextKinds DEF RDeletePod
<1>2. PICK p \in rctx.victims :
         /\ pods' = IF p \in DOMAIN pods /\ pods[p].phase = "Active"
                    THEN [pods EXCEPT ![p].phase = "Terminating"] ELSE pods
         /\ rctx' = IF rctx.victims = {p} THEN RIdle
                    ELSE [rctx EXCEPT !.victims = rctx.victims \ {p}]
    BY <1>1 DEF RDeletePod
<1>3. \A q \in DOMAIN pods : pods[q] \in Pod
    BY DEF TypeInv, TypeOK, ClusterTypeOK
<1>4. /\ DOMAIN pods' = DOMAIN pods
      /\ \A q \in DOMAIN pods :
            /\ pods'[q].owner = pods[q].owner /\ pods'[q].ready = pods[q].ready
            /\ q # p => pods'[q].phase = pods[q].phase
            /\ q = p => /\ pods'[q].phase # "Active"
                        /\ pods[q].phase = "Active" => pods'[q].phase = "Terminating"
                        /\ pods[q].phase # "Active" => pods'[q].phase = pods[q].phase
    BY <1>2, <1>3 DEF Pod
<1>5. p \in DOMAIN pods => pods[p].owner = rctx.s
    BY <1>1, <1>2 DEF VictimsOwned
<1>6. \A s : s # rctx.s => ActivePods(s)' = ActivePods(s)
    BY <1>4, <1>5 DEF ActivePods, PodsIn
<1>7. ActivePods(rctx.s) \ {p} = {q \in DOMAIN pods' : /\ pods'[q].phase = "Active"
                                                       /\ pods'[q].owner = rctx.s}
    BY <1>4 DEF ActivePods, PodsIn
<1>8. \/ rctx' = RIdle /\ rctx.victims = {p}
      \/ rctx'.pc = "delete" /\ rctx'.s = rctx.s /\ rctx'.victims = rctx.victims \ {p}
    BY <1>1, <1>2
<1>9. UNCHANGED <<deploy, dcache, rs, rscache>>
    BY DEF RDeletePod
<1>10. \A q \in DOMAIN pods :
          \/ pods'[q].phase = pods[q].phase
          \/ pods'[q].phase = "Terminating" /\ pods[q].phase = "Active"
    BY <1>4
<1> QED
    BY <1>1, <1>4, <1>6, <1>7, <1>8, <1>9, <1>10

\* The read of one ReplicaSet.
LEMMA ReplicaSetReadFacts ==
    ASSUME TypeInv, NEW s \in Structures, RRead(s)
    PROVE  LET want  == CachedReplicaSet(s).replicas
               count == Cardinality(ActivePods(s))
           IN  /\ rctx = RIdle /\ UNCHANGED clusterVars /\ rctx'.s = s
               /\ \/ /\ rctx'.pc = "create" /\ count < want /\ rctx'.n <= want - count
                     /\ rctx'.n \in Nat
                  \/ /\ rctx'.pc = "delete" /\ count > want
                     /\ rctx'.victims \in SUBSET ActivePods(s)
                     /\ Cardinality(rctx'.victims) <= count - want
                  \/ /\ rctx'.pc = "update" /\ count = want
                     /\ rctx'.seen = [p \in ActivePods(s) |-> pods[p]]
<1> DEFINE obj   == CachedReplicaSet(s)
           count == Cardinality(ActivePods(s))
           want  == obj.replicas
           few   == Min2(want - count, BurstReplicas)
           many  == Min2(count - want, BurstReplicas)
<1>1. count \in Nat /\ want \in Nat
    BY CountTypes
<1>2. /\ rctx = RIdle /\ UNCHANGED clusterVars
      /\ \/ /\ count < want
            /\ rctx' = [pc |-> "create", s |-> s, obj |-> obj, n |-> few]
         \/ /\ count > want
            /\ \E V \in DeletionChoices(ActivePods(s), many) :
                  rctx' = [pc |-> "delete", s |-> s, victims |-> V]
         \/ /\ count = want
            /\ rctx'.pc = "update" /\ rctx'.s = s
            /\ rctx'.seen = [p \in ActivePods(s) |-> pods[p]]
    BY DEF RRead
<1>3. CASE /\ count < want
           /\ rctx' = [pc |-> "create", s |-> s, obj |-> obj, n |-> few]
    <2>1. few \in Nat /\ few <= want - count
        BY <1>1, <1>3, BurstAssumption DEF Min2
    <2> HIDE DEF few
    <2> QED
        BY <1>2, <1>3, <2>1
<1>4. ASSUME count > want, NEW V \in DeletionChoices(ActivePods(s), many),
             rctx' = [pc |-> "delete", s |-> s, victims |-> V]
      PROVE  /\ rctx'.pc = "delete" /\ rctx'.s = s
             /\ rctx'.victims \in SUBSET ActivePods(s)
             /\ Cardinality(rctx'.victims) <= count - want
    <2>1. V \in SUBSET ActivePods(s) /\ Cardinality(V) = many
        BY <1>4 DEF DeletionChoices
    <2>2. many <= count - want
        BY <1>1, <1>4, BurstAssumption DEF Min2
    <2> QED
        BY <1>4, <2>1, <2>2
<1> QED
    BY <1>2, <1>3, <1>4

LEMMA VictimsStep ==
    ASSUME TypeInv, VictimsOwned, [Next]_vars
    PROVE  VictimsOwned'
<1>1. CASE RCreatePod
    BY <1>1, CreationFacts DEF VictimsOwned, RIdle
<1>2. ASSUME NEW s \in Structures, RRead(s)
      PROVE  VictimsOwned'
    <2>1. rctx'.s = s /\ UNCHANGED pods
        BY <1>2, ReplicaSetReadFacts DEF clusterVars
    <2>2. rctx'.pc = "delete" => rctx'.victims \in SUBSET ActivePods(s)
        BY <1>2, ReplicaSetReadFacts
    <2> QED
        BY <2>1, <2>2 DEF VictimsOwned, ActivePods, PodsIn
<1>3. CASE RDeletePod
    BY <1>3, DeletionFacts DEF VictimsOwned, RIdle
<1>4. CASE ~RCreatePod /\ ~RDeletePod /\ ~ \E s \in Structures : RRead(s)
    <2>1. \A p \in DOMAIN pods' : p \in DOMAIN pods /\ pods'[p].owner = pods[p].owner
        BY <1>4, PodFacts
    <2>2. rctx' = rctx \/ rctx'.pc \in {"idle", "update"}
        BY <1>4, ReconcileFacts
    <2> QED
        BY <2>1, <2>2 DEF VictimsOwned
<1> QED
    BY <1>1, <1>2, <1>3, <1>4

\* A step that does not raise the replica count leaves a ReplicaSet shrinking.
LEMMA ShrinkStep ==
    ASSUME TypeInv, VictimsOwned, [Next]_vars, [NoEviction]_vars, NEW s \in Structures,
           rs'[s].replicas \in Nat, rs'[s].replicas <= rs[s].replicas, Shrinking(s)
    PROVE  Shrinking(s)'
<1> DEFINE want == CachedReplicaSet(s).replicas
<1>1. /\ rs[s].replicas \in Nat /\ want \in Nat /\ IsFiniteSet(ActivePods(s))
      /\ Cardinality(ActivePods(s)) \in Nat
    BY CountTypes
<1>2. /\ rs[s].replicas <= want /\ want <= Cardinality(ActivePods(s))
      /\ rctx.pc = "create" => rctx.s # s
      /\ rctx.pc = "delete" /\ rctx.s = s => want <= Cardinality(ActivePods(s) \ rctx.victims)
    BY DEF Shrinking
<1>3. /\ rs'[s].replicas <= CachedReplicaSet(s)'.replicas
      /\ CachedReplicaSet(s)'.replicas <= want
      /\ CachedReplicaSet(s)'.replicas \in Nat
    BY <1>1, <1>2, CacheFacts
<1>4. \A V : /\ Cardinality(ActivePods(s) \ V) \in Nat
             /\ Cardinality(ActivePods(s) \ V) <= Cardinality(ActivePods(s))
    BY <1>1, FS_Subset, FS_CardinalityType
<1>5. ASSUME ActivePods(s)' = ActivePods(s),
             rctx'.pc = "create" => rctx'.s # s,
             rctx'.pc = "delete" /\ rctx'.s = s => rctx' = rctx
      PROVE  Shrinking(s)'
    BY <1>1, <1>2, <1>3, <1>4, <1>5 DEF Shrinking
<1>6. CASE RCreatePod
    <2>1. rctx.s # s
        BY <1>2, <1>6, CreationFacts
    <2> QED
        BY <1>5, <1>6, <2>1, CreationFacts DEF RIdle
<1>7. CASE RDeletePod /\ rctx.s # s
    BY <1>5, <1>7, DeletionFacts DEF RIdle
<1>8. CASE RDeletePod /\ rctx.s = s
    <2>1. PICK p \in rctx.victims :
             /\ ActivePods(s) \ {p} = {q \in DOMAIN pods' : /\ pods'[q].phase = "Active"
                                                            /\ pods'[q].owner = s}
             /\ \/ rctx' = RIdle /\ rctx.victims = {p}
                \/ /\ rctx'.pc = "delete" /\ rctx'.s = rctx.s
                   /\ rctx'.victims = rctx.victims \ {p}
        BY <1>8, DeletionFacts
    <2>2. ActivePods(s)' = ActivePods(s) \ {p}
        BY <2>1 DEF ActivePods, PodsIn
    <2>3. rctx.pc = "delete"
        BY <1>8, DeletionFacts
    <2> DEFINE V == rctx.victims
    <2>4. /\ want <= Cardinality(ActivePods(s) \ V)
          /\ Cardinality(ActivePods(s) \ V) \in Nat
        BY <1>2, <1>4, <1>8, <2>3
    <2>5. /\ ActivePods(s) \ V \subseteq ActivePods(s) \ {p}
          /\ (ActivePods(s) \ {p}) \ (V \ {p}) = ActivePods(s) \ V
        BY <2>1
    <2>6. /\ Cardinality(ActivePods(s) \ {p}) \in Nat
          /\ Cardinality(ActivePods(s) \ V) <= Cardinality(ActivePods(s) \ {p})
        BY <1>1, <1>4, <2>5, FS_Subset
    <2>7. CASE rctx' = RIdle
        BY <1>1, <1>3, <2>2, <2>4, <2>6, <2>7 DEF Shrinking, RIdle
    <2>8. CASE rctx'.pc = "delete" /\ rctx'.s = s /\ rctx'.victims = V \ {p}
        <3>1. ActivePods(s)' \ rctx'.victims = ActivePods(s) \ V
            BY <2>2, <2>5, <2>8
        <3>2. CachedReplicaSet(s)'.replicas <= Cardinality(ActivePods(s) \ V)
            BY <1>1, <1>3, <2>4
        <3>3. CachedReplicaSet(s)'.replicas <= Cardinality(ActivePods(s) \ {p})
            BY <1>3, <2>4, <2>6, <3>2
        <3>4. CachedReplicaSet(s)'.replicas <= Cardinality(ActivePods(s)')
            BY <2>2, <3>3
        <3>5. CachedReplicaSet(s)'.replicas <= Cardinality(ActivePods(s)' \ rctx'.victims)
            BY <3>1, <3>2
        <3> QED
            BY <1>3, <2>8, <3>4, <3>5 DEF Shrinking
    <2> QED
        BY <1>8, <2>1, <2>7, <2>8
<1>9. ASSUME NEW t \in Structures, RRead(t)
      PROVE  Shrinking(s)'
    <2>1. ActivePods(s)' = ActivePods(s)
        BY <1>9, ReplicaSetReadFacts DEF ActivePods, PodsIn, clusterVars
    <2>2. CASE t # s
        BY <1>5, <1>9, <2>1, <2>2, ReplicaSetReadFacts
    <2>3. ASSUME t = s, rctx'.pc = "delete"
          PROVE  Shrinking(s)'
        <3>1. /\ rctx'.s = s /\ rctx'.victims \in SUBSET ActivePods(s)
              /\ Cardinality(rctx'.victims) <= Cardinality(ActivePods(s)) - want
            BY <1>9, <2>3, ReplicaSetReadFacts
        <3>2. PICK V \in SUBSET ActivePods(s) : V = rctx'.victims
            BY <3>1
        <3>3. /\ ActivePods(s) \cap V = V /\ Cardinality(V) \in Nat
              /\ Cardinality(ActivePods(s) \ V)
                   = Cardinality(ActivePods(s)) - Cardinality(ActivePods(s) \cap V)
            BY <1>1, FS_Difference, FS_Subset, FS_CardinalityType
        <3>4. Cardinality(ActivePods(s) \ V) = Cardinality(ActivePods(s)) - Cardinality(V)
            BY <3>3
        <3>5. want <= Cardinality(ActivePods(s) \ V)
            BY <1>1, <3>1, <3>2, <3>3, <3>4
        <3>6. CachedReplicaSet(s)'.replicas <= Cardinality(ActivePods(s) \ V)
            BY <1>1, <1>3, <1>4, <3>5
        <3>7. ActivePods(s)' \ rctx'.victims = ActivePods(s) \ V
            BY <2>1, <3>2
        <3>8. CachedReplicaSet(s)'.replicas <= Cardinality(ActivePods(s)')
            BY <1>1, <1>2, <1>3, <2>1
        <3> QED
            BY <1>3, <2>3, <3>1, <3>6, <3>7, <3>8 DEF Shrinking
    <2>4. CASE t = s /\ rctx'.pc # "delete"
        <3>1. rctx'.pc = "create" => Cardinality(ActivePods(s)) < want
            BY <1>9, <2>4, ReplicaSetReadFacts
        <3>2. rctx'.pc # "create"
            BY <1>1, <1>2, <3>1
        <3> QED
            BY <1>5, <2>1, <2>4, <3>2
    <2> QED
        BY <2>2, <2>3, <2>4
<1>10. CASE ~RCreatePod /\ ~RDeletePod /\ ~ \E t \in Structures : RRead(t)
    <2>1. rctx' = rctx \/ rctx'.pc \in {"idle", "update"}
        BY <1>10, ReconcileFacts
    <2> QED
        BY <1>2, <1>5, <1>10, <2>1, ActiveKept
<1> QED
    BY <1>6, <1>7, <1>8, <1>9, <1>10

\* A step that does not lower the replica count leaves a ReplicaSet growing.
LEMMA GrowStep ==
    ASSUME TypeInv, VictimsOwned, [Next]_vars, [NoEviction]_vars, NEW s \in Structures,
           rs'[s].replicas \in Nat, rs'[s].replicas >= rs[s].replicas, Growing(s)
    PROVE  Growing(s)'
<1> DEFINE want == CachedReplicaSet(s).replicas
<1>1. /\ rs[s].replicas \in Nat /\ want \in Nat /\ Cardinality(ActivePods(s)) \in Nat
    BY CountTypes
<1>2. /\ Cardinality(ActivePods(s)) <= want /\ want <= rs[s].replicas
      /\ rctx.pc = "delete" => rctx.s # s
      /\ rctx.pc = "create" /\ rctx.s = s => Cardinality(ActivePods(s)) + rctx.n <= want
    BY DEF Growing
<1>3. /\ want <= CachedReplicaSet(s)'.replicas
      /\ CachedReplicaSet(s)'.replicas <= rs'[s].replicas
      /\ CachedReplicaSet(s)'.replicas \in Nat
    BY <1>1, <1>2, CacheFacts
<1>4. ASSUME ActivePods(s)' = ActivePods(s),
             rctx'.pc = "delete" => rctx'.s # s,
             rctx'.pc = "create" /\ rctx'.s = s =>
                rctx'.n \in Nat /\ Cardinality(ActivePods(s)) + rctx'.n <= want
      PROVE  Growing(s)'
    BY <1>1, <1>2, <1>3, <1>4 DEF Growing
<1>5. CASE RCreatePod /\ rctx.s # s
    BY <1>4, <1>5, CreationFacts DEF RIdle
<1>6. CASE RCreatePod /\ rctx.s = s
    <2>1. Cardinality(ActivePods(s)') = Cardinality(ActivePods(s)) + 1
        BY <1>6, CreationCount
    <2>2. /\ rctx.pc = "create" /\ rctx.n \in Nat /\ rctx.n > 0
          /\ \/ rctx' = RIdle
             \/ rctx'.pc = "create" /\ rctx'.n = rctx.n - 1
        BY <1>6, CreationFacts
    <2> QED
        BY <1>1, <1>2, <1>3, <1>6, <2>1, <2>2 DEF Growing, RIdle
<1>7. CASE RDeletePod
    <2>1. rctx.s # s
        BY <1>2, <1>7, DeletionFacts
    <2> QED
        BY <1>4, <1>7, <2>1, DeletionFacts DEF RIdle
<1>8. ASSUME NEW t \in Structures, RRead(t)
      PROVE  Growing(s)'
    <2>1. ActivePods(s)' = ActivePods(s)
        BY <1>8, ReplicaSetReadFacts DEF ActivePods, PodsIn, clusterVars
    <2>2. CASE t # s
        BY <1>4, <1>8, <2>1, <2>2, ReplicaSetReadFacts
    <2>3. CASE t = s
        <3>1. /\ rctx'.pc = "delete" => Cardinality(ActivePods(s)) > want
              /\ rctx'.pc = "create" =>
                    rctx'.n \in Nat /\ rctx'.n <= want - Cardinality(ActivePods(s))
            BY <1>8, <2>3, ReplicaSetReadFacts
        <3>2. /\ rctx'.pc # "delete"
              /\ rctx'.pc = "create" => Cardinality(ActivePods(s)) + rctx'.n <= want
            BY <1>1, <1>2, <3>1
        <3> QED
            BY <1>4, <2>1, <3>1, <3>2
    <2> QED
        BY <2>2, <2>3
<1>9. CASE ~RCreatePod /\ ~RDeletePod /\ ~ \E t \in Structures : RRead(t)
    <2>1. rctx' = rctx \/ rctx'.pc \in {"idle", "update"}
        BY <1>9, ReconcileFacts
    <2> QED
        BY <1>2, <1>4, <1>9, <2>1, ActiveKept, CountTypes
<1> QED
    BY <1>5, <1>6, <1>7, <1>8, <1>9

\* Who scales, and which way.
LEMMA ScalesOneWay ==
    ASSUME TypeInv, PauseInv, EditInv, EditedOnce, [Next]_vars, NEW s \in Structures
    PROVE  /\ rs[s].replicas \in Nat /\ rs'[s].replicas \in Nat
           /\ rs'[s].replicas # rs[s].replicas =>
                 /\ DScale /\ s = dctx.rs /\ deploy' = deploy /\ deploy.gen = 2
                 /\ IF s # deploy.structure THEN rs'[s].replicas <= rs[s].replicas
                    ELSE \/ /\ rs[s].replicas <= rs'[s].replicas
                            /\ rs'[s].replicas <= deploy.replicas
                         \/ rs[s].replicas > deploy.replicas /\ rs'[s].replicas = deploy.replicas
<1>1. rs[s].replicas \in Nat
    BY CountTypes
<1>2. CASE rs'[s].replicas = rs[s].replicas
    BY <1>1, <1>2
<1>3. CASE DScale
    <2>1. /\ dctx.pc = "scale" /\ dctx.rs \in Structures /\ rs'[dctx.rs].replicas = dctx.n
          /\ \A t \in Structures \ {dctx.rs} : rs'[t] = rs[t]
          /\ deploy' = deploy
        BY <1>3, ScaleFacts
    <2>2. dctx.n \in Nat
        BY <2>1, Parts, DContextKinds DEF ScaleContext
    <2>3. deploy.gen = 2
        BY <2>1, ScaleIsNew
    <2>4. IF dctx.rs # deploy.structure THEN dctx.n <= rs[dctx.rs].replicas
          ELSE \/ rs[dctx.rs].replicas <= dctx.n /\ dctx.n <= deploy.replicas
               \/ rs[dctx.rs].replicas > deploy.replicas /\ dctx.n = deploy.replicas
        BY <2>1, <2>2 DEF EditInv, RolloutDirected
    <2>5. CASE s = dctx.rs
        BY <1>1, <1>3, <2>1, <2>2, <2>3, <2>4, <2>5
    <2>6. CASE s # dctx.rs
        BY <1>1, <2>1, <2>6
    <2> QED
        BY <2>5, <2>6
<1>4. CASE DCreate
    <2>1. rs[dctx.d.structure].replicas = 0
        BY <1>4, CreateFacts DEF PauseInv, Vacant
    <2> QED
        BY <1>2, <1>4, <2>1, CreateFacts
<1>5. CASE DSync
    BY <1>2, <1>5, SyncFacts
<1>6. CASE DRead \/ DStatus \/ DListPods \/ DFail \/ UNCHANGED vars
    BY <1>2, <1>6 DEF DRead, DStatus, DListPods, DFail, clusterVars, vars
<1>7. CASE ClusterNext \/ (\E t \in Structures : RRead(t)) \/ RStep \/ RFail
    BY <1>2, <1>7, StoreKept
<1> QED
    BY <1>3, <1>4, <1>5, <1>6, <1>7 DEF Next, DWork

\* The user apart, nobody moves the target.
LEMMA TargetKept ==
    ASSUME TypeInv, [Next]_vars, ~UserEdit
    PROVE  /\ deploy'.gen = deploy.gen /\ deploy'.structure = deploy.structure
           /\ deploy'.replicas = deploy.replicas /\ deploy'.strategy = deploy.strategy
<1>1. CASE ClusterNext
    BY <1>1, ClusterFacts DEF RefreshDeployment
<1>2. CASE (\E t \in Structures : RRead(t)) \/ RStep \/ RFail
    BY <1>2, ReconcileKeeps
<1>3. CASE DRead \/ DListPods \/ DFail \/ UNCHANGED vars
    BY <1>3 DEF DRead, DListPods, DFail, clusterVars, vars
<1> QED
    BY <1>1, <1>2, <1>3, CreateFacts, SyncFacts, StatusFacts, ScaleFacts DEF Next, DWork

\* An edit while there is one left finds the Deployment at its first generation.
LEMMA FirstEdit ==
    ASSUME TypeInv, EditInv, EditedOnce', UserEdit
    PROVE  deploy.gen = 1 /\ deploy'.gen = 2
BY EditFacts, GenerationTypes DEF EditInv, TwoSpecs, EditedOnce

\* A ReplicaSet that must go one way already had to, and it goes no other.
LEMMA Directions ==
    ASSUME TypeInv, PauseInv, EditInv, EditedOnce, EditedOnce', [Next]_vars, NEW s \in Structures
    PROVE  /\ rs[s].replicas \in Nat /\ rs'[s].replicas \in Nat
           /\ MustShrink(s)' => MustShrink(s) /\ rs'[s].replicas <= rs[s].replicas
           /\ MustGrow(s)' => MustGrow(s) /\ rs'[s].replicas >= rs[s].replicas
           /\ rs'[s].replicas < rs[s].replicas => MustShrink(s)
           /\ rs'[s].replicas > rs[s].replicas => MustGrow(s)
<1>1. rs[s].replicas \in Nat /\ rs'[s].replicas \in Nat
    BY ScalesOneWay
<1>2. CASE UserEdit
    <2>1. rs'[s].replicas = rs[s].replicas
        BY <1>2, EditFacts
    <2>2. MustShrink(s) /\ MustGrow(s)
        BY <1>2, FirstEdit DEF MustShrink, MustGrow
    <2> QED
        BY <1>1, <2>1, <2>2
<1>3. CASE ~UserEdit /\ rs'[s].replicas = rs[s].replicas
    <2>1. (MustShrink(s)' <=> MustShrink(s)) /\ (MustGrow(s)' <=> MustGrow(s))
        BY <1>3, TargetKept DEF MustShrink, MustGrow
    <2> QED
        BY <1>1, <1>3, <2>1
<1>4. CASE rs'[s].replicas # rs[s].replicas
    <2>1. /\ deploy' = deploy /\ deploy.gen = 2
          /\ IF s # deploy.structure THEN rs'[s].replicas <= rs[s].replicas
             ELSE \/ rs[s].replicas <= rs'[s].replicas /\ rs'[s].replicas <= deploy.replicas
                  \/ rs[s].replicas > deploy.replicas /\ rs'[s].replicas = deploy.replicas
        BY <1>4, ScalesOneWay
    <2>2. deploy.replicas \in Nat
        BY Parts, DeploymentFields
    <2>3. CASE s # deploy.structure
        BY <1>1, <2>1, <2>3 DEF MustShrink, MustGrow
    <2>4. CASE /\ s = deploy.structure /\ rs[s].replicas < rs'[s].replicas
               /\ rs'[s].replicas <= deploy.replicas
        BY <1>1, <2>1, <2>2, <2>4 DEF MustShrink, MustGrow
    <2>5. CASE /\ s = deploy.structure /\ rs[s].replicas > deploy.replicas
               /\ rs'[s].replicas = deploy.replicas
        BY <1>1, <2>1, <2>2, <2>5 DEF MustShrink, MustGrow
    <2> QED
        BY <1>1, <1>4, <2>1, <2>2, <2>3, <2>4, <2>5
<1> QED
    BY <1>2, <1>3, <1>4

LEMMA OneWayStep ==
    ASSUME TypeInv, PauseInv, EditInv, EditedOnce, EditedOnce', [Next]_vars, [NoEviction]_vars
    PROVE  OneWay'
<1> SUFFICES ASSUME NEW s \in Structures
             PROVE  /\ MustShrink(s)' => Shrinking(s)'
                    /\ MustGrow(s)' => Growing(s)'
                    /\ Shrinking(s)' \/ Growing(s)'
    BY DEF OneWay
<1>1. /\ MustShrink(s) => Shrinking(s)
      /\ MustGrow(s) => Growing(s)
      /\ Shrinking(s) \/ Growing(s)
    BY DEF EditInv, OneWay
<1>2. /\ Shrinking(s) /\ rs'[s].replicas <= rs[s].replicas => Shrinking(s)'
      /\ Growing(s) /\ rs'[s].replicas >= rs[s].replicas => Growing(s)'
    BY Directions, ShrinkStep, GrowStep DEF EditInv
<1>3. /\ rs[s].replicas \in Nat /\ rs'[s].replicas \in Nat
      /\ MustShrink(s)' => MustShrink(s) /\ rs'[s].replicas <= rs[s].replicas
      /\ MustGrow(s)' => MustGrow(s) /\ rs'[s].replicas >= rs[s].replicas
      /\ rs'[s].replicas < rs[s].replicas => MustShrink(s)
      /\ rs'[s].replicas > rs[s].replicas => MustGrow(s)
    BY Directions
<1> QED
    BY <1>1, <1>2, <1>3

LEMMA EditInit == SteadyInit => EditInv /\ PauseInv /\ TypeInv
<1> SUFFICES ASSUME SteadyInit PROVE EditInv
    BY PauseInit, SteadyTypeInit
<1>1. PICK cur \in Structures : cur = deploy.structure
    BY RestedFacts
<1>2. /\ dcache = deploy /\ dctx = DIdle /\ rctx = RIdle
      /\ deploy.gen = 1 /\ ~deploy.paused
      /\ \A s \in Structures : CachedReplicaSet(s) = rs[s]
    BY BoundsAssumption DEF SteadyInit, SpecChoices, CachedReplicaSet
<1>3. \A s \in Structures : rs[s].replicas = IF s = cur THEN deploy.replicas ELSE 0
    BY <1>1, RestedFacts DEF NoReplicaSet
<1>4. PICK P \in SUBSET PodIds :
         /\ Cardinality(P) = deploy.replicas
         /\ pods = [p \in P |-> [NewPod(cur, deploy.rev) EXCEPT !.ready = TRUE]]
    BY <1>1 DEF SteadyInit
<1>5. ActivePods(cur) = P /\ \A s \in Structures \ {cur} : ActivePods(s) = {}
    BY <1>4 DEF ActivePods, PodsIn, NewPod
<1>6. deploy.replicas \in Nat
    BY SteadyTypeInit, Parts, DeploymentFields
<1>7. ASSUME NEW s \in Structures
      PROVE  Cardinality(ActivePods(s)) = rs[s].replicas /\ rs[s].replicas \in Nat
    <2>1. Cardinality(P) = deploy.replicas /\ Cardinality({}) = 0
        BY <1>4, FS_EmptySet
    <2>2. CASE s = cur
        BY <1>3, <1>5, <1>6, <2>1, <2>2
    <2>3. CASE s # cur
        BY <1>3, <1>5, <2>1, <2>3
    <2> QED
        BY <2>2, <2>3
<1>8. \A s \in Structures : Shrinking(s) /\ Growing(s)
    BY <1>2, <1>7 DEF Shrinking, Growing, RIdle
<1>9. TwoSpecs
    BY <1>1, <1>2, <1>3 DEF TwoSpecs, SameSpec, AtRest
<1>10. RolloutDirected /\ VictimsOwned
    BY <1>2 DEF RolloutDirected, VictimsOwned, DIdle, RIdle
<1> QED
    BY <1>8, <1>9, <1>10 DEF EditInv, OneWay

LEMMA EditStep ==
    ASSUME TypeInv, PauseInv, EditInv, EditedOnce, EditedOnce',
           [Next]_vars, [FrozenReplicas]_vars, [NoEviction]_vars
    PROVE  EditInv'
BY SpecsStep, DirectedStep, VictimsStep, OneWayStep DEF EditInv

LEMMA EditInvariant ==
    SteadySpec /\ []EditedOnce /\ [][FrozenReplicas]_vars /\ [][NoEviction]_vars
    => [](TypeInv /\ PauseInv /\ EditInv)
<1>1. /\ TypeInv /\ PauseInv /\ EditInv /\ EditedOnce /\ EditedOnce'
      /\ [Next]_vars /\ [FrozenReplicas]_vars /\ [NoEviction]_vars
      => (TypeInv /\ PauseInv /\ EditInv)'
    BY TypeStep, PauseStep, EditStep
<1> QED
    BY <1>1, EditInit, PTL DEF SteadySpec

-----------------------------------------------------------------------------
(***************************************************************************)
(* Recreate: the old Pods are gone before the first new one is there.      *)
(***************************************************************************)
\* Pods that may run and are not of the current ReplicaSet.
Others == {p \in DOMAIN pods : pods[p].owner # deploy.structure /\ pods[p].phase # "Terminal"}

\* They are all of one ReplicaSet, and under Recreate there is nothing else as long as
\* there is one of them: no Pod of the new ReplicaSet, no replica, none on its way.
Exclusive ==
    /\ deploy.gen = 1 => Others = {}
    /\ \A p, q \in Others : pods[p].owner = pods[q].owner
    /\ deploy.strategy.recreate /\ Others # {} =>
          /\ rs[deploy.structure].replicas = 0
          /\ \A p \in DOMAIN pods : pods[p].phase # "Terminal" => p \in Others
          /\ ~(dctx.pc = "scale" /\ dctx.rs = deploy.structure)

LEMMA ExclusiveInit == SteadyInit => Exclusive
<1> SUFFICES ASSUME SteadyInit PROVE Exclusive
    OBVIOUS
<1>1. PICK P \in SUBSET PodIds :
         pods = [p \in P |-> [NewPod(deploy.structure, deploy.rev) EXCEPT !.ready = TRUE]]
    BY DEF SteadyInit
<1>2. \A p \in DOMAIN pods : pods[p].owner = deploy.structure
    BY <1>1 DEF NewPod
<1> QED
    BY <1>2 DEF Exclusive, Others

\* A Pod is created for the current ReplicaSet only, and only after it was scaled.
LEMMA CreatesForCurrent ==
    ASSUME TypeInv, EditInv, RCreatePod
    PROVE  rctx.s = deploy.structure /\ rs[deploy.structure].replicas > 0
<1>1. /\ rctx.pc = "create" /\ rctx.s \in Structures /\ rctx.n \in Nat /\ rctx.n > 0
    BY CreationFacts
<1>2. ~Shrinking(rctx.s)
    BY <1>1 DEF Shrinking
<1>3. rctx.s = deploy.structure /\ Growing(rctx.s)
    BY <1>1, <1>2 DEF EditInv, OneWay, MustShrink
<1>4. /\ Cardinality(ActivePods(rctx.s)) + rctx.n <= CachedReplicaSet(rctx.s).replicas
      /\ CachedReplicaSet(rctx.s).replicas <= rs[rctx.s].replicas
    BY <1>1, <1>3 DEF Growing
<1>5. /\ Cardinality(ActivePods(rctx.s)) \in Nat /\ rs[rctx.s].replicas \in Nat
      /\ CachedReplicaSet(rctx.s).replicas \in Nat
    BY <1>1, CountTypes
<1> QED
    BY <1>1, <1>3, <1>4, <1>5

\* Nobody sets out to scale the new ReplicaSet up before the old Pods are gone.
LEMMA RecreateWaits ==
    ASSUME TypeInv, PauseInv, EditInv, EditedOnce, Exclusive, [Next]_vars, ~UserEdit,
           deploy.strategy.recreate, Others # {},
           dctx'.pc = "scale", dctx'.rs = deploy.structure
    PROVE  FALSE
<1>1. ~(dctx.pc = "scale" /\ dctx.rs = deploy.structure)
    BY DEF Exclusive
<1>2. dctx' # DIdle
    BY DEF DIdle
<1>3. CASE DRead \/ DStatus
    <2>1. /\ dctx'.d \in Deployment /\ dctx'.cur \in Structures
          /\ dctx'.cur = dctx'.d.structure /\ SameSpec(dctx'.d)
        BY <1>3, NewRollout
    <2>2. PICK view \in [Structures -> ReplicaSet] :
             dctx' \in RolloutChoices(dctx'.d, dctx'.cur, view)
        BY <1>3, NewRollout
    <2>3. PICK c \in ScaleChoices(dctx'.d, dctx'.cur, view) : dctx'.rs = c.rs
        BY <1>2, <2>2 DEF RolloutChoices
    <2>4. c.rs = dctx'.cur => ~dctx'.d.strategy.recreate
        BY <2>1, <2>3, ScaleDirection
    <2> QED
        BY <2>1, <2>3, <2>4 DEF SameSpec
<1>4. CASE DListPods
    <2>1. /\ dctx.pc = "list" /\ dctx'.rs = dctx.cur
          /\ \A p \in DOMAIN pods : pods[p].owner = dctx.cur \/ pods[p].phase = "Terminal"
        BY <1>2, <1>4, ListFacts
    <2> QED
        BY <2>1 DEF Others
<1>5. CASE DCreate \/ DSync \/ DScale \/ DFail
    BY <1>2, <1>5, CreateFacts, SyncFacts, ScaleFacts DEF DFail
<1>6. CASE dctx' = dctx
    BY <1>1, <1>6
<1> QED
    BY <1>3, <1>4, <1>5, <1>6 DEF Next, DWork, vars

LEMMA ExclusiveStep ==
    ASSUME TypeInv, PauseInv, EditInv, EditedOnce, EditedOnce', Exclusive, [Next]_vars
    PROVE  Exclusive'
<1>0. PICK cur \in Structures : cur = deploy.structure
    BY Parts DEF Deployment
<1>1. CASE UserEdit
    <2>1. UNCHANGED <<rs, pods>> /\ deploy.gen = 1 /\ deploy'.gen = 2
        BY <1>1, EditFacts, FirstEdit
    <2>2. \A p \in DOMAIN pods : pods[p].phase # "Terminal" => pods[p].owner = cur
        BY <1>0, <2>1 DEF Exclusive, Others
    <2>3. PICK new \in Structures : new = deploy'.structure
        BY <1>1 DEF UserEdit, SpecChoices
    <2>4. dctx' = dctx
        <3>1. CASE dctx' = dctx
            BY <3>1
        <3>2. CASE DWork \/ DFail
            <4>1. CASE DRead \/ DListPods \/ DFail
                BY <2>1, <4>1 DEF DRead, DListPods, DFail, clusterVars
            <4> QED
                BY <2>1, <3>2, <4>1, CreateFacts, SyncFacts, StatusFacts, ScaleFacts DEF DWork
        <3> QED
            BY <3>1, <3>2 DEF Next, vars
    <2>5. dctx.pc # "scale"
        BY <2>1, ScaleIsNew
    <2>6. dcache.gen = 1
        BY <2>1, GenerationTypes DEF EditInv, TwoSpecs, PauseInv, GenerationsOrdered
    <2>7. new # cur => rs[new].replicas = 0
        BY <1>0, <2>1, <2>6 DEF EditInv, TwoSpecs, AtRest, SameSpec
    <2>8. Others' = {p \in DOMAIN pods : pods[p].owner # new /\ pods[p].phase # "Terminal"}
        BY <2>1, <2>3 DEF Others
    <2>9. Others' # {} => new # cur
        BY <2>2, <2>8
    <2>10. \A p, q \in Others' : pods'[p].owner = pods'[q].owner
        BY <2>1, <2>2, <2>8
    <2>11. new # cur => \A p \in DOMAIN pods' : pods'[p].phase # "Terminal" => p \in Others'
        BY <2>1, <2>2, <2>8
    <2> QED
        BY <2>1, <2>3, <2>4, <2>5, <2>7, <2>9, <2>10, <2>11 DEF Exclusive
<1>2. ASSUME ~UserEdit
      PROVE  /\ deploy'.structure = cur /\ deploy'.gen = deploy.gen
             /\ deploy'.strategy = deploy.strategy
    BY <1>0, <1>2, TargetKept
<1>3. CASE RCreatePod
    <2>1. ~UserEdit /\ rs' = rs /\ rctx.s = cur /\ rs[cur].replicas > 0
        BY <1>0, <1>3, CreatesForCurrent, CreationFacts, GenerationTypes DEF UserEdit, SpecChoices
    <2>2. PICK p \in PodIds \ DOMAIN pods :
             /\ DOMAIN pods' = DOMAIN pods \cup {p}
             /\ \A q \in DOMAIN pods : pods'[q] = pods[q]
             /\ pods'[p].owner = cur
        BY <1>3, <2>1, CreationFacts
    <2>3. Others' = Others
        BY <1>0, <1>2, <2>1, <2>2 DEF Others
    <2>4. ~(deploy.strategy.recreate /\ Others # {})
        BY <1>0, <2>1 DEF Exclusive
    <2>5. \A q, r \in Others' : pods'[q].owner = pods'[r].owner
        BY <2>2, <2>3 DEF Exclusive, Others
    <2> QED
        BY <1>2, <2>1, <2>3, <2>4, <2>5 DEF Exclusive
<1>4. CASE ~UserEdit /\ ~RCreatePod
    <2>1. \A p \in DOMAIN pods' :
             /\ p \in DOMAIN pods /\ pods'[p].owner = pods[p].owner
             /\ pods[p].phase = "Terminal" => pods'[p].phase = "Terminal"
        BY <1>4, PodFacts
    <2>2. Others' \subseteq Others
        BY <1>0, <1>2, <1>4, <2>1 DEF Others
    <2>3. \A p, q \in Others' : pods'[p].owner = pods'[q].owner
        BY <2>1, <2>2 DEF Exclusive, Others
    <2>4. ASSUME deploy.strategy.recreate, Others' # {}
          PROVE  /\ rs'[cur].replicas = 0
                 /\ \A p \in DOMAIN pods' : pods'[p].phase # "Terminal" => p \in Others'
                 /\ ~(dctx'.pc = "scale" /\ dctx'.rs = cur)
        <3>1. /\ Others # {} /\ rs[cur].replicas = 0
              /\ \A p \in DOMAIN pods : pods[p].phase # "Terminal" => p \in Others
              /\ ~(dctx.pc = "scale" /\ dctx.rs = cur)
            BY <1>0, <2>2, <2>4 DEF Exclusive
        <3>2. rs'[cur].replicas = 0
            <4>1. SUFFICES ASSUME rs'[cur].replicas # rs[cur].replicas PROVE FALSE
                BY <3>1
            <4>2. DScale /\ cur = dctx.rs
                BY <4>1, ScalesOneWay
            <4> QED
                BY <3>1, <4>2 DEF DScale
        <3>3. \A p \in DOMAIN pods' : pods'[p].phase # "Terminal" => p \in Others'
            BY <1>0, <1>2, <1>4, <2>1, <3>1 DEF Others
        <3>4. ~(dctx'.pc = "scale" /\ dctx'.rs = cur)
            BY <1>0, <1>4, <2>4, <3>1, RecreateWaits
        <3> QED
            BY <3>2, <3>3, <3>4
    <2>5. deploy'.gen = 1 => Others' = {}
        BY <1>2, <1>4, <2>2 DEF Exclusive
    <2> QED
        BY <1>2, <1>4, <2>3, <2>4, <2>5 DEF Exclusive
<1> QED
    BY <1>1, <1>3, <1>4

\* A Recreate rollout of a Deployment at rest never lets Pods of two ReplicaSets
\* run together: oldPodsRunning lists the Pods live, rollout scales up only after
\* a list without an old Pod, and no ReplicaSet reconcile with an older view
\* creates another old Pod behind its back, however far the caches lag and
\* whichever calls fail.  It takes a Deployment at rest: an edit while the old
\* ReplicaSet still creates its Pods breaks it (the run recreate_race), and an
\* eviction or an earlier rollout that is not over has the same effect.  An edit
\* that also changes the replica count may take the old ReplicaSet there first, so
\* that it goes more than one way, which the proof does not follow.
THEOREM RecreateKeepsApart ==
    SteadySpec /\ []EditedOnce /\ [][FrozenReplicas]_vars /\ [][NoEviction]_vars
    => []RecreatePodsExclusive
<1>1. /\ TypeInv /\ PauseInv /\ EditInv /\ Exclusive /\ EditedOnce /\ EditedOnce' /\ [Next]_vars
      => Exclusive'
    BY ExclusiveStep
<1>2. Exclusive => RecreatePodsExclusive
    BY DEF Exclusive, Others, RecreatePodsExclusive
<1> QED
    BY <1>1, <1>2, ExclusiveInit, EditInvariant, PTL DEF SteadySpec

-----------------------------------------------------------------------------
(***************************************************************************)
(* The minimum of available Pods.                                          *)
(*                                                                         *)
(* Pods are not restarted in place either, so that a Pod that is ready     *)
(* stays so until it is deleted.  Then the status of a ReplicaSet that     *)
(* grows counts no Pod that is not ready, and in one that shrinks every    *)
(* Pod is ready and the status counts at least what spec.replicas keeps.   *)
(***************************************************************************)
ReadyPods(s) == {p \in ActivePods(s) : pods[p].ready}
SeenReady    == {p \in DOMAIN rctx.seen : rctx.seen[p].ready}

\* What a ReplicaSet reconcile has read of its Pods is still true.
SeenStands ==
    rctx.pc = "update" => /\ DOMAIN rctx.seen \subseteq ActivePods(rctx.s)
                          /\ SeenReady \subseteq ReadyPods(rctx.s)

AllReady(s) ==
    /\ ActivePods(s) = ReadyPods(s)
    /\ rs[s].replicas <= rs[s].status.available
    /\ rctx.pc = "update" /\ rctx.s = s => rs[s].replicas <= Cardinality(SeenReady)

NotAhead(s) ==
    /\ rs[s].status.available <= Cardinality(ReadyPods(s))
    /\ rctx.pc = "update" /\ rctx.s = s => rs[s].status.available <= Cardinality(SeenReady)

Available ==
    \A s \in Structures : /\ MustShrink(s) => AllReady(s)
                          /\ MustGrow(s) => NotAhead(s)
                          /\ \/ Shrinking(s) /\ AllReady(s)
                             \/ Growing(s) /\ NotAhead(s)

\* What a Deployment reconcile has read of a ReplicaSet counts no more Pods than
\* there are by now, and all the replicas of one that must shrink.
Counted(r) == Min2(r.status.available, r.replicas)

ViewBehind ==
    dctx.pc = "status" =>
        \A s \in Structures :
            /\ Counted(dctx.view[s]) <= Counted(rs[s])
            /\ MustShrink(s) => dctx.view[s].replicas <= dctx.view[s].status.available

\* What a scale-down that is about to be sent leaves is enough.
ScaleKeepsFloor ==
    dctx.pc = "scale" /\ dctx.rs # deploy.structure =>
        MinAvailable <= TotalAvailableReplicas(rs) - (rs[dctx.rs].replicas - dctx.n)

FloorInv == SeenStands /\ Available /\ ViewBehind /\ ScaleKeepsFloor

\* Counts are numbers.
LEMMA ReadyTypes ==
    ASSUME TypeInv, NEW s \in Structures
    PROVE  /\ ReadyPods(s) \subseteq ActivePods(s) /\ ReadyPods(s) \in SUBSET PodIds
           /\ IsFiniteSet(ReadyPods(s)) /\ Cardinality(ReadyPods(s)) \in Nat
           /\ rs[s].status.available \in Nat
           /\ rctx.pc = "update" => /\ rctx.s \in Structures
                                    /\ IsFiniteSet(SeenReady) /\ Cardinality(SeenReady) \in Nat
<1>1. ReadyPods(s) \subseteq ActivePods(s) /\ ReadyPods(s) \in SUBSET PodIds
    BY CountTypes DEF ReadyPods
<1>2. rs[s].status.available \in Nat
    BY Parts DEF ReplicaSet, RSStatus
<1>3. ASSUME rctx.pc = "update"
      PROVE  rctx.s \in Structures /\ SeenReady \in SUBSET PodIds
    BY <1>3, Parts, RContextKinds DEF SeenReady
<1> QED
    BY <1>1, <1>2, <1>3, PodsCount

\* Without restarts a ready Pod stays ready.
LEMMA ReadyKept ==
    ASSUME TypeInv, [Next]_vars, [NoEviction]_vars, [NoRestart]_vars
    PROVE  \A p \in DOMAIN pods' : p \in DOMAIN pods /\ pods[p].ready => pods'[p].ready
<1>1. \A p \in DOMAIN pods : pods[p] \in Pod
    BY DEF TypeInv, TypeOK, ClusterTypeOK
<1>2. CASE pods' = pods
    BY <1>2
<1>3. ASSUME NEW p \in DOMAIN pods, KubeletReady(p) \/ PodGone(p)
      PROVE  \A q \in DOMAIN pods' : q \in DOMAIN pods /\ pods[q].ready => pods'[q].ready
    <2>1. CASE KubeletReady(p)
        BY <1>1, <2>1 DEF KubeletReady, Pod
    <2>2. CASE PodGone(p)
        BY <2>2 DEF PodGone
    <2> QED
        BY <1>3, <2>1, <2>2
<1>4. CASE RCreatePod
    BY <1>4, CreationFacts
<1>5. CASE RDeletePod
    <2>1. PICK p : pods' = IF p \in DOMAIN pods /\ pods[p].phase = "Active"
                           THEN [pods EXCEPT ![p].phase = "Terminating"] ELSE pods
        BY <1>5 DEF RDeletePod
    <2> QED
        BY <1>1, <2>1 DEF Pod
<1>6. CASE RPatchPod
    <2>1. PICK p : \/ p \in DOMAIN pods /\ pods' = [pods EXCEPT ![p].rev = rctx.obj.rev]
                   \/ UNCHANGED pods
        BY <1>6 DEF RPatchPod
    <2> QED
        BY <1>1, <2>1 DEF Pod
<1>7. CASE DWork \/ DFail
    <2>1. pods' = pods
        <3>1. CASE DRead \/ DListPods \/ DFail
            BY <3>1 DEF DRead, DListPods, DFail, clusterVars
        <3> QED
            BY <1>7, <3>1, CreateFacts, SyncFacts, StatusFacts, ScaleFacts DEF DWork
    <2> QED
        BY <1>2, <2>1
<1>8. CASE (\E t \in Structures : RRead(t)) \/ RPatchStatus \/ RFail \/ UNCHANGED vars
    BY <1>2, <1>8 DEF RRead, RPatchStatus, RFail, clusterVars, vars
<1>9. CASE ClusterNext
    <2>1. CASE UserEdit \/ RefreshDeployment \/ \E t \in Lagging : RefreshReplicaSet(t)
        BY <1>2, <2>1 DEF UserEdit, RefreshDeployment, RefreshReplicaSet
    <2>2. CASE \E p \in DOMAIN pods : Evict(p) \/ KubeletRestart(p)
        BY <1>2, <2>2 DEF NoEviction, NoRestart, vars
    <2> QED
        BY <1>3, <1>9, <2>1, <2>2 DEF ClusterNext, Kubelet
<1> QED
    BY <1>4, <1>5, <1>6, <1>7, <1>8, <1>9 DEF Next, RStep

\* What a reconcile that is about to write a status has seen: the Pods of its read,
\* or what it had seen before and the answers to its patches.
LEMMA SeenFacts ==
    ASSUME TypeInv, SeenStands, [Next]_vars, rctx'.pc = "update"
    PROVE  \/ \E t \in Structures :
                 /\ RRead(t) /\ rctx'.s = t /\ UNCHANGED <<rs, pods>>
                 /\ DOMAIN rctx'.seen = ActivePods(t) /\ SeenReady' = ReadyPods(t)
                 /\ Cardinality(ActivePods(t)) = CachedReplicaSet(t).replicas
           \/ /\ ~RCreatePod /\ ~RDeletePod /\ ~RPatchStatus
              /\ rctx.pc = "update" /\ rctx'.s = rctx.s
              /\ DOMAIN rctx'.seen = DOMAIN rctx.seen /\ SeenReady \subseteq SeenReady'
              /\ \A p \in SeenReady' : p \in SeenReady \/ (p \in DOMAIN pods' /\ pods'[p].ready)
<1>1. ASSUME NEW t \in Structures, RRead(t)
      PROVE  /\ rctx'.s = t /\ UNCHANGED <<rs, pods>>
             /\ DOMAIN rctx'.seen = ActivePods(t) /\ SeenReady' = ReadyPods(t)
             /\ Cardinality(ActivePods(t)) = CachedReplicaSet(t).replicas
    <2>1. /\ rctx'.s = t /\ UNCHANGED <<rs, pods>>
          /\ rctx'.seen = [p \in ActivePods(t) |-> pods[p]]
          /\ Cardinality(ActivePods(t)) = CachedReplicaSet(t).replicas
        BY <1>1, ReplicaSetReadFacts DEF clusterVars
    <2>2. DOMAIN rctx'.seen = ActivePods(t) /\ \A p \in ActivePods(t) : rctx'.seen[p] = pods[p]
        BY <2>1
    <2>3. SeenReady' = ReadyPods(t)
        BY <2>2 DEF SeenReady, ReadyPods
    <2> QED
        BY <2>1, <2>2, <2>3
<1>2. CASE RPatchPod
    <2>1. /\ rctx.pc = "update"
          /\ rctx \in [pc: {"update"}, s: Structures, obj: ReplicaSet,
                       seen: UNION {[D -> Pod] : D \in SUBSET PodIds},
                       terminating: Nat, inFlight: Nat]
        BY <1>2, Parts, RContextKinds DEF RPatchPod
    <2>2. PICK p \in PatchCandidates(rctx) :
             IF p \in DOMAIN pods
             THEN /\ pods' = [pods EXCEPT ![p].rev = rctx.obj.rev]
                  /\ rctx' = [rctx EXCEPT !.seen = [rctx.seen EXCEPT ![p] = pods'[p]],
                                          !.inFlight = rctx.inFlight + 1]
             ELSE rctx' = RIdle
        BY <1>2, <2>1 DEF RPatchPod
    <2>3. p \in DOMAIN rctx.seen /\ p \in DOMAIN pods
        BY <2>2 DEF PatchCandidates, Outdated, RIdle
    <2>4. pods' = [pods EXCEPT ![p].rev = rctx.obj.rev]
        BY <2>2, <2>3
    <2>5. p \in DOMAIN pods' /\ pods'[p].ready = pods[p].ready
        BY <2>3, <2>4 DEF TypeInv, TypeOK, ClusterTypeOK, Pod
    <2> DEFINE answered == [rctx.seen EXCEPT ![p] = pods'[p]]
    <2>6. rctx' = [rctx EXCEPT !.seen = answered, !.inFlight = rctx.inFlight + 1]
        BY <2>2, <2>3
    <2>7. /\ DOMAIN answered = DOMAIN rctx.seen
          /\ \A q \in DOMAIN rctx.seen : answered[q] = IF q = p THEN pods'[p] ELSE rctx.seen[q]
        BY <2>1, <2>3
    <2> HIDE DEF answered
    <2>8. rctx'.seen = answered /\ rctx'.s = rctx.s
        BY <2>1, <2>6
    <2>9. p \in SeenReady => pods[p].ready
        BY <2>1 DEF SeenStands, ReadyPods
    <2>10. SeenReady \subseteq SeenReady'
        BY <2>5, <2>7, <2>8, <2>9 DEF SeenReady
    <2>11. \A q \in SeenReady' : q \in SeenReady \/ (q \in DOMAIN pods' /\ pods'[q].ready)
        BY <2>5, <2>7, <2>8 DEF SeenReady
    <2>12. ~RCreatePod /\ ~RDeletePod /\ ~RPatchStatus
        BY <2>1, <2>8 DEF RCreatePod, RDeletePod, RPatchStatus, RIdle
    <2> QED
        BY <2>1, <2>7, <2>8, <2>10, <2>11, <2>12
<1>3. CASE RCreatePod \/ RDeletePod \/ RPatchStatus \/ RFail
    <2>1. CASE RCreatePod
        BY <2>1, CreationFacts DEF RIdle
    <2>2. CASE RDeletePod
        <3>1. rctx \in [pc: {"delete"}, s: Structures, victims: SUBSET PodIds]
            BY <2>2, Parts, RContextKinds DEF RDeletePod
        <3> QED
            BY <2>2, <3>1 DEF RDeletePod, RIdle
    <2> QED
        BY <1>3, <2>1, <2>2 DEF RPatchStatus, RFail, RIdle
<1>4. CASE rctx' = rctx
    <2>1. SeenReady' = SeenReady
        BY <1>4 DEF SeenReady
    <2>2. CASE RCreatePod \/ RDeletePod \/ RPatchStatus
        BY <1>3, <2>2
    <2> QED
        BY <1>4, <2>1, <2>2
<1> QED
    BY <1>1, <1>2, <1>3, <1>4 DEF Next, RStep, vars

LEMMA SeenStep ==
    ASSUME TypeInv, SeenStands, [Next]_vars, [NoEviction]_vars, [NoRestart]_vars
    PROVE  SeenStands'
<1> SUFFICES ASSUME rctx'.pc = "update"
             PROVE  /\ DOMAIN rctx'.seen \subseteq ActivePods(rctx.s)'
                    /\ SeenReady' \subseteq ReadyPods(rctx.s)'
    BY DEF SeenStands
<1>1. CASE \E t \in Structures :
              /\ RRead(t) /\ rctx'.s = t /\ UNCHANGED <<rs, pods>>
              /\ DOMAIN rctx'.seen = ActivePods(t) /\ SeenReady' = ReadyPods(t)
    BY <1>1 DEF ReadyPods, ActivePods, PodsIn
<1>2. CASE /\ ~RCreatePod /\ ~RDeletePod
           /\ rctx.pc = "update" /\ rctx'.s = rctx.s
           /\ DOMAIN rctx'.seen = DOMAIN rctx.seen /\ SeenReady \subseteq SeenReady'
           /\ \A p \in SeenReady' : p \in SeenReady \/ (p \in DOMAIN pods' /\ pods'[p].ready)
    <2>1. PICK s : s = rctx.s /\ s = rctx'.s
        BY <1>2
    <2>2. ActivePods(s)' = ActivePods(s)
        BY <1>2, ActiveKept
    <2>3. DOMAIN rctx'.seen \subseteq ActivePods(s)'
        BY <1>2, <2>1, <2>2 DEF SeenStands
    <2>4. ASSUME NEW p \in SeenReady'
          PROVE  p \in ActivePods(s)' /\ pods'[p].ready
        <3>1. p \in ActivePods(s)' /\ p \in DOMAIN pods'
            BY <2>3, <2>4 DEF SeenReady, ActivePods, PodsIn
        <3>2. p \in SeenReady => p \in DOMAIN pods /\ pods[p].ready
            BY <1>2 DEF SeenStands, ReadyPods, ActivePods, PodsIn
        <3> QED
            BY <1>2, <3>1, <3>2, ReadyKept
    <2> QED
        BY <2>1, <2>3, <2>4 DEF ReadyPods, ActivePods, PodsIn
<1> QED
    BY <1>1, <1>2, SeenFacts

\* Who writes the number of available Pods, and from what.
LEMMA StatusCount ==
    ASSUME TypeInv, PauseInv, [Next]_vars, NEW s \in Structures
    PROVE  \/ rs'[s].status.available = rs[s].status.available
           \/ rs[s].replicas = 0 /\ rs'[s].replicas = 0 /\ rs'[s].status.available = 0
           \/ /\ RPatchStatus /\ rctx.pc = "update" /\ rctx.s = s
              /\ rs'[s].status.available = Cardinality(SeenReady)
<1>1. CASE rs' = rs
    BY <1>1
<1>2. CASE DCreate
    <2>1. rs[dctx.d.structure].replicas = 0
        BY <1>2, CreateFacts DEF PauseInv, Vacant
    <2> QED
        BY <1>2, <2>1, CreateFacts
<1>3. CASE DSync \/ DScale
    BY <1>3, SyncFacts, ScaleFacts
<1>4. CASE RPatchStatus
    <2> DEFINE calc == CalculatedStatus(rctx)
               new  == MergePatch(rctx.obj.status, calc, rs[rctx.s].status)
    <2>1. rctx.pc = "update" /\ rs \in [Structures -> ReplicaSet] /\ rctx \in RContext
        BY <1>4, Parts DEF RPatchStatus
    <2>2. rctx.s \in Structures
        BY <2>1, RContextKinds
    <2>3. rs' = [rs EXCEPT ![rctx.s] = [rs[rctx.s] EXCEPT !.status = new]]
        BY <1>4, <2>1, <2>2 DEF RPatchStatus
    <2>4. calc.available = Cardinality(SeenReady)
        BY DEF CalculatedStatus, SeenReady
    <2>5. rs[rctx.s].status \in RSStatus
        BY <2>1, <2>2 DEF ReplicaSet
    <2> HIDE DEF calc
    <2>6. new.available \in {rs[rctx.s].status.available, calc.available}
        BY <2>5 DEF MergePatch, RSStatus
    <2> HIDE DEF new
    <2>7. rs'[s].status = IF s = rctx.s THEN new ELSE rs[s].status
        BY <2>1, <2>2, <2>3 DEF ReplicaSet
    <2> QED
        BY <1>4, <2>1, <2>4, <2>6, <2>7
<1>5. CASE DRead \/ DStatus \/ DListPods \/ DFail \/ UNCHANGED vars
    BY <1>1, <1>5 DEF DRead, DStatus, DListPods, DFail, clusterVars, vars
<1>6. CASE (\E t \in Structures : RRead(t)) \/ RCreatePod \/ RDeletePod \/ RPatchPod \/ RFail
    BY <1>1, <1>6 DEF RRead, RCreatePod, RDeletePod, RPatchPod, RFail, clusterVars
<1>7. CASE ClusterNext
    BY <1>1, <1>7 DEF ClusterNext, UserEdit, RefreshDeployment, RefreshReplicaSet, Kubelet,
                      KubeletRestart, KubeletReady, PodGone, Evict
<1> QED
    BY <1>2, <1>3, <1>4, <1>5, <1>6, <1>7 DEF Next, DWork, RStep

\* While a ReplicaSet shrinks, its Pods stay ready and its status counts enough.
LEMMA AllReadyStep ==
    ASSUME TypeInv, TypeInv', PauseInv, SeenStands, [Next]_vars, [NoEviction]_vars,
           [NoRestart]_vars, NEW s \in Structures, rs'[s].replicas <= rs[s].replicas,
           Shrinking(s), AllReady(s)
    PROVE  AllReady(s)'
<1>1. /\ rs[s].replicas \in Nat /\ rs'[s].replicas \in Nat /\ CachedReplicaSet(s).replicas \in Nat
      /\ rs[s].status.available \in Nat /\ rs'[s].status.available \in Nat
    BY CountTypes, ReadyTypes, Parts DEF TypeInv, TypeOK, ClusterTypeOK, ReplicaSet, RSStatus
<1>2. /\ ActivePods(s) = ReadyPods(s) /\ rs[s].replicas <= rs[s].status.available
      /\ rctx.pc = "update" /\ rctx.s = s => rs[s].replicas <= Cardinality(SeenReady)
      /\ rs[s].replicas <= CachedReplicaSet(s).replicas
    BY DEF AllReady, Shrinking
<1>3. ActivePods(s)' \subseteq ActivePods(s)
    <2>1. CASE RCreatePod
        <3>1. rctx.s # s
            BY <2>1, CreationFacts DEF Shrinking
        <3> QED
            BY <2>1, <3>1, CreationFacts
    <2>2. CASE ~RCreatePod
        BY <2>2, PodFacts DEF ActivePods, PodsIn
    <2> QED
        BY <2>1, <2>2
<1>4. ActivePods(s)' = ReadyPods(s)'
    <2>1. ASSUME NEW p \in ActivePods(s)'
          PROVE  pods'[p].ready
        <3>1. p \in ReadyPods(s) /\ p \in DOMAIN pods'
            BY <1>2, <1>3, <2>1 DEF ActivePods, PodsIn
        <3> QED
            BY <3>1, ReadyKept DEF ReadyPods, ActivePods, PodsIn
    <2> QED
        BY <2>1 DEF ReadyPods
<1>5. rs'[s].replicas <= rs'[s].status.available
    <2>1. CASE rs'[s].status.available = rs[s].status.available
        BY <1>1, <1>2, <2>1
    <2>2. CASE rs'[s].replicas = 0
        BY <1>1, <2>2
    <2>3. CASE /\ rctx.pc = "update" /\ rctx.s = s
               /\ rs'[s].status.available = Cardinality(SeenReady)
        BY <1>1, <1>2, <2>3
    <2> QED
        BY <2>1, <2>2, <2>3, StatusCount
<1>6. ASSUME rctx'.pc = "update", rctx'.s = s
      PROVE  rs'[s].replicas <= Cardinality(SeenReady')
    <2>1. CASE \E t \in Structures :
                  /\ rctx'.s = t /\ SeenReady' = ReadyPods(t)
                  /\ Cardinality(ActivePods(t)) = CachedReplicaSet(t).replicas
        <3>1. Cardinality(SeenReady') = CachedReplicaSet(s).replicas
            BY <1>2, <1>6, <2>1
        <3> QED
            BY <1>1, <1>2, <3>1
    <2>2. CASE rctx.pc = "update" /\ rctx'.s = rctx.s /\ SeenReady \subseteq SeenReady'
        <3>1. Cardinality(SeenReady) \in Nat
            BY <2>2, ReadyTypes
        <3>2. IsFiniteSet(SeenReady')
            BY <1>6, Parts, RContextKinds, PodsCount
               DEF SeenReady, TypeInv, TypeOK, ReplicaSetTypeOK
        <3>3. /\ Cardinality(SeenReady) <= Cardinality(SeenReady')
              /\ Cardinality(SeenReady') \in Nat
            BY <2>2, <3>2, FS_Subset, FS_CardinalityType
        <3> QED
            BY <1>1, <1>2, <1>6, <2>2, <3>1, <3>3
    <2> QED
        BY <1>6, <2>1, <2>2, SeenFacts
<1> QED
    BY <1>4, <1>5, <1>6 DEF AllReady

\* While a ReplicaSet grows, its status follows its Pods and does not fall.
LEMMA NotAheadStep ==
    ASSUME TypeInv, TypeInv', PauseInv, SeenStands, VictimsOwned, [Next]_vars,
           [NoEviction]_vars, [NoRestart]_vars, NEW s \in Structures, Growing(s), NotAhead(s)
    PROVE  /\ NotAhead(s)'
           /\ rs[s].replicas = 0 \/ rs[s].status.available <= rs'[s].status.available
<1>1. /\ rs[s].status.available \in Nat /\ rs'[s].status.available \in Nat
      /\ Cardinality(ReadyPods(s)) \in Nat
    BY ReadyTypes DEF TypeInv, TypeOK, ClusterTypeOK, ReplicaSet, RSStatus
<1>2. /\ rs[s].status.available <= Cardinality(ReadyPods(s))
      /\ rctx.pc = "update" /\ rctx.s = s => rs[s].status.available <= Cardinality(SeenReady)
    BY DEF NotAhead
<1>3. ReadyPods(s) \subseteq ReadyPods(s)'
    <2>1. ActivePods(s) \subseteq ActivePods(s)'
        <3>1. CASE RCreatePod
            BY <3>1, CreationFacts, CreationCount
        <3>2. CASE RDeletePod
            <4>1. rctx.s # s
                BY <3>2, DeletionFacts DEF Growing
            <4> QED
                BY <3>2, <4>1, DeletionFacts
        <3>3. CASE ~RCreatePod /\ ~RDeletePod
            BY <3>3, ActiveKept
        <3> QED
            BY <3>1, <3>2, <3>3
    <2> QED
        BY <2>1, ReadyKept DEF ReadyPods, ActivePods, PodsIn
<1>4. /\ IsFiniteSet(ReadyPods(s)') /\ Cardinality(ReadyPods(s)') \in Nat
      /\ Cardinality(ReadyPods(s)) <= Cardinality(ReadyPods(s)')
    <2>1. ReadyPods(s)' \in SUBSET PodIds
        BY DEF ReadyPods, ActivePods, PodsIn, TypeInv, TypeOK, ClusterTypeOK
    <2>2. IsFiniteSet(ReadyPods(s)') /\ Cardinality(ReadyPods(s)') \in Nat
        BY <2>1, PodsCount
    <2> QED
        BY <1>3, <2>2, FS_Subset
<1>5. /\ rs'[s].status.available <= Cardinality(ReadyPods(s)')
      /\ rs[s].replicas = 0 \/ rs[s].status.available <= rs'[s].status.available
    <2>1. CASE rs'[s].status.available = rs[s].status.available
        BY <1>1, <1>2, <1>4, <2>1
    <2>2. CASE rs[s].replicas = 0 /\ rs'[s].status.available = 0
        BY <1>4, <2>2
    <2>3. CASE /\ rctx.pc = "update" /\ rctx.s = s
               /\ rs'[s].status.available = Cardinality(SeenReady)
        <3>1. SeenReady \subseteq ReadyPods(s) /\ IsFiniteSet(ReadyPods(s))
            BY <2>3, ReadyTypes DEF SeenStands
        <3>2. Cardinality(SeenReady) <= Cardinality(ReadyPods(s)) /\ Cardinality(SeenReady) \in Nat
            BY <3>1, FS_Subset, FS_CardinalityType
        <3> QED
            BY <1>1, <1>2, <1>4, <2>3, <3>2
    <2> QED
        BY <2>1, <2>2, <2>3, StatusCount
<1>6. ASSUME rctx'.pc = "update", rctx'.s = s
      PROVE  rs'[s].status.available <= Cardinality(SeenReady')
    <2>1. CASE \E t \in Structures :
                  /\ rctx'.s = t /\ UNCHANGED <<rs, pods>> /\ SeenReady' = ReadyPods(t)
        BY <1>2, <1>6, <2>1
    <2>2. CASE /\ ~RPatchStatus /\ rctx.pc = "update" /\ rctx'.s = rctx.s
               /\ SeenReady \subseteq SeenReady'
        <3>1. Cardinality(SeenReady) \in Nat
            BY <2>2, ReadyTypes
        <3>2. IsFiniteSet(SeenReady')
            BY <1>6, Parts, RContextKinds, PodsCount
               DEF SeenReady, TypeInv, TypeOK, ReplicaSetTypeOK
        <3>3. /\ Cardinality(SeenReady) <= Cardinality(SeenReady')
              /\ Cardinality(SeenReady') \in Nat
            BY <2>2, <3>2, FS_Subset, FS_CardinalityType
        <3>4. rs'[s].status.available \in {0, rs[s].status.available}
            BY <2>2, StatusCount
        <3> QED
            BY <1>1, <1>2, <1>6, <2>2, <3>1, <3>3, <3>4
    <2> QED
        BY <1>6, <2>1, <2>2, SeenFacts
<1> QED
    BY <1>5, <1>6 DEF NotAhead

LEMMA FloorInit == SteadyInit => FloorInv
<1> SUFFICES ASSUME SteadyInit PROVE FloorInv
    OBVIOUS
<1>1. dctx = DIdle /\ rctx = RIdle /\ deploy.gen = 1 /\ TypeInv /\ EditInv
    BY EditInit DEF SteadyInit, SpecChoices
<1>2. SeenStands /\ ViewBehind /\ ScaleKeepsFloor
    BY <1>1 DEF SeenStands, ViewBehind, ScaleKeepsFloor, DIdle, RIdle
<1>3. \A s \in Structures : rs[s].status.available = rs[s].replicas
    BY RestedFacts DEF NoReplicaSet, NoStatus
<1>4. PICK P \in SUBSET PodIds :
         pods = [p \in P |-> [NewPod(deploy.structure, deploy.rev) EXCEPT !.ready = TRUE]]
    BY DEF SteadyInit
<1>5. \A p \in DOMAIN pods : pods[p].ready
    BY <1>4 DEF NewPod
<1>6. \A s \in Structures : ActivePods(s) = ReadyPods(s)
    BY <1>5 DEF ReadyPods, ActivePods, PodsIn
<1>7. ASSUME NEW s \in Structures
      PROVE  Shrinking(s) /\ Growing(s) /\ Cardinality(ActivePods(s)) = rs[s].replicas
    <2>1. Shrinking(s) /\ Growing(s)
        BY <1>1 DEF EditInv, OneWay, MustShrink, MustGrow
    <2>2. /\ rs[s].replicas \in Nat /\ CachedReplicaSet(s).replicas \in Nat
          /\ Cardinality(ActivePods(s)) \in Nat
        BY <1>1, CountTypes
    <2>3. /\ rs[s].replicas <= CachedReplicaSet(s).replicas
          /\ CachedReplicaSet(s).replicas <= Cardinality(ActivePods(s))
          /\ Cardinality(ActivePods(s)) <= CachedReplicaSet(s).replicas
          /\ CachedReplicaSet(s).replicas <= rs[s].replicas
        BY <2>1 DEF Shrinking, Growing
    <2> QED
        BY <2>1, <2>2, <2>3
<1>8. ASSUME NEW s \in Structures
      PROVE  AllReady(s) /\ NotAhead(s)
    <2>1. rs[s].replicas \in Nat
        BY <1>1, CountTypes
    <2>2. /\ ActivePods(s) = ReadyPods(s) /\ Cardinality(ReadyPods(s)) = rs[s].replicas
          /\ rs[s].status.available = rs[s].replicas
        BY <1>3, <1>6, <1>7
    <2> QED
        BY <1>1, <2>1, <2>2 DEF AllReady, NotAhead, RIdle
<1> QED
    BY <1>2, <1>7, <1>8 DEF FloorInv, Available

LEMMA AvailableStep ==
    ASSUME TypeInv, TypeInv', PauseInv, EditInv, EditedOnce, EditedOnce', SeenStands, Available,
           [Next]_vars, [NoEviction]_vars, [NoRestart]_vars
    PROVE  Available'
<1> SUFFICES ASSUME NEW s \in Structures
             PROVE  /\ MustShrink(s)' => AllReady(s)'
                    /\ MustGrow(s)' => NotAhead(s)'
                    /\ \/ Shrinking(s)' /\ AllReady(s)'
                       \/ Growing(s)' /\ NotAhead(s)'
    BY DEF Available
<1>1. /\ MustShrink(s) => Shrinking(s) /\ AllReady(s)
      /\ MustGrow(s) => Growing(s) /\ NotAhead(s)
      /\ \/ Shrinking(s) /\ AllReady(s)
         \/ Growing(s) /\ NotAhead(s)
    BY DEF EditInv, OneWay, Available
<1>2. /\ rs[s].replicas \in Nat /\ rs'[s].replicas \in Nat
      /\ MustShrink(s)' => MustShrink(s) /\ rs'[s].replicas <= rs[s].replicas
      /\ MustGrow(s)' => MustGrow(s) /\ rs'[s].replicas >= rs[s].replicas
      /\ rs'[s].replicas < rs[s].replicas => MustShrink(s)
      /\ rs'[s].replicas > rs[s].replicas => MustGrow(s)
    BY Directions
<1>3. ASSUME Shrinking(s), AllReady(s), rs'[s].replicas <= rs[s].replicas
      PROVE  Shrinking(s)' /\ AllReady(s)'
    BY <1>2, <1>3, ShrinkStep, AllReadyStep DEF EditInv
<1>4. ASSUME Growing(s), NotAhead(s), rs'[s].replicas >= rs[s].replicas
      PROVE  Growing(s)' /\ NotAhead(s)'
    BY <1>2, <1>4, GrowStep, NotAheadStep DEF EditInv
<1> QED
    BY <1>1, <1>2, <1>3, <1>4

-----------------------------------------------------------------------------
\* What one ReplicaSet contributes to totalAvailableReplicas falls only with its
\* replica count.
LEMMA CountedStep ==
    ASSUME TypeInv, TypeInv', PauseInv, EditInv, EditedOnce, EditedOnce', SeenStands, Available,
           [Next]_vars, [NoEviction]_vars, [NoRestart]_vars, NEW s \in Structures,
           rs'[s].replicas >= rs[s].replicas
    PROVE  Min2(rs[s].status.available, rs[s].replicas)
             <= Min2(rs'[s].status.available, rs'[s].replicas)
<1>1. /\ rs[s].replicas \in Nat /\ rs'[s].replicas \in Nat
      /\ rs'[s].replicas > rs[s].replicas => MustGrow(s)
    BY Directions
<1>2. rs[s].status.available \in Nat /\ rs'[s].status.available \in Nat
    BY DEF TypeInv, TypeOK, ClusterTypeOK, ReplicaSet, RSStatus
<1>3. CASE Growing(s) /\ NotAhead(s)
    <2>1. rs[s].replicas = 0 \/ rs[s].status.available <= rs'[s].status.available
        BY <1>3, NotAheadStep DEF EditInv
    <2> QED
        BY <1>1, <1>2, <2>1 DEF Min2
<1>4. CASE Shrinking(s) /\ AllReady(s) /\ rs'[s].replicas = rs[s].replicas
    <2>1. rs[s].replicas <= rs[s].status.available /\ AllReady(s)'
        BY <1>1, <1>4, AllReadyStep DEF AllReady
    <2>2. rs'[s].replicas <= rs'[s].status.available
        BY <2>1 DEF AllReady
    <2> QED
        BY <1>1, <1>2, <1>4, <2>1, <2>2 DEF Min2
<1>5. /\ MustGrow(s) => Growing(s) /\ NotAhead(s)
      /\ \/ Shrinking(s) /\ AllReady(s)
         \/ Growing(s) /\ NotAhead(s)
    BY DEF EditInv, OneWay, Available
<1> QED
    BY <1>1, <1>3, <1>4, <1>5

LEMMA Views ==
    ASSUME TypeInv, TypeInv'
    PROVE  /\ ViewOK(rs) /\ ViewOK(rs') /\ IsFiniteSet(Structures)
           /\ TotalAvailableReplicas(rs) \in Nat /\ TotalAvailableReplicas(rs') \in Nat
           /\ dctx' \in DContext
<1>1. ViewOK(rs) /\ ViewOK(rs') /\ IsFiniteSet(Structures)
    BY StructuresAssumption
       DEF TypeInv, TypeOK, ClusterTypeOK, ViewOK, ReplicaSet, RSStatus
<1>2. TotalAvailableReplicas(rs) \in Nat /\ TotalAvailableReplicas(rs') \in Nat
    BY <1>1, SumsType
<1>3. dctx' \in DContext
    BY DEF TypeInv, TypeOK, DeploymentTypeOK
<1> QED
    BY <1>1, <1>2, <1>3

\* So does the sum.
LEMMA SumStep ==
    ASSUME TypeInv, TypeInv', PauseInv, EditInv, EditedOnce, EditedOnce', SeenStands, Available,
           [Next]_vars, [NoEviction]_vars, [NoRestart]_vars,
           \A s \in Structures : rs'[s].replicas >= rs[s].replicas
    PROVE  TotalAvailableReplicas(rs) <= TotalAvailableReplicas(rs')
<1>1. \A s \in Structures : Min2(rs[s].status.available, rs[s].replicas)
                              <= Min2(rs'[s].status.available, rs'[s].replicas)
    BY CountedStep
<1> QED
    BY <1>1, Views, AvailableMono

\* The minimum is a number, at most the desired count, and no plan moves it.
LEMMA MinimumFacts ==
    ASSUME TypeInv
    PROVE  /\ MinAvailable \in Nat /\ MinAvailable <= deploy.replicas /\ deploy.replicas \in Nat
           /\ deploy.strategy.recreate => MinAvailable = 0
           /\ ~deploy.strategy.recreate
              => MinAvailable = Max2(deploy.replicas - Limits(deploy).unavailable, 0)
<1>1. deploy.replicas \in Nat /\ Limits(deploy).unavailable \in Nat
    BY Parts, DeploymentFields DEF LimitsOK
<1> QED
    BY <1>1 DEF MinAvailable, Max2

\* A scale-down that is decided from the ReplicaSets as listed leaves the minimum.
LEMMA RolloutKeepsFloor ==
    ASSUME TypeInv, TypeInv', PauseInv, EditInv, EditedOnce, Available, ViewBehind,
           DRead \/ DStatus, dctx'.pc = "scale", dctx'.rs # deploy.structure
    PROVE  MinAvailable <= TotalAvailableReplicas(rs) - (rs[dctx'.rs].replicas - dctx'.n)
<1>1. /\ dctx'.d \in Deployment /\ dctx'.cur \in Structures
      /\ dctx'.cur = dctx'.d.structure /\ SameSpec(dctx'.d)
    BY NewRollout
<1>2. PICK view \in [Structures -> ReplicaSet] :
         /\ SpecStands(view)
         /\ view = rs \/ (DStatus /\ view = dctx.view)
         /\ dctx' \in RolloutChoices(dctx'.d, dctx'.cur, view)
    BY NewRollout
<1>3. PICK c \in ScaleChoices(dctx'.d, dctx'.cur, view) : dctx'.rs = c.rs /\ dctx'.n = c.n
    BY <1>2 DEF RolloutChoices, DIdle
<1>4. PICK t \in Structures : t = dctx'.rs
    BY <1>1, <1>2, <1>3, ScaleDirection
<1>5. PICK n \in Nat : n = dctx'.n
    BY Views, DContextKinds DEF ScaleContext
<1>6. MustShrink(t) /\ rs[t].replicas <= rs[t].status.available
    BY <1>4 DEF Available, AllReady, MustShrink
<1>7. /\ view[t].replicas <= view[t].status.available
      /\ \A s \in Structures : Counted(view[s]) <= Counted(rs[s])
    <2>1. CASE view = rs
        <3>1. \A s \in Structures : Counted(rs[s]) \in Nat
            BY Parts DEF Counted, Min2, ReplicaSet, RSStatus
        <3> QED
            BY <1>6, <2>1, <3>1
    <2>2. CASE DStatus /\ view = dctx.view
        BY <1>6, <2>2, StatusFacts DEF ViewBehind
    <2> QED
        BY <1>2, <2>1, <2>2
<1>8. ViewOK(view) /\ TotalAvailableReplicas(view) \in Nat
    BY <1>2, ListedView, SumsType, StructuresAssumption
<1>9. TotalAvailableReplicas(view) <= TotalAvailableReplicas(rs)
    BY <1>7, <1>8, Views, AvailableMono DEF Counted
<1>10. /\ rs[t].replicas \in Nat /\ rs[t].status.available \in Nat
       /\ TotalAvailableReplicas(rs) \in Nat /\ view[t].replicas = rs[t].replicas
    BY <1>2, CountTypes, ReadyTypes, Views DEF SpecStands
<1>11. /\ Limits(dctx'.d) = Limits(deploy) /\ dctx'.d.replicas = deploy.replicas
       /\ dctx'.d.strategy = deploy.strategy /\ t # dctx'.cur
    BY <1>1, <1>4 DEF SameSpec, Limits
<1>12. /\ n <= view[t].replicas
       /\ deploy.strategy.recreate \/
          view[t].replicas - n <= TotalAvailableReplicas(view)
                                    - Max2(deploy.replicas - Limits(deploy).unavailable, 0)
    BY <1>1, <1>2, <1>3, <1>4, <1>5, <1>7, <1>11, ScaleDirection
<1>13. Min2(rs[t].status.available, rs[t].replicas) <= TotalAvailableReplicas(rs)
    BY Views, AvailableSplit
<1>14. rs[t].replicas <= TotalAvailableReplicas(rs)
    BY <1>6, <1>10, <1>13 DEF Min2
<1>15. MinAvailable <= TotalAvailableReplicas(rs) - (rs[t].replicas - n)
    <2>1. CASE deploy.strategy.recreate
        BY <1>10, <1>12, <1>14, <2>1, MinimumFacts
    <2>2. CASE ~deploy.strategy.recreate
        <3>1. MinAvailable \in Nat
              /\ rs[t].replicas - n <= TotalAvailableReplicas(view) - MinAvailable
            BY <1>10, <1>12, <2>2, MinimumFacts
        <3> QED
            BY <1>8, <1>9, <1>10, <3>1
    <2> QED
        BY <2>1, <2>2
<1> QED
    BY <1>4, <1>5, <1>15

\* Nobody scales between the read and the status patch, so what was read stays true.
LEMMA ViewStep ==
    ASSUME TypeInv, TypeInv', PauseInv, EditInv, EditedOnce, EditedOnce', FloorInv,
           [Next]_vars, [NoEviction]_vars, [NoRestart]_vars
    PROVE  ViewBehind'
<1> SUFFICES ASSUME dctx'.pc = "status", NEW s \in Structures
             PROVE  /\ Counted(dctx'.view[s]) <= Counted(rs'[s])
                    /\ MustShrink(s)' => dctx'.view[s].replicas <= dctx'.view[s].status.available
    BY DEF ViewBehind, Counted
<1>0. dctx' # DIdle
    BY DEF DIdle
<1>1. Counted(rs[s]) \in Nat /\ Counted(rs'[s]) \in Nat /\ Counted(dctx'.view[s]) \in Nat
    <2>1. rs[s] \in ReplicaSet /\ rs'[s] \in ReplicaSet /\ dctx'.view[s] \in ReplicaSet
        BY Views, DContextKinds DEF TypeInv, TypeOK, ClusterTypeOK
    <2> QED
        BY <2>1 DEF Counted, Min2, ReplicaSet, RSStatus
<1>2. MustShrink(s)' => MustShrink(s)
    BY Directions
<1>3. CASE DRead
    <2>1. dctx'.view = rs /\ rs' = rs
        BY <1>0, <1>3, ReadFacts DEF clusterVars
    <2> QED
        BY <1>1, <1>2, <2>1 DEF FloorInv, Available, AllReady
<1>4. CASE dctx' = dctx
    <2>1. rs'[s].replicas = rs[s].replicas /\ rs[s].replicas \in Nat
        BY <1>4, ScalesOneWay DEF DScale
    <2>2. Counted(rs[s]) <= Counted(rs'[s])
        BY <2>1, CountedStep DEF FloorInv, Counted
    <2>3. /\ Counted(dctx.view[s]) <= Counted(rs[s])
          /\ MustShrink(s) => dctx.view[s].replicas <= dctx.view[s].status.available
        BY <1>4 DEF FloorInv, ViewBehind
    <2> QED
        BY <1>1, <1>2, <1>4, <2>2, <2>3
<1>5. CASE DCreate \/ DSync \/ DStatus \/ DListPods \/ DScale \/ DFail
    BY <1>0, <1>5, CreateFacts, SyncFacts, StatusFacts, ListFacts, ScaleFacts DEF DFail
<1> QED
    BY <1>3, <1>4, <1>5 DEF Next, DWork, vars

\* As long as a scale-down is on its way, the statuses only improve.
LEMMA ScaleFloorStep ==
    ASSUME TypeInv, TypeInv', PauseInv, EditInv, EditedOnce, EditedOnce', FloorInv,
           [Next]_vars, [NoEviction]_vars, [NoRestart]_vars
    PROVE  ScaleKeepsFloor'
<1> SUFFICES ASSUME dctx'.pc = "scale", dctx'.rs # deploy'.structure
             PROVE  MinAvailable' <= TotalAvailableReplicas(rs') - (rs'[dctx'.rs].replicas - dctx'.n)
    BY DEF ScaleKeepsFloor
<1>1. dctx' # DIdle
    BY DEF DIdle
<1>2. ASSUME dctx' = dctx
      PROVE  /\ ~UserEdit
             /\ MinAvailable <= TotalAvailableReplicas(rs) - (rs[dctx.rs].replicas - dctx.n)
    <2>1. ~UserEdit
        BY <1>2, ScaleIsNew, FirstEdit
    <2> QED
        BY <1>2, <2>1, TargetKept DEF FloorInv, ScaleKeepsFloor
<1>3. ASSUME ~UserEdit
      PROVE  MinAvailable' = MinAvailable /\ deploy'.structure = deploy.structure
    <2>1. /\ deploy'.replicas = deploy.replicas /\ deploy'.strategy = deploy.strategy
          /\ deploy'.structure = deploy.structure
        BY <1>3, TargetKept
    <2> QED
        BY <2>1 DEF MinAvailable, Limits
<1>4. CASE DRead \/ DStatus
    <2>1. UNCHANGED rs /\ deploy'.gen = deploy.gen
        BY <1>4, StatusFacts DEF DRead, clusterVars
    <2>2. ~UserEdit
        BY <2>1, EditFacts, GenerationTypes
    <2> QED
        BY <1>3, <1>4, <2>1, <2>2, RolloutKeepsFloor DEF FloorInv
<1>5. CASE DListPods
    <2>1. /\ dctx.pc = "list" /\ dctx'.rs = dctx.cur /\ UNCHANGED deploy
          /\ rs[dctx.cur].replicas # dctx.d.replicas
        BY <1>1, <1>5, ListFacts DEF clusterVars
    <2>2. dctx.cur = dctx.d.structure /\ dctx # DIdle /\ dctx.cur \in Structures
        BY <2>1, Parts, DContextKinds DEF EditInv, RolloutDirected, ListContext, DIdle
    <2>3. dctx.d.gen # 1
        BY <2>1, <2>2 DEF EditInv, TwoSpecs, AtRest
    <2>4. SameSpec(dctx.d)
        BY <2>2, <2>3, GenerationTypes
           DEF EditInv, TwoSpecs, EditedOnce, PauseInv, GenerationsOrdered
    <2> QED
        BY <2>1, <2>2, <2>4 DEF SameSpec
<1>6. CASE DCreate \/ DSync \/ DScale \/ DFail
    BY <1>1, <1>6, CreateFacts, SyncFacts, ScaleFacts DEF DFail
<1>7. CASE ~(DRead \/ DStatus \/ DListPods \/ DCreate \/ DSync \/ DScale \/ DFail)
    <2>1. dctx' = dctx
        BY <1>7 DEF Next, DWork, vars
    <2>2. \A s \in Structures : rs'[s].replicas = rs[s].replicas /\ rs[s].replicas \in Nat
        BY <1>7, ScalesOneWay
    <2>3. TotalAvailableReplicas(rs) <= TotalAvailableReplicas(rs')
        BY <2>2, SumStep DEF FloorInv
    <2>4. PICK t \in Structures : t = dctx.rs
        BY <2>1, Parts, DContextKinds DEF ScaleContext
    <2>5. PICK n \in Nat : n = dctx.n
        BY <2>1, Parts, DContextKinds DEF ScaleContext
    <2>6. /\ MinAvailable <= TotalAvailableReplicas(rs) - (rs[t].replicas - n)
          /\ MinAvailable' = MinAvailable
        BY <1>2, <1>3, <2>1, <2>4, <2>5
    <2>7. /\ TotalAvailableReplicas(rs) \in Nat /\ TotalAvailableReplicas(rs') \in Nat
          /\ MinAvailable \in Nat
        BY Views, MinimumFacts
    <2>8. MinAvailable <= TotalAvailableReplicas(rs') - (rs'[t].replicas - n)
        BY <2>2, <2>3, <2>6, <2>7
    <2> QED
        BY <2>1, <2>4, <2>5, <2>6, <2>8
<1> QED
    BY <1>4, <1>5, <1>6, <1>7

LEMMA FloorStep ==
    ASSUME TypeInv, TypeInv', PauseInv, EditInv, EditedOnce, EditedOnce', FloorInv,
           [Next]_vars, [NoEviction]_vars, [NoRestart]_vars
    PROVE  FloorInv'
BY SeenStep, AvailableStep, ViewStep, ScaleFloorStep DEF FloorInv

\* The sum that totalAvailableReplicas reports keeps the minimum.
LEMMA ReportKept ==
    ASSUME TypeInv, TypeInv', PauseInv, EditInv, EditedOnce, EditedOnce', FloorInv,
           [Next]_vars, [NoEviction]_vars, [NoRestart]_vars,
           TotalAvailableReplicas(rs) >= MinAvailable
    PROVE  TotalAvailableReplicas(rs') >= MinAvailable
<1>1. /\ TotalAvailableReplicas(rs) \in Nat /\ TotalAvailableReplicas(rs') \in Nat
      /\ MinAvailable \in Nat /\ MinAvailable <= deploy.replicas /\ deploy.replicas \in Nat
    BY Views, MinimumFacts
<1>2. \A s \in Structures : rs[s].replicas \in Nat /\ rs'[s].replicas \in Nat
    BY Directions
<1>3. CASE \A s \in Structures : rs'[s].replicas >= rs[s].replicas
    <2>1. TotalAvailableReplicas(rs) <= TotalAvailableReplicas(rs')
        BY <1>3, SumStep DEF FloorInv
    <2> QED
        BY <1>1, <2>1
<1>4. ASSUME NEW s \in Structures, rs'[s].replicas < rs[s].replicas
      PROVE  TotalAvailableReplicas(rs') >= MinAvailable
    <2>1. /\ DScale /\ s = dctx.rs
          /\ s = deploy.structure => rs'[s].replicas = deploy.replicas
        BY <1>2, <1>4, ScalesOneWay
    <2>2. /\ dctx.pc = "scale" /\ rs'[s].replicas = dctx.n /\ rs'[s].status = rs[s].status
          /\ \A t \in Structures \ {s} : rs'[t] = rs[t]
        BY <2>1, ScaleFacts
    <2>3. rs[s].replicas <= rs[s].status.available
        BY <1>4, Directions DEF FloorInv, Available, AllReady
    <2>4. /\ rs[s].status.available \in Nat
          /\ Min2(rs[s].status.available, rs[s].replicas) = rs[s].replicas
          /\ Min2(rs'[s].status.available, rs'[s].replicas) = rs'[s].replicas
        BY <1>2, <1>4, <2>2, <2>3, ReadyTypes DEF Min2
    <2>5. /\ rs'[s].replicas <= TotalAvailableReplicas(rs')
          /\ TotalAvailableReplicas(rs') - rs'[s].replicas
               = TotalAvailableReplicas(rs) - rs[s].replicas
        <3>1. LET count(v) == Min2(v[s].status.available, v[s].replicas)
              IN  /\ count(rs') <= TotalAvailableReplicas(rs')
                  /\ TotalAvailableReplicas(rs') - count(rs')
                       = TotalAvailableReplicas(rs) - count(rs)
            BY <2>2, Views, AvailableSplit
        <3> QED
            BY <2>4, <3>1
    <2>6. CASE s = deploy.structure
        BY <1>1, <2>1, <2>5, <2>6
    <2>7. CASE s # deploy.structure
        <3>1. MinAvailable <= TotalAvailableReplicas(rs) - (rs[s].replicas - rs'[s].replicas)
            BY <2>1, <2>2, <2>7 DEF FloorInv, ScaleKeepsFloor
        <3> QED
            BY <1>1, <1>2, <2>5, <3>1
    <2> QED
        BY <2>6, <2>7
<1> QED
    BY <1>2, <1>3, <1>4

\* Available replicas that are all there are as many available Pods.
LEMMA ReportedPods ==
    ASSUME NEW ps, DOMAIN ps \subseteq PodIds, NEW view, ViewOK(view),
           \A s \in Structures :
              Min2(view[s].status.available, view[s].replicas)
                <= Cardinality({p \in DOMAIN ps : /\ ps[p].phase = "Active" /\ ps[p].owner = s
                                                  /\ ps[p].ready})
    PROVE  TotalAvailableReplicas(view)
             <= Cardinality({p \in DOMAIN ps : ps[p].phase = "Active" /\ ps[p].ready})
<1> DEFINE f == [s \in Structures |-> Min2(view[s].status.available, view[s].replicas)]
           P == {p \in DOMAIN ps : ps[p].phase = "Active" /\ ps[p].ready}
           R == [s \in Structures |->
                    {p \in DOMAIN ps : /\ ps[p].phase = "Active" /\ ps[p].owner = s
                                       /\ ps[p].ready}]
<1>1. \A s \in Structures : f[s] \in Nat /\ f[s] <= Cardinality(R[s])
    BY DEF ViewOK, Min2
<1>2. R \in [Structures -> SUBSET P] /\ \A s, t \in Structures : s # t => R[s] \cap R[t] = {}
    OBVIOUS
<1>3. IsFiniteSet(P)
    BY PodsCount
<1>4. TotalAvailableReplicas(view) = Total(f, Structures)
    BY DEF TotalAvailableReplicas
<1> HIDE DEF f, P, R
<1>5. Total(f, Structures) <= Cardinality(P)
    BY <1>1, <1>2, <1>3, TotalFits
<1> QED
    BY <1>4, <1>5 DEF P

LEMMA NoPhantom ==
    ASSUME TypeInv, FloorInv
    PROVE  NoPhantomAvailability
<1> SUFFICES ASSUME NEW s \in Structures
             PROVE  Min2(rs[s].status.available, rs[s].replicas) <= Cardinality(ReadyPods(s))
    BY DEF NoPhantomAvailability, ReadyPods
<1>1. /\ rs[s].replicas \in Nat /\ CachedReplicaSet(s).replicas \in Nat
      /\ rs[s].status.available \in Nat /\ Cardinality(ReadyPods(s)) \in Nat
    BY CountTypes, ReadyTypes
<1>2. CASE Shrinking(s) /\ AllReady(s)
    BY <1>1, <1>2 DEF Shrinking, AllReady, Min2
<1>3. CASE Growing(s) /\ NotAhead(s)
    BY <1>1, <1>3 DEF NotAhead, Min2
<1> QED
    BY <1>2, <1>3 DEF FloorInv, Available

LEMMA FloorInvariant ==
    /\ SteadySpec /\ []EditedOnce /\ [][FrozenReplicas]_vars
    /\ [][NoEviction]_vars /\ [][NoRestart]_vars
    => [](TypeInv /\ PauseInv /\ EditInv /\ FloorInv)
<1>1. /\ TypeInv /\ TypeInv' /\ PauseInv /\ EditInv /\ FloorInv /\ EditedOnce /\ EditedOnce'
      /\ [Next]_vars /\ [NoEviction]_vars /\ [NoRestart]_vars
      => FloorInv'
    BY FloorStep
<1> QED
    BY <1>1, FloorInit, EditInvariant, PTL DEF SteadySpec

\* An edit of a Deployment at rest that keeps the replica count and restarts nothing
\* in place (a new structure, another strategy, a pause): totalAvailableReplicas never counts a
\* replica that is not there, however late the status patches of the ReplicaSet
\* controller and however stale its copies of spec.replicas are.
THEOREM AvailableIsThere ==
    /\ SteadySpec /\ []EditedOnce /\ [][FrozenReplicas]_vars
    /\ [][NoEviction]_vars /\ [][NoRestart]_vars
    => []NoPhantomAvailability
<1>1. TypeInv /\ FloorInv => NoPhantomAvailability
    BY NoPhantom
<1> QED
    BY <1>1, FloorInvariant, PTL

\* Under the same hypotheses the rollout keeps both the reported and the running
\* Pods at desired - maxUnavailable once they are there, although scaleDowns decides
\* on statuses several API calls before it writes, and, when it goes on after a
\* status patch, on a newer spec than the one whose statuses it has read.
THEOREM MinimumIsKept ==
    /\ SteadySpec /\ []EditedOnce /\ [][FrozenReplicas]_vars
    /\ [][NoEviction]_vars /\ [][NoRestart]_vars
    => FloorKept
<1>1. ASSUME TypeInv, TypeInv', PauseInv, EditInv, EditedOnce, EditedOnce', FloorInv,
             NoPhantomAvailability', [Next]_vars, [NoEviction]_vars, [NoRestart]_vars,
             TotalAvailableReplicas(rs) >= MinAvailable
      PROVE  /\ TotalAvailableReplicas(rs)' >= MinAvailable
             /\ Cardinality(AvailablePods') >= MinAvailable
    <2>1. TotalAvailableReplicas(rs') >= MinAvailable
        BY <1>1, ReportKept
    <2>2. DOMAIN pods' \subseteq PodIds
        BY <1>1 DEF TypeInv, TypeOK, ClusterTypeOK
    <2>3. \A s \in Structures :
             Min2(rs'[s].status.available, rs'[s].replicas)
               <= Cardinality({p \in DOMAIN pods' : /\ pods'[p].phase = "Active"
                                                    /\ pods'[p].owner = s /\ pods'[p].ready})
        <3>1. ASSUME NEW s \in Structures
              PROVE  {p \in {q \in DOMAIN pods' : pods'[q].phase = "Active" /\ pods'[q].owner = s} :
                         pods'[p].ready}
                     = {p \in DOMAIN pods' : /\ pods'[p].phase = "Active"
                                             /\ pods'[p].owner = s /\ pods'[p].ready}
            OBVIOUS
        <3> QED
            BY <1>1, <3>1 DEF NoPhantomAvailability, ActivePods, PodsIn
    <2>4. TotalAvailableReplicas(rs')
            <= Cardinality({p \in DOMAIN pods' : pods'[p].phase = "Active" /\ pods'[p].ready})
        BY <1>1, <2>2, <2>3, Views, ReportedPods
    <2>5. AvailablePods' = {p \in DOMAIN pods' : pods'[p].phase = "Active" /\ pods'[p].ready}
        BY DEF AvailablePods, IsAvailable
    <2>6. /\ TotalAvailableReplicas(rs') \in Nat /\ MinAvailable \in Nat
          /\ Cardinality(AvailablePods') \in Nat
        BY <1>1, <2>2, <2>5, Views, MinimumFacts, PodsCount
    <2> QED
        BY <2>1, <2>4, <2>5, <2>6
<1>2. /\ TypeInv /\ TypeInv' /\ PauseInv /\ EditInv /\ EditedOnce /\ EditedOnce' /\ FloorInv
      /\ NoPhantomAvailability' /\ [Next]_vars /\ [NoEviction]_vars /\ [NoRestart]_vars
      => [/\ TotalAvailableReplicas(rs) >= MinAvailable
          /\ deploy'.gen = deploy.gen
          => /\ TotalAvailableReplicas(rs)' >= MinAvailable
             /\ Cardinality(AvailablePods') >= MinAvailable]_vars
    BY <1>1
<1>3. SteadySpec => [][Next]_vars
    BY PTL DEF SteadySpec
<1> QED
    BY <1>2, <1>3, FloorInvariant, AvailableIsThere, PTL DEF FloorKept
-----------------------------------------------------------------------------
(***************************************************************************)
(* One edit in place.                                                      *)
(*                                                                         *)
(* Structure and replica count stay, so that the edit is of the revision,  *)
(* the strategy or the pause.  The ReplicaSet then has two generations:    *)
(* 2, at rest, and 3 once the new template is synced.  A report of         *)
(* generation 3 is about the new revision, and a Pod that has reached it   *)
(* stays there.                                                            *)
(***************************************************************************)
\* The edit reaches the ReplicaSet once, by a reconcile that has read it, and
\* nothing is scaled or created.
OneSync ==
    LET now == rs[deploy.structure]
    IN  /\ now.gen \in {2, 3} /\ now.replicas = deploy.replicas
        /\ deploy.gen = 1 \/ now.gen = 3 => now.rev = deploy.rev
        /\ now.gen = 3 => dcache.gen = 2 /\ (dctx # DIdle => dctx.d.gen = 2)
        /\ dcache.rev = IF dcache.gen = deploy.gen THEN deploy.rev ELSE now.rev
        /\ dctx # DIdle =>
              dctx.d.rev = IF dctx.d.gen = deploy.gen THEN deploy.rev ELSE now.rev
        /\ dctx.pc \notin {"create", "scale"}

\* Every Pod runs a revision and is ready.
Settled(rev) == \A p \in ActivePods(deploy.structure) : ReadyAndObserved(pods[p], rev)

\* All Pods are there, and a reconcile has read all of them.
PodsWhole ==
    LET cur == deploy.structure
    IN  /\ Cardinality(ActivePods(cur)) = deploy.replicas
        /\ CachedReplicaSet(cur).replicas = deploy.replicas
        /\ rctx.pc \in {"idle", "update"}
        /\ rctx.pc = "update" => rctx.s = cur /\ DOMAIN rctx.seen = ActivePods(cur)

\* What is true of any copy of the ReplicaSet.  While one of generation 2 is left,
\* no Pod has been patched.
CopyOf(obj, now) ==
    /\ obj.gen \in {2, 3} /\ obj.gen <= now.gen
    /\ obj.gen = now.gen => obj.rev = now.rev
    /\ obj.status.gen \in {2, 3} /\ obj.status.gen <= obj.gen
    /\ obj.status.gen <= now.status.gen
    /\ obj.status.gen = 2 => obj.status.ready = deploy.replicas
    /\ obj.gen = 2 => Settled(obj.rev)

Copies ==
    LET now    == rs[deploy.structure]
        cached == CachedReplicaSet(deploy.structure)
    IN  /\ CopyOf(now, now) /\ CopyOf(cached, now)
        /\ rctx.pc = "update" => CopyOf(rctx.obj, now) /\ rctx.obj.gen <= cached.gen

\* A Pod that a reconcile has counted as ready and observed still is.
ReadingStands ==
    rctx.pc = "update" =>
        \A p \in DOMAIN rctx.seen :
            /\ rctx.obj.gen = 2 => ReadyAndObserved(rctx.seen[p], rctx.obj.rev)
            /\ ReadyAndObserved(rctx.seen[p], rctx.obj.rev)
               => ReadyAndObserved(pods[p], rctx.obj.rev)

\* A status that reports all Pods of the new generation is right.
ReportStands ==
    LET now == rs[deploy.structure]
    IN  now.status.gen = 3 /\ now.status.ready = deploy.replicas => Settled(now.rev)

SettledInv == OneSync /\ PodsWhole /\ Copies /\ ReadingStands /\ ReportStands

-----------------------------------------------------------------------------
\* Two writers of the ReplicaSet are left.
LEMMA TwoWriters ==
    ASSUME TypeInv, OneSync, [Next]_vars
    PROVE  /\ ~DCreate /\ ~DScale
           /\ rs' = rs \/ DSync \/ RPatchStatus
<1>1. ~DCreate /\ ~DScale
    BY DEF OneSync, DCreate, DScale
<1>2. CASE ClusterNext
    BY <1>1, <1>2 DEF ClusterNext, UserEdit, RefreshDeployment, RefreshReplicaSet, Kubelet,
                      KubeletRestart, KubeletReady, PodGone, Evict
<1>3. CASE DWork \/ DFail
    BY <1>1, <1>3 DEF DWork, DFail, DRead, DStatus, DListPods, clusterVars
<1>4. CASE (\E s \in Structures : RRead(s)) \/ RStep \/ RFail
    BY <1>1, <1>4 DEF RStep, RRead, RCreatePod, RDeletePod, RPatchPod, RFail, clusterVars
<1> QED
    BY <1>1, <1>2, <1>3, <1>4 DEF Next, vars

\* The generations of the edit.
LEMMA EditGenerations ==
    ASSUME TypeInv, PauseInv, TwoSpecs, EditedOnce
    PROVE  /\ deploy.gen \in {1, 2} /\ dcache.gen \in {1, 2} /\ dcache.gen <= deploy.gen
           /\ dctx # DIdle => dctx.d.gen \in {1, 2} /\ dctx.d.gen <= deploy.gen
           /\ dctx.pc = "sync" => dctx.d.gen <= dcache.gen
BY GenerationTypes DEF TwoSpecs, EditedOnce, PauseInv, GenerationsOrdered

\* syncReplicaSet leaves the template alone, or writes the one of the edit.
LEMMA SyncOnce ==
    ASSUME TypeInv, PauseInv, IdentityInv, TwoSpecs, EditedOnce, OneSync, DSync,
           NEW cur \in Structures, cur = deploy.structure
    PROVE  /\ rs'[cur].status = rs[cur].status /\ rs'[cur].replicas = rs[cur].replicas
           /\ \/ rs'[cur].gen = rs[cur].gen /\ rs'[cur].rev = rs[cur].rev
              \/ /\ rs[cur].gen = 2 /\ rs'[cur].gen = 3 /\ rs'[cur].rev = deploy.rev
                 /\ deploy.gen = 2 /\ dcache.gen = 2
<1> DEFINE rev == SyncedRevision(dctx.d, cur)
           gen == IF rev = rs[cur].rev THEN rs[cur].gen ELSE rs[cur].gen + 1
<1>1. dctx.cur = cur /\ dctx # DIdle
    BY SyncFacts DEF IdentityInv, OneTarget, DIdle
<1>2. rs' = [rs EXCEPT ![cur] = [rs[cur] EXCEPT !.rev = rev, !.par = dctx.par, !.gen = gen]]
    BY <1>1 DEF DSync
<1>3. rs[cur] \in ReplicaSet /\ rs \in [Structures -> ReplicaSet]
    BY Parts
<1>4. rev \in {rs[cur].rev, dctx.d.rev}
    BY DEF SyncedRevision
<1> HIDE DEF rev
<1>5. rs'[cur].rev = rev /\ rs'[cur].gen = gen
    BY <1>2, <1>3 DEF ReplicaSet
<1>6. rs'[cur].status = rs[cur].status /\ rs'[cur].replicas = rs[cur].replicas
    BY SyncFacts
<1>7. /\ rs[cur].gen \in {2, 3}
      /\ deploy.gen = 1 \/ rs[cur].gen = 3 => rs[cur].rev = deploy.rev
      /\ dctx.d.rev = IF dctx.d.gen = deploy.gen THEN deploy.rev ELSE rs[cur].rev
    BY <1>1 DEF OneSync
<1>8. CASE rev = rs[cur].rev
    BY <1>5, <1>6, <1>8
<1>9. CASE rev # rs[cur].rev
    <2>1. dctx.d.gen = deploy.gen /\ deploy.gen # 1 /\ rs[cur].gen = 2 /\ rev = deploy.rev
        BY <1>4, <1>7, <1>9
    <2>2. deploy.gen = 2 /\ dcache.gen = 2
        BY <1>1, <2>1, EditGenerations DEF DSync
    <2> QED
        BY <1>5, <1>6, <1>9, <2>1, <2>2
<1> QED
    BY <1>8, <1>9

\* A status patch changes nothing else, and sends a field unless it is equal to the
\* cached one.
LEMMA StatusSent ==
    ASSUME TypeInv, RPatchStatus, NEW cur \in Structures, cur = rctx.s
    PROVE  LET base == rctx.obj.status
               w    == Cardinality({p \in DOMAIN rctx.seen :
                                       ReadyAndObserved(rctx.seen[p], rctx.obj.rev)})
           IN  /\ rs'[cur].gen = rs[cur].gen /\ rs'[cur].rev = rs[cur].rev
               /\ rs'[cur].replicas = rs[cur].replicas
               /\ rs'[cur].status.gen =
                     IF base.gen = rctx.obj.gen THEN rs[cur].status.gen ELSE rctx.obj.gen
               /\ rs'[cur].status.ready =
                     IF base.ready = w THEN rs[cur].status.ready ELSE w
               /\ rctx.pc = "update" /\ rctx' = RIdle
               /\ UNCHANGED <<deploy, dcache, rscache, pods>>
<1> DEFINE calc == CalculatedStatus(rctx)
           base == rctx.obj.status
           w    == Cardinality({p \in DOMAIN rctx.seen :
                                   ReadyAndObserved(rctx.seen[p], rctx.obj.rev)})
           new  == MergePatch(base, calc, rs[cur].status)
<1>1. rs' = [rs EXCEPT ![cur] = [rs[cur] EXCEPT !.status = new]]
    BY DEF RPatchStatus
<1>2. rs[cur] \in ReplicaSet /\ rs \in [Structures -> ReplicaSet]
    BY Parts
<1>3. calc.gen = rctx.obj.gen /\ calc.ready = w
    BY DEF CalculatedStatus
<1> HIDE DEF calc, w, base
<1>4. rs[cur].status \in RSStatus
    BY <1>2 DEF ReplicaSet
<1>5. /\ new.gen = IF base.gen = calc.gen THEN rs[cur].status.gen ELSE calc.gen
      /\ new.ready = IF base.ready = calc.ready THEN rs[cur].status.ready ELSE calc.ready
    BY <1>4 DEF MergePatch, RSStatus
<1> HIDE DEF new
<1>6. /\ rs'[cur].gen = rs[cur].gen /\ rs'[cur].rev = rs[cur].rev
      /\ rs'[cur].replicas = rs[cur].replicas /\ rs'[cur].status = new
    BY <1>1, <1>2 DEF ReplicaSet
<1> QED
    BY <1>3, <1>5, <1>6 DEF RPatchStatus, w, base

\* A Pod that runs a revision and is ready stays so, unless it is patched to another one.
LEMMA ServingStep ==
    ASSUME TypeInv, [Next]_vars, [NoEviction]_vars, ~RCreatePod, ~RDeletePod,
           NEW p \in DOMAIN pods, pods[p].phase = "Active",
           NEW rev, ReadyAndObserved(pods[p], rev), ~RPatchPod \/ rev = rctx.obj.rev
    PROVE  p \in DOMAIN pods' /\ ReadyAndObserved(pods'[p], rev)
<1>1. pods[p] \in Pod
    BY DEF TypeInv, TypeOK, ClusterTypeOK
<1>2. CASE pods' = pods
    BY <1>2
<1>3. ASSUME NEW q \in DOMAIN pods, KubeletRestart(q) \/ KubeletReady(q) \/ PodGone(q)
      PROVE  p \in DOMAIN pods' /\ ReadyAndObserved(pods'[p], rev)
    <2>1. CASE q = p
        BY <1>1, <1>3, <2>1
           DEF KubeletRestart, KubeletReady, PodGone, ReadyAndObserved, SpecMatches, Pod
    <2>2. CASE q # p
        BY <1>3, <2>2 DEF KubeletRestart, KubeletReady, PodGone
    <2> QED
        BY <2>1, <2>2
<1>4. CASE RPatchPod
    <2>1. PICK q : \/ q \in DOMAIN pods /\ pods' = [pods EXCEPT ![q].rev = rctx.obj.rev]
                   \/ UNCHANGED pods
        BY <1>4 DEF RPatchPod
    <2>2. CASE q = p
        BY <1>1, <1>4, <2>1, <2>2 DEF ReadyAndObserved, SpecMatches, Pod
    <2>3. CASE q # p
        BY <2>1, <2>3
    <2> QED
        BY <2>2, <2>3
<1>5. CASE DWork \/ DFail
    <2>1. pods' = pods
        <3>1. CASE DRead \/ DListPods \/ DFail
            BY <3>1 DEF DRead, DListPods, DFail, clusterVars
        <3> QED
            BY <1>5, <3>1, CreateFacts, SyncFacts, StatusFacts, ScaleFacts DEF DWork
    <2> QED
        BY <1>2, <2>1
<1>6. CASE (\E t \in Structures : RRead(t)) \/ RPatchStatus \/ RFail \/ UNCHANGED vars
    BY <1>2, <1>6 DEF RRead, RPatchStatus, RFail, clusterVars, vars
<1>7. CASE ClusterNext
    <2>1. CASE UserEdit \/ RefreshDeployment \/ \E t \in Lagging : RefreshReplicaSet(t)
        BY <1>2, <2>1 DEF UserEdit, RefreshDeployment, RefreshReplicaSet
    <2>2. CASE \E q \in DOMAIN pods : Evict(q)
        BY <1>2, <2>2 DEF NoEviction, vars
    <2> QED
        BY <1>3, <1>7, <2>1, <2>2 DEF ClusterNext, Kubelet
<1> QED
    BY <1>4, <1>5, <1>6, <1>7 DEF Next, RStep

\* A reconcile reads the one ReplicaSet and finds as many Pods as it wants.
LEMMA WholeRead ==
    ASSUME TypeInv, IdentityInv, PodsWhole, NEW s \in Structures, RRead(s)
    PROVE  /\ s = deploy.structure /\ UNCHANGED clusterVars
           /\ rctx'.pc = "update" /\ rctx'.s = s /\ rctx'.obj = CachedReplicaSet(s)
           /\ DOMAIN rctx'.seen = ActivePods(s)
           /\ \A p \in ActivePods(s) : rctx'.seen[p] = pods[p]
<1> DEFINE obj   == CachedReplicaSet(s)
           count == Cardinality(ActivePods(s))
<1>1. s = deploy.structure
    BY DEF RRead, IdentityInv, AllOrNothing
<1>2. count = obj.replicas /\ count \in Nat
    BY <1>1, CountTypes DEF PodsWhole
<1>3. /\ UNCHANGED clusterVars
      /\ \/ count < obj.replicas
         \/ count > obj.replicas
         \/ /\ rctx'.pc = "update" /\ rctx'.s = s /\ rctx'.obj = obj
            /\ rctx'.seen = [p \in ActivePods(s) |-> pods[p]]
    BY DEF RRead
<1>4. /\ rctx'.pc = "update" /\ rctx'.s = s /\ rctx'.obj = obj
      /\ rctx'.seen = [p \in ActivePods(s) |-> pods[p]]
    BY <1>2, <1>3
<1> QED
    BY <1>1, <1>3, <1>4

\* A patch keeps what the reconcile has read, but for the API server's answer.
LEMMA AnswerFacts ==
    ASSUME TypeInv, RPatchPod
    PROVE  /\ rctx.pc = "update" /\ Outdated(rctx) # {}
           /\ rctx'.pc = "update" =>
                 /\ rctx'.s = rctx.s /\ rctx'.obj = rctx.obj
                 /\ DOMAIN rctx'.seen = DOMAIN rctx.seen
                 /\ \A q \in DOMAIN rctx.seen : rctx'.seen[q] \in {rctx.seen[q], pods'[q]}
<1>1. /\ rctx.pc = "update"
      /\ rctx \in [pc: {"update"}, s: Structures, obj: ReplicaSet,
                   seen: UNION {[D -> Pod] : D \in SUBSET PodIds},
                   terminating: Nat, inFlight: Nat]
    BY Parts, RContextKinds DEF RPatchPod
<1>2. PICK p \in PatchCandidates(rctx) :
         \/ rctx' = [rctx EXCEPT !.seen = [rctx.seen EXCEPT ![p] = pods'[p]],
                                 !.inFlight = rctx.inFlight + 1]
         \/ rctx' = RIdle
    BY <1>1 DEF RPatchPod
<1>3. p \in Outdated(rctx) /\ p \in DOMAIN rctx.seen
    BY DEF PatchCandidates, Outdated
<1> DEFINE answered == [rctx.seen EXCEPT ![p] = pods'[p]]
<1>4. /\ DOMAIN answered = DOMAIN rctx.seen
      /\ \A q \in DOMAIN rctx.seen : answered[q] \in {rctx.seen[q], pods'[q]}
    BY <1>1, <1>3
<1>5. \/ rctx' = [rctx EXCEPT !.seen = answered, !.inFlight = rctx.inFlight + 1]
      \/ rctx' = RIdle
    BY <1>2
<1> HIDE DEF answered
<1>6. ASSUME rctx' = [rctx EXCEPT !.seen = answered, !.inFlight = rctx.inFlight + 1]
      PROVE  rctx'.s = rctx.s /\ rctx'.obj = rctx.obj /\ rctx'.seen = answered
    BY <1>1, <1>6
<1> QED
    BY <1>1, <1>3, <1>4, <1>5, <1>6 DEF RIdle

\* Where the reconcile goes from here.
LEMMA WholeContext ==
    ASSUME TypeInv, IdentityInv, PodsWhole, [Next]_vars
    PROVE  /\ ~RCreatePod /\ ~RDeletePod
           /\ \/ \E s \in Structures : RRead(s)
              \/ rctx' = rctx
              \/ rctx'.pc = "idle"
              \/ RPatchPod /\ rctx'.pc = "update"
<1>1. ~RCreatePod /\ ~RDeletePod
    BY DEF RCreatePod, RDeletePod, PodsWhole
<1> QED
    BY <1>1, ReconcileFacts

\* Only a reconcile that has read the new template patches Pods, and then no older
\* copy is left.
LEMMA PatchIsNew ==
    ASSUME TypeInv, PodsWhole, Copies, ReadingStands, RPatchPod
    PROVE  /\ rctx.pc = "update" /\ rctx.obj.gen = 3
           /\ CachedReplicaSet(deploy.structure).gen = 3
           /\ rs[deploy.structure].gen = 3 /\ rctx.obj.rev = rs[deploy.structure].rev
<1>1. rctx.pc = "update" /\ Outdated(rctx) # {}
    BY AnswerFacts
<1>2. rctx.obj.gen # 2
    BY <1>1 DEF ReadingStands, Outdated, ReadyAndObserved
<1> DEFINE now    == rs[deploy.structure]
           cached == CachedReplicaSet(deploy.structure)
<1>3. /\ rctx.obj.gen \in {2, 3} /\ rctx.obj.gen <= now.gen /\ rctx.obj.gen <= cached.gen
      /\ rctx.obj.gen = now.gen => rctx.obj.rev = now.rev
      /\ now.gen \in {2, 3} /\ cached.gen \in {2, 3}
    BY <1>1 DEF Copies, CopyOf
<1> HIDE DEF now, cached
<1>4. rctx.obj.gen = 3 /\ now.gen = 3 /\ cached.gen = 3
    BY <1>2, <1>3
<1> QED
    BY <1>1, <1>3, <1>4 DEF now, cached

\* Pods that have all settled stay so.
LEMMA SettledKept ==
    ASSUME TypeInv, IdentityInv, PodsWhole, [Next]_vars, [Frozen]_vars, [NoEviction]_vars,
           NEW rev, Settled(rev), ~RPatchPod \/ rev = rctx.obj.rev
    PROVE  Settled(rev)'
<1>1. PICK cur \in Structures : cur = deploy.structure /\ cur = deploy'.structure
    BY Parts, Untouched DEF Deployment
<1>2. ~RCreatePod /\ ~RDeletePod
    BY WholeContext
<1>3. ActivePods(cur)' = ActivePods(cur)
    BY <1>2, ActiveKept
<1>4. ASSUME NEW p \in ActivePods(cur)
      PROVE  ReadyAndObserved(pods'[p], rev)
    <2>1. p \in DOMAIN pods /\ pods[p].phase = "Active" /\ ReadyAndObserved(pods[p], rev)
        BY <1>1, <1>4 DEF Settled, ActivePods, PodsIn
    <2> QED
        BY <1>2, <2>1, ServingStep
<1>5. \A p \in ActivePods(cur)' : ReadyAndObserved(pods'[p], rev)
    BY <1>3, <1>4
<1> QED
    BY <1>1, <1>5 DEF Settled, ReadyAndObserved, SpecMatches

\* A count of all Pods as ready and observed is right.
LEMMA CountedAll ==
    ASSUME TypeInv, PodsWhole, rctx.pc = "update"
    PROVE  LET serving == {p \in DOMAIN rctx.seen :
                              ReadyAndObserved(rctx.seen[p], rctx.obj.rev)}
           IN  Cardinality(serving) = deploy.replicas <=> serving = DOMAIN rctx.seen
<1> DEFINE serving == {p \in DOMAIN rctx.seen : ReadyAndObserved(rctx.seen[p], rctx.obj.rev)}
<1>1. deploy.structure \in Structures
    BY Parts DEF Deployment
<1>2. IsFiniteSet(DOMAIN rctx.seen) /\ Cardinality(DOMAIN rctx.seen) = deploy.replicas
    BY <1>1, CountTypes DEF PodsWhole
<1>3. serving \in SUBSET (DOMAIN rctx.seen)
    OBVIOUS
<1> HIDE DEF serving
<1>4. Cardinality(serving) = deploy.replicas <=> serving = DOMAIN rctx.seen
    BY <1>2, <1>3, FS_Subset
<1> QED
    BY <1>4 DEF serving

-----------------------------------------------------------------------------
\* How the ReplicaSet moves on.
LEMMA NowStep ==
    ASSUME TypeInv, PauseInv, IdentityInv, TwoSpecs, EditedOnce, SettledInv, [Next]_vars,
           NEW cur \in Structures, cur = deploy.structure
    PROVE  /\ rs[cur].gen <= rs'[cur].gen /\ rs'[cur].gen \in {2, 3}
           /\ rs'[cur].gen = rs[cur].gen => rs'[cur].rev = rs[cur].rev
           /\ rs'[cur].gen # rs[cur].gen => DSync
           /\ rs[cur].status.gen <= rs'[cur].status.gen
           /\ rs'[cur].status.gen \in {2, 3} /\ rs'[cur].status.gen <= rs'[cur].gen
           /\ rs'[cur].status.gen = 2 => rs'[cur].status.ready = deploy.replicas
<1> USE DEF SettledInv
<1>1. /\ rs[cur].gen \in {2, 3}
      /\ rs[cur].status.gen \in {2, 3} /\ rs[cur].status.gen <= rs[cur].gen
      /\ rs[cur].status.gen = 2 => rs[cur].status.ready = deploy.replicas
    BY DEF Copies, CopyOf
<1>2. CASE rs' = rs
    BY <1>1, <1>2
<1>3. CASE DSync
    <2>1. /\ rs'[cur].status = rs[cur].status
          /\ \/ rs'[cur].gen = rs[cur].gen /\ rs'[cur].rev = rs[cur].rev
             \/ rs[cur].gen = 2 /\ rs'[cur].gen = 3
        BY <1>3, SyncOnce
    <2> QED
        BY <1>1, <1>3, <2>1
<1>4. CASE RPatchStatus
    <2> DEFINE base    == rctx.obj.status
               serving == {p \in DOMAIN rctx.seen :
                              ReadyAndObserved(rctx.seen[p], rctx.obj.rev)}
               w       == Cardinality(serving)
    <2>1. rctx.pc = "update" /\ rctx.s = cur
        BY <1>4 DEF RPatchStatus, PodsWhole
    <2>2. /\ rs'[cur].gen = rs[cur].gen /\ rs'[cur].rev = rs[cur].rev
          /\ rs'[cur].status.gen =
                IF base.gen = rctx.obj.gen THEN rs[cur].status.gen ELSE rctx.obj.gen
          /\ rs'[cur].status.ready = IF base.ready = w THEN rs[cur].status.ready ELSE w
        BY <1>4, <2>1, StatusSent
    <2>3. /\ rctx.obj.gen \in {2, 3} /\ rctx.obj.gen <= rs[cur].gen
          /\ base.gen \in {2, 3} /\ base.gen <= rctx.obj.gen /\ base.gen <= rs[cur].status.gen
          /\ base.gen = 2 => base.ready = deploy.replicas
        BY <2>1 DEF Copies, CopyOf
    <2>4. w = deploy.replicas <=> serving = DOMAIN rctx.seen
        BY <2>1, CountedAll
    <2>5. rctx.obj.gen = 2 => serving = DOMAIN rctx.seen
        BY <2>1 DEF ReadingStands
    <2> HIDE DEF base, w, serving
    <2> QED
        BY <1>1, <2>2, <2>3, <2>4, <2>5
<1> QED
    BY <1>2, <1>3, <1>4, TwoWriters

LEMMA SyncStep ==
    ASSUME TypeInv, PauseInv, IdentityInv, TwoSpecs, TwoSpecs', EditedOnce, EditedOnce',
           SettledInv, [Next]_vars, [Frozen]_vars
    PROVE  OneSync'
<1>0. DIdle.pc = "idle"
    BY DEF DIdle
<1>1. PICK cur \in Structures :
         /\ cur = deploy.structure /\ cur = deploy'.structure
         /\ deploy'.replicas = deploy.replicas
    BY Parts, Untouched DEF Deployment
<1>2. /\ rs[cur].gen \in {2, 3} /\ rs[cur].replicas = deploy.replicas
      /\ deploy.gen = 1 \/ rs[cur].gen = 3 => rs[cur].rev = deploy.rev
      /\ rs[cur].gen = 3 => dcache.gen = 2 /\ (dctx # DIdle => dctx.d.gen = 2)
      /\ dcache.rev = IF dcache.gen = deploy.gen THEN deploy.rev ELSE rs[cur].rev
      /\ dctx # DIdle =>
            dctx.d.rev = IF dctx.d.gen = deploy.gen THEN deploy.rev ELSE rs[cur].rev
      /\ dctx.pc \notin {"create", "scale"}
    BY <1>1 DEF SettledInv, OneSync
<1> DEFINE Goal ==
             /\ rs'[cur].gen \in {2, 3}
             /\ deploy'.gen = 1 \/ rs'[cur].gen = 3 => rs'[cur].rev = deploy'.rev
             /\ rs'[cur].gen = 3 => dcache'.gen = 2 /\ (dctx' # DIdle => dctx'.d.gen = 2)
             /\ dcache'.rev = IF dcache'.gen = deploy'.gen THEN deploy'.rev ELSE rs'[cur].rev
             /\ dctx' # DIdle =>
                   dctx'.d.rev = IF dctx'.d.gen = deploy'.gen THEN deploy'.rev ELSE rs'[cur].rev
             /\ dctx'.pc \notin {"create", "scale"}
<1>3. rs'[cur].replicas = deploy.replicas
    BY <1>1, <1>2, SetOnce
<1>4. SUFFICES Goal
    BY <1>1, <1>3 DEF OneSync
<1>5. /\ deploy.gen \in {1, 2} /\ dcache.gen \in {1, 2} /\ dcache.gen <= deploy.gen
      /\ dctx # DIdle => dctx.d.gen \in {1, 2} /\ dctx.d.gen <= deploy.gen
    BY EditGenerations DEF SettledInv
<1>6. ASSUME rs'[cur].gen = rs[cur].gen, rs'[cur].rev = rs[cur].rev, UNCHANGED <<deploy, dcache>>,
             dctx' \in {dctx, DIdle}
      PROVE  Goal
    BY <1>0, <1>2, <1>6
<1>7. CASE rs' = rs /\ UNCHANGED <<deploy, dcache, dctx>>
    BY <1>6, <1>7
<1>8. CASE DSync
    <2>1. UNCHANGED <<deploy, dcache>> /\ dctx' = DIdle
        BY <1>8, SyncFacts
    <2>2. \/ rs'[cur].gen = rs[cur].gen /\ rs'[cur].rev = rs[cur].rev
          \/ /\ rs[cur].gen = 2 /\ rs'[cur].gen = 3 /\ rs'[cur].rev = deploy.rev
             /\ deploy.gen = 2 /\ dcache.gen = 2
        BY <1>1, <1>8, SyncOnce DEF SettledInv
    <2>3. CASE /\ rs[cur].gen = 2 /\ rs'[cur].gen = 3 /\ rs'[cur].rev = deploy.rev
               /\ deploy.gen = 2 /\ dcache.gen = 2
        BY <1>0, <1>2, <2>1, <2>3
    <2> QED
        BY <1>6, <2>1, <2>2, <2>3
<1>9. CASE RPatchStatus /\ UNCHANGED dctx
    <2>1. rctx.s = cur /\ rs'[cur].gen = rs[cur].gen /\ rs'[cur].rev = rs[cur].rev
          /\ UNCHANGED <<deploy, dcache>>
        BY <1>1, <1>9, StatusSent DEF RPatchStatus, SettledInv, PodsWhole
    <2> QED
        BY <1>6, <1>9, <2>1
<1>10. CASE DFail
    BY <1>6, <1>10 DEF DFail
<1>11. ASSUME NEW view \in [Structures -> ReplicaSet], SpecStands(view), NEW d \in Deployment,
             d.replicas = deploy.replicas, dctx' \in RolloutChoices(d, cur, view)
      PROVE  dctx'.pc # "scale"
    <2>1. \A s \in Structures \ {cur} : rs[s].replicas = 0
        BY <1>1 DEF IdentityInv, AllOrNothing
    <2> QED
        BY <1>2, <1>11, <2>1, RestScale
<1>12. CASE DRead
    <2>1. rs' = rs /\ UNCHANGED <<deploy, dcache>>
        BY <1>12, ReadFacts DEF clusterVars
    <2>2. dcache.structure = cur /\ dcache.replicas = deploy.replicas
        BY <1>1 DEF IdentityInv, OneTarget, SameTarget
    <2>3. CurrentChoices(dcache) = {cur}
        BY <1>2, <2>2 DEF CurrentChoices, Existing
    <2>4. CASE dctx' = DIdle
        BY <1>6, <2>1, <2>4
    <2>5. CASE dctx' # DIdle
        <3>1. /\ dctx'.d = dcache /\ dctx'.pc # "create"
              /\ dctx'.pc = "scale" => dctx' \in RolloutChoices(dcache, cur, rs)
            BY <1>12, <2>3, <2>5, ReadFacts
        <3>2. dctx'.pc # "scale"
            BY <1>11, <2>2, <3>1, StoreStands, Parts
        <3> QED
            BY <1>2, <1>5, <2>1, <3>1, <3>2
    <2> QED
        BY <2>4, <2>5
<1>13. CASE DStatus
    <2>1. /\ rs' = rs /\ deploy'.gen = deploy.gen /\ deploy'.rev = deploy.rev
          /\ dcache' \in {dcache, deploy'}
        BY <1>13, StatusFacts
    <2>2. dctx.cur = cur
        BY <1>1, <1>13, StatusFacts DEF IdentityInv, OneTarget
    <2>3. /\ dctx'.pc \notin {"create", "scale"}
          /\ dctx' # DIdle => dctx'.d.gen = deploy.gen /\ dctx'.d.rev = deploy.rev
        <3>1. CASE dctx' = DIdle
            BY <1>0, <3>1
        <3>2. CASE dctx' # DIdle
            <4>1. /\ dctx'.pc \in {"list", "scale"} /\ dctx'.d \in Deployment
                  /\ dctx'.d.gen = deploy.gen /\ dctx'.d.rev = deploy.rev
                  /\ dctx'.d.replicas = deploy.replicas
                  /\ dctx.view \in [Structures -> ReplicaSet] /\ SpecStands(dctx.view)
                  /\ dctx' \in RolloutChoices(dctx'.d, cur, dctx.view)
                BY <1>13, <2>2, <3>2, StatusFacts
            <4> QED
                BY <1>11, <4>1
        <3> QED
            BY <3>1, <3>2
    <2>4. dcache' = deploy' => (rs[cur].gen = 3 => dcache'.gen = 2)
        BY <1>2, <1>5, <2>1
    <2> QED
        BY <1>2, <1>5, <2>1, <2>3, <2>4
<1>14. CASE DListPods
    <2>1. rs' = rs /\ UNCHANGED <<deploy, dcache>>
        BY <1>14, ListFacts DEF clusterVars
    <2>2. dctx # DIdle /\ dctx.cur = cur /\ dctx.d.replicas = deploy.replicas
        BY <1>0, <1>1, <1>14, ListFacts DEF IdentityInv, OneTarget, SameTarget
    <2>3. dctx' = DIdle
        BY <1>2, <1>14, <2>2, ListFacts
    <2> QED
        BY <1>6, <2>1, <2>3
<1>15. CASE ClusterNext /\ UNCHANGED dctx
    <2>1. rs' = rs
        BY <1>15, TwoWriters DEF ClusterNext, UserEdit, RefreshDeployment, RefreshReplicaSet,
                   Kubelet, KubeletRestart, KubeletReady, PodGone, Evict
    <2>2. CASE UserEdit
        <3>1. deploy.gen = 1 /\ deploy'.gen = 2 /\ dcache' \in {dcache, deploy'}
            BY <1>5, <2>2, EditFacts DEF EditedOnce
        <3>2. rs[cur].rev = deploy.rev /\ rs[cur].gen = 2
            BY <1>2, <1>5, <3>1
        <3> QED
            BY <1>2, <1>5, <1>15, <2>1, <3>1, <3>2
    <2>3. CASE RefreshDeployment
        <3>1. deploy' = deploy /\ dcache' = deploy
            BY <2>3 DEF RefreshDeployment
        <3> QED
            BY <1>2, <1>5, <1>15, <2>1, <3>1
    <2>4. CASE UNCHANGED <<deploy, dcache>>
        BY <1>7, <1>15, <2>1, <2>4
    <2> QED
        BY <1>15, <2>2, <2>3, <2>4, ClusterFacts
<1>16. CASE ((\E s \in Structures : RRead(s)) \/ RStep \/ RFail) /\ UNCHANGED dctx
    <2>1. UNCHANGED <<deploy, dcache>>
        BY <1>16, ReconcileKeeps
    <2>2. rs' = rs \/ RPatchStatus
        BY <1>16 DEF RStep, RRead, RCreatePod, RDeletePod, RPatchPod, RFail, clusterVars
    <2> QED
        BY <1>7, <1>9, <1>16, <2>1, <2>2
<1>17. CASE UNCHANGED vars
    BY <1>7, <1>17 DEF vars
<1> QED
    BY <1>8, <1>10, <1>12, <1>14, <1>15, <1>16, <1>17, <1>13, TwoWriters
       DEF Next, DWork, SettledInv

LEMMA WholeStep ==
    ASSUME TypeInv, PauseInv, IdentityInv, PodsWhole, [Next]_vars, [Frozen]_vars, [NoEviction]_vars
    PROVE  PodsWhole'
<1>1. PICK cur \in Structures :
         /\ cur = deploy.structure /\ cur = deploy'.structure
         /\ deploy'.replicas = deploy.replicas
    BY Parts, Untouched DEF Deployment
<1>2. ~RCreatePod /\ ~RDeletePod
    BY WholeContext
<1>3. ActivePods(cur)' = ActivePods(cur)
    BY <1>2, ActiveKept
<1>4. CachedReplicaSet(cur)'.replicas = deploy.replicas
    BY <1>1, ReplicasStep DEF PodsWhole, CachedReplicaSet
<1>5. /\ rctx'.pc \in {"idle", "update"}
      /\ rctx'.pc = "update" => rctx'.s = cur /\ DOMAIN rctx'.seen = ActivePods(cur)
    <2>1. CASE \E s \in Structures : RRead(s)
        BY <1>1, <2>1, WholeRead
    <2>2. CASE RPatchPod /\ rctx'.pc = "update"
        BY <1>1, <2>2, AnswerFacts DEF PodsWhole
    <2>3. CASE rctx' = rctx \/ rctx'.pc = "idle"
        BY <1>1, <2>3 DEF PodsWhole
    <2> QED
        BY <2>1, <2>2, <2>3, WholeContext
<1>6. Cardinality(ActivePods(cur)) = deploy.replicas
    BY <1>1 DEF PodsWhole
<1> QED
    BY <1>1, <1>3, <1>4, <1>5, <1>6 DEF PodsWhole, CachedReplicaSet, ActivePods, PodsIn

\* A copy stays one when the ReplicaSet and the Pods move on.
LEMMA CopyKept ==
    ASSUME deploy'.replicas = deploy.replicas, NEW obj, NEW now, NEW next,
           CopyOf(obj, now), now.gen \in {2, 3}, now.status.gen \in {2, 3},
           next.gen \in {2, 3}, next.status.gen \in {2, 3},
           now.gen <= next.gen, now.gen = next.gen => now.rev = next.rev,
           now.status.gen <= next.status.gen,
           obj.gen = 2 => Settled(obj.rev)'
    PROVE  CopyOf(obj, next)'
<1>1. /\ obj.gen \in {2, 3} /\ obj.gen <= next.gen
      /\ obj.gen = next.gen => obj.rev = next.rev
    BY DEF CopyOf
<1>2. obj.status.gen \in {2, 3} /\ obj.status.gen <= obj.gen /\ obj.status.gen <= next.status.gen
    BY DEF CopyOf
<1>3. obj.status.gen = 2 => obj.status.ready = deploy'.replicas
    BY DEF CopyOf
<1> QED
    BY <1>1, <1>2, <1>3 DEF CopyOf

LEMMA CopiesStep ==
    ASSUME TypeInv, PauseInv, IdentityInv, TwoSpecs, EditedOnce, SettledInv,
           [Next]_vars, [Frozen]_vars, [NoEviction]_vars
    PROVE  Copies'
<1> USE DEF SettledInv
<1>1. PICK cur \in Structures :
         /\ cur = deploy.structure /\ cur = deploy'.structure
         /\ deploy'.replicas = deploy.replicas
    BY Parts, Untouched DEF Deployment
<1>2. PICK now, next, old, new : /\ now = rs[cur] /\ next = rs'[cur]
                                 /\ old = CachedReplicaSet(cur) /\ new = CachedReplicaSet(cur)'
    OBVIOUS
<1>3. /\ now.gen <= next.gen /\ next.gen \in {2, 3}
      /\ next.gen = now.gen => next.rev = now.rev
      /\ next.gen # now.gen => DSync
      /\ now.status.gen <= next.status.gen
      /\ next.status.gen \in {2, 3} /\ next.status.gen <= next.gen
      /\ next.status.gen = 2 => next.status.ready = deploy.replicas
    BY <1>1, <1>2, NowStep
<1>4. CopyOf(now, now) /\ CopyOf(old, now)
    BY <1>1, <1>2 DEF Copies
<1>5. now.gen \in {2, 3} /\ now.status.gen \in {2, 3} /\ old.gen \in {2, 3} /\ old.gen <= now.gen
    BY <1>4 DEF CopyOf
<1>6. RPatchPod => old.gen = 3 /\ now.gen = 3 /\ rctx.obj.gen = 3
    BY <1>1, <1>2, PatchIsNew
<1>7. ASSUME NEW obj, CopyOf(obj, now), RPatchPod => obj.gen = 3
      PROVE  CopyOf(obj, next)'
    <2>1. obj.gen = 2 => Settled(obj.rev)'
        <3> SUFFICES ASSUME obj.gen = 2 PROVE Settled(obj.rev)'
            OBVIOUS
        <3>1. Settled(obj.rev) /\ ~RPatchPod
            BY <1>7 DEF CopyOf
        <3>2. PICK rev : rev = obj.rev
            OBVIOUS
        <3>3. Settled(rev)'
            BY <3>1, <3>2, SettledKept
        <3> QED
            BY <3>2, <3>3
    <2> QED
        BY <1>1, <1>3, <1>5, <1>7, <2>1, CopyKept
<1>8. CopyOf(next, next)'
    <2>1. next.gen = 2 => Settled(next.rev)'
        <3> SUFFICES ASSUME next.gen = 2 PROVE Settled(next.rev)'
            OBVIOUS
        <3>1. now.gen = 2 /\ next.rev = now.rev /\ ~RPatchPod
            BY <1>3, <1>5, <1>6
        <3>2. Settled(now.rev)
            BY <1>4, <3>1 DEF CopyOf
        <3>3. PICK rev : rev = now.rev
            OBVIOUS
        <3>4. Settled(rev)'
            BY <3>1, <3>2, <3>3, SettledKept
        <3> QED
            BY <3>1, <3>3, <3>4
    <2> QED
        BY <1>1, <1>3, <2>1 DEF CopyOf
<1>9. CopyOf(old, next)'
    BY <1>4, <1>6, <1>7
<1>10. new \in {old, next}
    BY <1>2, CacheFacts
<1>11. CopyOf(new, next)' /\ old.gen <= new.gen
    BY <1>3, <1>5, <1>8, <1>9, <1>10
<1>12. ASSUME rctx'.pc = "update"
       PROVE  \E obj : obj = rctx'.obj /\ CopyOf(obj, next)' /\ obj.gen <= new.gen
    <2>1. CASE \E s \in Structures : RRead(s)
        <3>1. rctx'.obj = old /\ new = old
            BY <1>1, <1>2, <2>1, WholeRead DEF CachedReplicaSet, clusterVars
        <3> QED
            BY <1>9, <1>11, <3>1
    <2>2. CASE rctx' = rctx \/ (RPatchPod /\ rctx'.pc = "update")
        <3>1. rctx.pc = "update" /\ rctx'.obj = rctx.obj
            BY <1>12, <2>2, AnswerFacts
        <3>2. PICK obj : obj = rctx.obj
            OBVIOUS
        <3>3. CopyOf(obj, now) /\ obj.gen <= old.gen
            BY <1>1, <1>2, <3>1, <3>2 DEF Copies
        <3>4. CopyOf(obj, next)'
            BY <1>6, <1>7, <3>2, <3>3
        <3>5. obj.gen <= new.gen
            BY <1>3, <1>5, <1>10, <3>3 DEF CopyOf
        <3> QED
            BY <3>1, <3>2, <3>4, <3>5
    <2> QED
        BY <1>12, <2>1, <2>2, WholeContext
<1> QED
    BY <1>1, <1>2, <1>8, <1>11, <1>12 DEF Copies, CachedReplicaSet, CopyOf, Settled

LEMMA ReadingStep ==
    ASSUME TypeInv, IdentityInv, SettledInv, [Next]_vars, [Frozen]_vars, [NoEviction]_vars
    PROVE  ReadingStands'
<1> USE DEF SettledInv
<1> SUFFICES ASSUME rctx'.pc = "update", NEW p \in DOMAIN rctx'.seen
             PROVE  /\ rctx'.obj.gen = 2 => ReadyAndObserved(rctx'.seen[p], rctx'.obj.rev)
                    /\ ReadyAndObserved(rctx'.seen[p], rctx'.obj.rev)
                       => ReadyAndObserved(pods'[p], rctx'.obj.rev)
    BY DEF ReadingStands, ReadyAndObserved, SpecMatches
<1>1. CASE \E s \in Structures : RRead(s)
    <2> DEFINE cur == deploy.structure
    <2>1. /\ rctx'.obj = CachedReplicaSet(cur) /\ pods' = pods
          /\ p \in ActivePods(cur) /\ rctx'.seen[p] = pods[p]
        BY <1>1, WholeRead DEF clusterVars
    <2>2. CachedReplicaSet(cur).gen = 2
          => ReadyAndObserved(pods[p], CachedReplicaSet(cur).rev)
        BY <2>1 DEF Copies, CopyOf, Settled
    <2> QED
        BY <2>1, <2>2
<1>2. CASE rctx' = rctx \/ (RPatchPod /\ rctx'.pc = "update")
    <2>1. /\ rctx.pc = "update" /\ rctx'.obj = rctx.obj /\ p \in DOMAIN rctx.seen
          /\ rctx'.seen[p] \in {rctx.seen[p], pods'[p]}
        BY <1>2, AnswerFacts
    <2>2. p \in DOMAIN pods /\ pods[p].phase = "Active"
        BY <2>1 DEF PodsWhole, ActivePods, PodsIn
    <2>3. PICK rev : rev = rctx.obj.rev
        OBVIOUS
    <2>4. ReadyAndObserved(pods[p], rev) => ReadyAndObserved(pods'[p], rev)
        BY <2>2, <2>3, ServingStep, WholeContext
    <2>5. /\ rctx.obj.gen = 2 => ReadyAndObserved(rctx.seen[p], rev)
          /\ ReadyAndObserved(rctx.seen[p], rev) => ReadyAndObserved(pods[p], rev)
        BY <2>1, <2>3 DEF ReadingStands
    <2> QED
        BY <2>1, <2>3, <2>4, <2>5
<1> QED
    BY <1>1, <1>2, WholeContext

LEMMA ReportStep ==
    ASSUME TypeInv, PauseInv, IdentityInv, TwoSpecs, EditedOnce, SettledInv,
           [Next]_vars, [Frozen]_vars, [NoEviction]_vars
    PROVE  ReportStands'
<1> USE DEF SettledInv
<1>1. PICK cur \in Structures :
         /\ cur = deploy.structure /\ cur = deploy'.structure
         /\ deploy'.replicas = deploy.replicas
    BY Parts, Untouched DEF Deployment
<1>2. SUFFICES ASSUME rs'[cur].status.gen = 3, rs'[cur].status.ready = deploy.replicas
               PROVE  \E rev : rev = rs'[cur].rev /\ Settled(rev)'
    BY <1>1 DEF ReportStands, Settled
<1>3. /\ rs[cur].gen \in {2, 3} /\ rs[cur].status.gen \in {2, 3}
      /\ rs[cur].status.gen <= rs[cur].gen
    BY <1>1 DEF Copies, CopyOf
<1>4. ASSUME rs[cur].status.gen = 3, rs[cur].status.ready = deploy.replicas,
             rs'[cur].rev = rs[cur].rev
      PROVE  \E rev : rev = rs'[cur].rev /\ Settled(rev)'
    <2>1. PICK rev : rev = rs[cur].rev
        OBVIOUS
    <2>2. Settled(rev)
        BY <1>1, <1>4, <2>1 DEF ReportStands
    <2>3. ~RPatchPod \/ rev = rctx.obj.rev
        BY <1>1, <2>1, PatchIsNew
    <2>4. Settled(rev)'
        BY <2>2, <2>3, SettledKept
    <2> QED
        BY <1>4, <2>1, <2>4
<1>5. CASE rs' = rs
    BY <1>2, <1>4, <1>5
<1>6. CASE DSync
    <2>1. /\ rs'[cur].status = rs[cur].status
          /\ rs'[cur].rev = rs[cur].rev \/ rs[cur].gen = 2
        BY <1>1, <1>6, SyncOnce
    <2> QED
        BY <1>2, <1>3, <1>4, <2>1
<1>7. CASE RPatchStatus
    <2> DEFINE base    == rctx.obj.status
               serving == {p \in DOMAIN rctx.seen :
                              ReadyAndObserved(rctx.seen[p], rctx.obj.rev)}
               w       == Cardinality(serving)
    <2>1. rctx.pc = "update" /\ rctx.s = cur /\ DOMAIN rctx.seen = ActivePods(cur)
        BY <1>1, <1>7 DEF RPatchStatus, PodsWhole
    <2>2. /\ rs'[cur].gen = rs[cur].gen /\ rs'[cur].rev = rs[cur].rev
          /\ rs'[cur].status.gen =
                IF base.gen = rctx.obj.gen THEN rs[cur].status.gen ELSE rctx.obj.gen
          /\ rs'[cur].status.ready = IF base.ready = w THEN rs[cur].status.ready ELSE w
        BY <1>7, <2>1, StatusSent
    <2>3. /\ rctx.obj.gen \in {2, 3} /\ rctx.obj.gen <= rs[cur].gen
          /\ rctx.obj.gen = rs[cur].gen => rctx.obj.rev = rs[cur].rev
          /\ base.gen \in {2, 3} /\ base.gen <= rctx.obj.gen /\ base.gen <= rs[cur].status.gen
          /\ base.gen = 2 => base.ready = deploy.replicas
        BY <1>1, <2>1 DEF Copies, CopyOf
    <2>4. w = deploy.replicas <=> serving = DOMAIN rctx.seen
        BY <2>1, CountedAll
    <2>5. rctx.obj.gen = 2 => serving = DOMAIN rctx.seen
        BY <2>1 DEF ReadingStands
    <2>6. serving = DOMAIN rctx.seen => Settled(rctx.obj.rev)
        BY <1>1, <2>1 DEF ReadingStands, Settled
    <2> HIDE DEF base, w, serving
    <2>7. CASE rctx.obj.gen = 3 /\ w = deploy.replicas
        <3>1. Settled(rctx.obj.rev) /\ rctx.obj.rev = rs[cur].rev
            BY <1>3, <2>3, <2>4, <2>6, <2>7
        <3>2. PICK rev : rev = rctx.obj.rev
            OBVIOUS
        <3>3. Settled(rev)'
            BY <3>1, <3>2, SettledKept
        <3> QED
            BY <2>2, <3>1, <3>2, <3>3
    <2>8. CASE rctx.obj.gen = 2 \/ w # deploy.replicas
        <3>1. rs[cur].status.gen = 3 /\ rs[cur].status.ready = deploy.replicas
            BY <1>2, <1>3, <2>2, <2>3, <2>4, <2>5, <2>8
        <3> QED
            BY <1>4, <2>2, <3>1
    <2> QED
        BY <2>3, <2>7, <2>8
<1> QED
    BY <1>5, <1>6, <1>7, TwoWriters

\* At rest the status of the one ReplicaSet is of its own generation and revision.
LEMMA SettledInit == SteadyInit => SettledInv
<1> SUFFICES ASSUME SteadyInit PROVE SettledInv
    OBVIOUS
<1> DEFINE cur  == deploy.structure
           done == [NoReplicaSet EXCEPT
              !.gen = 2, !.rev = deploy.rev, !.replicas = deploy.replicas,
              !.status = [gen |-> 2, replicas |-> deploy.replicas,
                          available |-> deploy.replicas, terminating |-> 0,
                          rev |-> deploy.rev, updated |-> deploy.replicas,
                          ready |-> deploy.replicas]]
           view == [s \in Structures |-> IF s = cur THEN done ELSE NoReplicaSet]
<1>1. /\ done.gen = 2 /\ done.rev = deploy.rev /\ done.replicas = deploy.replicas
      /\ done.status.gen = 2 /\ done.status.ready = deploy.replicas
      /\ DOMAIN done = DOMAIN NoReplicaSet
    BY DEF NoReplicaSet
<1> HIDE DEF done
<1>2. rs = [view EXCEPT ![cur].par = Parallelism(deploy, view)]
    BY DEF SteadyInit, Rested, done
<1>3. cur \in Structures /\ deploy.gen = 1
    BY DEF SteadyInit, SpecChoices
<1>4. rs[cur] = [done EXCEPT !.par = Parallelism(deploy, view)]
    BY <1>2, <1>3
<1> HIDE DEF view
<1>5. /\ rs[cur].gen = 2 /\ rs[cur].rev = deploy.rev /\ rs[cur].replicas = deploy.replicas
      /\ rs[cur].status.gen = 2 /\ rs[cur].status.ready = deploy.replicas
    BY <1>1, <1>4 DEF NoReplicaSet
<1>6. /\ dcache = deploy /\ dctx = DIdle /\ rctx = RIdle /\ CachedReplicaSet(cur) = rs[cur]
    BY <1>3, BoundsAssumption DEF SteadyInit, CachedReplicaSet
<1>7. PICK P \in SUBSET PodIds :
         /\ Cardinality(P) = deploy.replicas
         /\ pods = [p \in P |-> [NewPod(cur, deploy.rev) EXCEPT !.ready = TRUE]]
    BY DEF SteadyInit
<1>8. ActivePods(cur) = P /\ Settled(deploy.rev)
    BY <1>7 DEF ActivePods, PodsIn, NewPod, Settled, ReadyAndObserved, SpecMatches
<1>9. OneSync
    BY <1>3, <1>5, <1>6 DEF OneSync, DIdle
<1>10. PodsWhole /\ ReadingStands
    BY <1>5, <1>6, <1>7, <1>8 DEF PodsWhole, ReadingStands, RIdle
<1>11. Copies /\ ReportStands
    BY <1>5, <1>6, <1>8 DEF Copies, CopyOf, ReportStands, RIdle
<1> QED
    BY <1>9, <1>10, <1>11 DEF SettledInv

\* One edit in place of a Deployment at rest, whatever it changes besides the
\* structure and the replica count: when deploymentComplete holds of the API objects,
\* every Pod runs the revision of the template and is ready, although the status it
\* reads is pieced together from merge patches against stale copies, and calls fail.
THEOREM CompletionIsTrue ==
    SteadySpec /\ []EditedOnce /\ [][Frozen]_vars /\ [][NoEviction]_vars
    => []CompleteIsConverged
<1>1. /\ TypeInv /\ PauseInv /\ EditInv /\ EditInv' /\ EditedOnce /\ EditedOnce'
      /\ IdentityInv /\ SettledInv /\ [Next]_vars /\ [Frozen]_vars /\ [NoEviction]_vars
      => IdentityInv' /\ SettledInv'
    BY TargetStep, ReplicasStep, CountStep, SyncStep, WholeStep, CopiesStep, ReadingStep, ReportStep
       DEF IdentityInv, SettledInv, EditInv
<1>2. ASSUME TypeInv, SettledInv PROVE CompleteIsConverged
    <2> DEFINE cur == deploy.structure
               now == rs[cur]
    <2>1. cur \in Structures /\ Cardinality(ActivePods(cur)) = deploy.replicas
        BY <1>2, Parts DEF Deployment, SettledInv, PodsWhole
    <2> SUFFICES ASSUME ObservedInPlaceStatus(now)
                          = [updated |-> deploy.replicas, ready |-> deploy.replicas]
                 PROVE  Settled(now.rev)
        BY <2>1 DEF CompleteIsConverged, DeploymentComplete, Settled
    <2>2. /\ now.gen \in {2, 3} /\ now.status.gen \in {2, 3}
          /\ now.gen = 2 => Settled(now.rev)
          /\ now.status.gen = 3 /\ now.status.ready = deploy.replicas => Settled(now.rev)
        BY <1>2 DEF SettledInv, Copies, CopyOf, ReportStands
    <2>3. CASE now.status.gen < now.gen \/ now.status.rev # now.rev
        <3>1. deploy.replicas = 0
            BY <2>3 DEF ObservedInPlaceStatus
        <3>2. ActivePods(cur) = {}
            BY <2>1, <3>1, <1>2, CountTypes, FS_EmptySet
        <3> QED
            BY <3>2 DEF Settled
    <2>4. CASE ~(now.status.gen < now.gen \/ now.status.rev # now.rev)
        <3>1. now.status.ready = deploy.replicas
            BY <2>4 DEF ObservedInPlaceStatus
        <3> HIDE DEF now
        <3>2. now.gen = 2 \/ now.status.gen = 3
            BY <2>2, <2>4
        <3> QED
            BY <2>2, <3>1, <3>2
    <2> QED
        BY <2>3, <2>4
<1>3. SteadySpec /\ []EditedOnce /\ [][Frozen]_vars /\ [][NoEviction]_vars
      => [](TypeInv /\ PauseInv /\ EditInv)
    <2>1. [Frozen]_vars => [FrozenReplicas]_vars
        BY DEF Frozen, FrozenReplicas
    <2> QED
        BY <2>1, EditInvariant, PTL
<1>4. SteadySpec /\ []EditedOnce /\ [][Frozen]_vars /\ [][NoEviction]_vars => []SettledInv
    BY <1>1, <1>3, IdentityInit, SettledInit, PTL DEF SteadySpec
<1> QED
    BY <1>2, <1>3, <1>4, PTL

-----------------------------------------------------------------------------
(***************************************************************************)
(* The minimum of Pods that serve during edits in place.                   *)
(*                                                                         *)
(* Structure, replica count and strategy stay; the template is edited and  *)
(* the rollout paused any number of times.                                 *)
(***************************************************************************)
FrozenStrategy == deploy'.strategy = deploy.strategy
RollingUpdate  == ~deploy.strategy.recreate

Budget == Max2(1, ResolveFenceposts(deploy.strategy, deploy.replicas).unavailable)

\* Every copy of the in-place-parallelism annotation is within the budget.
ParallelismBounded ==
    LET cur == deploy.structure
    IN  /\ dcache.strategy = deploy.strategy
        /\ rs[cur].par <= Budget /\ CachedReplicaSet(cur).par <= Budget
        /\ rctx.pc = "update" => rctx.obj.par <= Budget
        /\ dctx.pc = "sync" => dctx.par <= Budget

\* The Pods on their way to a revision.
OnTheWay(rev) ==
    {p \in DOMAIN pods : pods[p].rev = rev /\ ~ReadyAndObserved(pods[p], rev)}

\* No Pod has ended, and inFlight is never less than the Pods on their way.
FlightCounted ==
    /\ \A p \in DOMAIN pods : pods[p].phase = "Active"
    /\ rctx.pc = "update" => Cardinality(OnTheWay(rctx.obj.rev)) <= rctx.inFlight

PatchInv == PodsWhole /\ ParallelismBounded /\ FlightCounted

\* deploymentParallelism gives out maxUnavailable, or one.
LEMMA ParallelismWithin ==
    ASSUME rs \in [Structures -> ReplicaSet], NEW d \in Deployment, ~d.strategy.recreate
    PROVE  Parallelism(d, rs) <= Max2(1, ResolveFenceposts(d.strategy, d.replicas).unavailable)
<1>1. TotalAvailableReplicas(rs) \in Nat /\ d.replicas \in Nat
    BY StoreView, StructuresAssumption, SumsType, DeploymentFields
<1>2. ResolveFenceposts(d.strategy, d.replicas).unavailable \in Nat
    BY DeploymentFields, FencepostsType
<1> QED
    BY <1>1, <1>2 DEF Parallelism, DeploymentParallelism, Max2

LEMMA BudgetKeeps ==
    ASSUME TypeInv, [Frozen]_vars, [FrozenStrategy]_vars
    PROVE  Budget' = Budget /\ Budget \in Nat /\ deploy'.strategy = deploy.strategy
<1>1. deploy'.strategy = deploy.strategy /\ deploy'.replicas = deploy.replicas
    BY Untouched DEF FrozenStrategy, vars
<1>2. ResolveFenceposts(deploy.strategy, deploy.replicas).unavailable \in Nat
    BY Parts, DeploymentFields, FencepostsType
<1> QED
    BY <1>1, <1>2 DEF Budget, Max2

\* Who writes the annotation.
LEMMA ParallelismWritten ==
    ASSUME TypeInv, [Next]_vars, NEW s \in Structures
    PROVE  rs'[s].par \in {rs[s].par, 0} \/ (DSync /\ rs'[s].par = dctx.par)
<1>1. CASE rs' = rs
    BY <1>1
<1>2. CASE DCreate
    <2>1. PICK b : rs' = [rs EXCEPT ![dctx.d.structure] =
                            [NoReplicaSet EXCEPT !.gen = 1, !.rev = dctx.d.rev, !.born = b]]
        BY <1>2 DEF DCreate
    <2> QED
        BY <2>1, Parts DEF NoReplicaSet
<1>3. CASE DSync
    <2> DEFINE cur == dctx.cur
               rev == SyncedRevision(dctx.d, cur)
               gen == IF rev = rs[cur].rev THEN rs[cur].gen ELSE rs[cur].gen + 1
    <2>1. rs' = [rs EXCEPT ![cur] = [rs[cur] EXCEPT !.rev = rev, !.par = dctx.par, !.gen = gen]]
        BY <1>3 DEF DSync
    <2> HIDE DEF rev, gen
    <2> QED
        BY <1>3, <2>1, Parts DEF ReplicaSet
<1>4. CASE DScale
    <2>1. rs' = [rs EXCEPT ![dctx.rs] = [rs[dctx.rs] EXCEPT !.replicas = dctx.n,
                                                            !.gen = rs[dctx.rs].gen + 1]]
        BY <1>4, ScaleFacts, Parts DEF DScale, ReplicaSet
    <2> QED
        BY <2>1, Parts DEF ReplicaSet
<1>5. CASE RPatchStatus
    <2>1. PICK new : rs' = [rs EXCEPT ![rctx.s] = [rs[rctx.s] EXCEPT !.status = new]]
        BY <1>5 DEF RPatchStatus
    <2> QED
        BY <2>1, Parts DEF ReplicaSet
<1>6. CASE DRead \/ DStatus \/ DListPods \/ DFail \/ UNCHANGED vars
    BY <1>1, <1>6 DEF DRead, DStatus, DListPods, DFail, clusterVars, vars
<1>7. CASE (\E t \in Structures : RRead(t)) \/ RCreatePod \/ RDeletePod \/ RPatchPod \/ RFail
    BY <1>1, <1>7 DEF RRead, RCreatePod, RDeletePod, RPatchPod, RFail, clusterVars
<1>8. CASE ClusterNext
    BY <1>1, <1>8 DEF ClusterNext, UserEdit, RefreshDeployment, RefreshReplicaSet, Kubelet,
                      KubeletRestart, KubeletReady, PodGone, Evict
<1> QED
    BY <1>2, <1>3, <1>4, <1>5, <1>6, <1>7, <1>8 DEF Next, DWork, RStep

\* Which step gives a Deployment reconcile its budget.
LEMMA SyncPlanned ==
    ASSUME TypeInv, [Next]_vars, dctx'.pc = "sync"
    PROVE  dctx' = dctx \/ dctx'.par = Parallelism(dcache, rs)
<1>0. DIdle.pc = "idle"
    BY DEF DIdle
<1>1. CASE DRead
    <2>1. ASSUME NEW cur, DReadRollout(cur) PROVE FALSE
        BY <1>0, <2>1, RolloutOf DEF DReadRollout
    <2> QED
        BY <1>1, <2>1 DEF DRead, DReadCreate, DReadSync, DReadStatus
<1>2. CASE DStatus
    BY <1>0, <1>2, StatusFacts
<1>3. CASE DListPods
    BY <1>0, <1>3, ListFacts
<1>4. CASE DCreate \/ DSync \/ DScale \/ DFail
    BY <1>0, <1>4, CreateFacts, SyncFacts, ScaleFacts DEF DFail
<1> QED
    BY <1>1, <1>2, <1>3, <1>4 DEF Next, DWork, vars

LEMMA BoundedStep ==
    ASSUME TypeInv, PauseInv, IdentityInv, RollingUpdate, PatchInv, [Next]_vars,
           [Frozen]_vars, [FrozenStrategy]_vars
    PROVE  ParallelismBounded'
<1> USE DEF PatchInv
<1>1. PICK cur \in Structures : cur = deploy.structure /\ cur = deploy'.structure
    BY Parts, Untouched DEF Deployment
<1>2. PICK b \in Nat : b = Budget /\ b = Budget'
    BY BudgetKeeps
<1>3. /\ dcache.strategy = deploy.strategy
      /\ rs[cur].par <= b /\ CachedReplicaSet(cur).par <= b
      /\ rctx.pc = "update" => rctx.obj.par <= b
      /\ dctx.pc = "sync" => dctx.par <= b
    BY <1>1, <1>2 DEF ParallelismBounded
<1>4. rs'[cur].par <= b
    BY <1>2, <1>3, ParallelismWritten, SyncFacts
<1>5. CachedReplicaSet(cur)'.par <= b
    BY <1>3, <1>4, CacheFacts
<1>6. rctx'.pc = "update" => rctx'.obj.par <= b
    <2>1. CASE \E s \in Structures : RRead(s)
        BY <1>1, <1>3, <2>1, WholeRead
    <2>2. CASE RPatchPod /\ rctx'.pc = "update"
        BY <1>3, <2>2, AnswerFacts
    <2>3. CASE rctx' = rctx \/ rctx'.pc = "idle"
        BY <1>3, <2>3
    <2> QED
        BY <2>1, <2>2, <2>3, WholeContext
<1>7. dctx'.pc = "sync" => dctx'.par <= b
    <2>1. Parallelism(dcache, rs) <= b
        <3>1. dcache.replicas = deploy.replicas /\ ~dcache.strategy.recreate
            BY <1>3 DEF IdentityInv, OneTarget, SameTarget, RollingUpdate
        <3> QED
            BY <1>2, <1>3, <3>1, ParallelismWithin, Parts DEF Budget
    <2> QED
        BY <1>3, <2>1, SyncPlanned
<1>8. dcache' \in {dcache, deploy, deploy'}
    <2>1. CASE ClusterNext
        BY <2>1, ClusterFacts, EditFacts DEF RefreshDeployment
    <2>2. CASE DWork \/ DFail
        BY <2>2, ReadFacts, CreateFacts, SyncFacts, StatusFacts, ListFacts, ScaleFacts
           DEF DWork, DFail, clusterVars
    <2>3. CASE (\E s \in Structures : RRead(s)) \/ RStep \/ RFail
        BY <2>3, ReconcileKeeps
    <2> QED
        BY <2>1, <2>2, <2>3 DEF Next, vars
<1>9. dcache'.strategy = deploy'.strategy
    BY <1>3, <1>8, BudgetKeeps
<1> QED
    BY <1>1, <1>2, <1>4, <1>5, <1>6, <1>7, <1>9 DEF ParallelismBounded, CachedReplicaSet

\* One patch: within the budget, of one Pod, and counted.
LEMMA PatchFacts ==
    ASSUME TypeInv, RPatchPod
    PROVE  /\ rctx.pc = "update" /\ rctx.inFlight \in Nat /\ rctx.inFlight < rctx.obj.par
           /\ \/ pods' = pods /\ rctx' = RIdle
              \/ /\ \E p \in DOMAIN pods : pods' = [pods EXCEPT ![p].rev = rctx.obj.rev]
                 /\ rctx'.pc = "update" /\ rctx'.obj = rctx.obj
                 /\ rctx'.inFlight = rctx.inFlight + 1
<1>1. /\ rctx.pc = "update"
      /\ rctx \in [pc: {"update"}, s: Structures, obj: ReplicaSet,
                   seen: UNION {[D -> Pod] : D \in SUBSET PodIds},
                   terminating: Nat, inFlight: Nat]
    BY Parts, RContextKinds DEF RPatchPod
<1>2. PICK p \in PatchCandidates(rctx) :
         IF p \in DOMAIN pods
         THEN /\ pods' = [pods EXCEPT ![p].rev = rctx.obj.rev]
              /\ rctx' = [rctx EXCEPT !.seen = [rctx.seen EXCEPT ![p] = pods'[p]],
                                      !.inFlight = rctx.inFlight + 1]
         ELSE rctx' = RIdle /\ UNCHANGED pods
    BY <1>1 DEF RPatchPod
<1>3. rctx.inFlight \in Nat /\ rctx.inFlight < rctx.obj.par
    BY <1>1, <1>2 DEF PatchCandidates
<1> DEFINE answered == [rctx.seen EXCEPT ![p] = pods'[p]]
<1>4. CASE p \in DOMAIN pods
    <2>1. /\ pods' = [pods EXCEPT ![p].rev = rctx.obj.rev]
          /\ rctx' = [rctx EXCEPT !.seen = answered, !.inFlight = rctx.inFlight + 1]
        BY <1>2, <1>4
    <2> HIDE DEF answered
    <2>2. rctx'.pc = "update" /\ rctx'.obj = rctx.obj /\ rctx'.inFlight = rctx.inFlight + 1
        BY <1>1, <2>1
    <2> QED
        BY <1>1, <1>3, <1>4, <2>1, <2>2
<1>5. CASE p \notin DOMAIN pods
    BY <1>1, <1>2, <1>3, <1>5
<1> QED
    BY <1>4, <1>5

\* Nobody else changes the revision of a Pod.
LEMMA RevisionKept ==
    ASSUME TypeInv, [Next]_vars, ~RPatchPod, NEW p \in DOMAIN pods, p \in DOMAIN pods'
    PROVE  pods'[p].rev = pods[p].rev
<1>1. pods[p] \in Pod
    BY DEF TypeInv, TypeOK, ClusterTypeOK
<1>2. CASE pods' = pods
    BY <1>2
<1>3. ASSUME NEW q \in DOMAIN pods, KubeletRestart(q) \/ KubeletReady(q) \/ PodGone(q) \/ Evict(q)
      PROVE  pods'[p].rev = pods[p].rev
    <2>1. CASE q = p
        BY <1>1, <1>3, <2>1 DEF KubeletRestart, KubeletReady, PodGone, Evict, Pod
    <2>2. CASE q # p
        BY <1>3, <2>2 DEF KubeletRestart, KubeletReady, PodGone, Evict
    <2> QED
        BY <2>1, <2>2
<1>4. CASE RCreatePod
    BY <1>4, CreationFacts
<1>5. CASE RDeletePod
    <2>1. PICK q : pods' = IF q \in DOMAIN pods /\ pods[q].phase = "Active"
                           THEN [pods EXCEPT ![q].phase = "Terminating"] ELSE pods
        BY <1>5 DEF RDeletePod
    <2>2. CASE q = p
        BY <1>1, <2>1, <2>2 DEF Pod
    <2>3. CASE q # p
        BY <2>1, <2>3
    <2> QED
        BY <2>2, <2>3
<1>6. CASE DWork \/ DFail
    <2>1. pods' = pods
        <3>1. CASE DRead \/ DListPods \/ DFail
            BY <3>1 DEF DRead, DListPods, DFail, clusterVars
        <3> QED
            BY <1>6, <3>1, CreateFacts, SyncFacts, StatusFacts, ScaleFacts DEF DWork
    <2> QED
        BY <1>2, <2>1
<1>7. CASE (\E t \in Structures : RRead(t)) \/ RPatchStatus \/ RFail \/ UNCHANGED vars
    BY <1>2, <1>7 DEF RRead, RPatchStatus, RFail, clusterVars, vars
<1>8. CASE ClusterNext
    <2>1. CASE UserEdit \/ RefreshDeployment \/ \E t \in Lagging : RefreshReplicaSet(t)
        BY <1>2, <2>1 DEF UserEdit, RefreshDeployment, RefreshReplicaSet
    <2> QED
        BY <1>3, <1>8, <2>1 DEF ClusterNext, Kubelet
<1> QED
    BY <1>4, <1>5, <1>6, <1>7, <1>8 DEF Next, RStep

\* With one Pod more there is one Pod more.
LEMMA OneMorePod ==
    ASSUME NEW S \in SUBSET PodIds, NEW T \in SUBSET PodIds, NEW p, T \subseteq S \cup {p}
    PROVE  /\ Cardinality(S) \in Nat /\ Cardinality(T) \in Nat
           /\ Cardinality(T) <= Cardinality(S) + 1
<1>1. IsFiniteSet(S) /\ Cardinality(S) \in Nat /\ Cardinality(T) \in Nat
    BY PodsCount
<1>2. /\ IsFiniteSet(S \cup {p}) /\ Cardinality(S \cup {p}) \in Nat
      /\ Cardinality(S \cup {p}) <= Cardinality(S) + 1
    BY <1>1, FS_AddElement, FS_CardinalityType
<1>3. Cardinality(T) <= Cardinality(S \cup {p})
    BY <1>2, FS_Subset
<1> QED
    BY <1>1, <1>2, <1>3

LEMMA FlightStep ==
    ASSUME TypeInv, TypeInv', IdentityInv, PatchInv, [Next]_vars, [NoEviction]_vars
    PROVE  FlightCounted'
<1> USE DEF PatchInv
<1>1. PICK cur \in Structures : cur = deploy.structure
    BY Parts DEF Deployment
<1>2. ~RCreatePod /\ ~RDeletePod
    BY WholeContext
<1>3. \A p \in DOMAIN pods : pods[p].phase = "Active" /\ pods[p].owner = cur
    BY <1>1 DEF FlightCounted, IdentityInv, NoneTooMany
<1>4. ActivePods(cur)' = ActivePods(cur) /\ ActivePods(cur) = DOMAIN pods
    BY <1>2, <1>3, ActiveKept DEF ActivePods, PodsIn
<1>5. \A p \in DOMAIN pods' : p \in DOMAIN pods
    BY <1>2, PodFacts
<1>6. DOMAIN pods' = DOMAIN pods /\ \A p \in DOMAIN pods' : pods'[p].phase = "Active"
    BY <1>4, <1>5 DEF ActivePods, PodsIn
<1>7. DOMAIN pods \subseteq PodIds
    BY DEF TypeInv, TypeOK, ClusterTypeOK
<1>8. ASSUME rctx'.pc = "update"
      PROVE  \E rev : rev = rctx'.obj.rev /\ Cardinality(OnTheWay(rev)') <= rctx'.inFlight
    <2>1. CASE \E s \in Structures : RRead(s)
        <3>1. PICK s \in Structures : RRead(s)
            BY <2>1
        <3>2. /\ s = cur /\ pods' = pods /\ DOMAIN rctx'.seen = DOMAIN pods
              /\ \A p \in DOMAIN pods : rctx'.seen[p] = pods[p]
            BY <1>1, <1>4, <3>1, WholeRead DEF clusterVars
        <3>3. rctx'.inFlight = InFlight(rctx'.seen, rctx'.obj.rev)
            BY <1>8, <3>1 DEF RRead
        <3>4. PICK rev : rev = rctx'.obj.rev
            OBVIOUS
        <3>5. rctx'.inFlight = Cardinality(OnTheWay(rev))
            <4>1. {p \in DOMAIN rctx'.seen : /\ SpecMatches(rctx'.seen[p], rev)
                                             /\ ~ReadyAndObserved(rctx'.seen[p], rev)}
                  = OnTheWay(rev)
                BY <3>2 DEF OnTheWay, SpecMatches
            <4> QED
                BY <3>3, <3>4, <4>1 DEF InFlight
        <3>6. OnTheWay(rev)' = OnTheWay(rev) /\ OnTheWay(rev) \in SUBSET PodIds
            BY <1>7, <3>2 DEF OnTheWay, ReadyAndObserved, SpecMatches
        <3>7. Cardinality(OnTheWay(rev)) \in Nat
            BY <3>6, PodsCount
        <3> QED
            BY <3>4, <3>5, <3>6, <3>7
    <2>2. CASE rctx.pc = "update" /\ rctx'.obj = rctx.obj /\ rctx'.inFlight = rctx.inFlight
               /\ ~RPatchPod
        <3>1. PICK rev : rev = rctx.obj.rev
            OBVIOUS
        <3>2. ASSUME NEW p \in DOMAIN pods, pods'[p].rev = rev, ~ReadyAndObserved(pods'[p], rev)
              PROVE  p \in OnTheWay(rev)
            <4>1. pods[p].rev = rev
                BY <1>6, <2>2, <3>2, RevisionKept
            <4>2. ~ReadyAndObserved(pods[p], rev)
                BY <1>2, <1>3, <3>1, <3>2, ServingStep
            <4> QED
                BY <4>1, <4>2 DEF OnTheWay
        <3>3. OnTheWay(rev)' \subseteq OnTheWay(rev) /\ OnTheWay(rev) \in SUBSET PodIds
            BY <1>6, <1>7, <3>2 DEF OnTheWay, ReadyAndObserved, SpecMatches
        <3>4. /\ Cardinality(OnTheWay(rev)) \in Nat /\ Cardinality(OnTheWay(rev)') \in Nat
              /\ Cardinality(OnTheWay(rev)') <= Cardinality(OnTheWay(rev))
            BY <3>3, FewerPods
        <3>5. Cardinality(OnTheWay(rev)) <= rctx.inFlight /\ rctx.inFlight \in Nat
            BY <2>2, <3>1, Parts, RContextKinds DEF FlightCounted
        <3> QED
            BY <2>2, <3>1, <3>4, <3>5
    <2>3. CASE RPatchPod
        <3>1. /\ rctx.pc = "update" /\ rctx.inFlight \in Nat /\ rctx'.obj = rctx.obj
              /\ rctx'.inFlight = rctx.inFlight + 1
              /\ \E p \in DOMAIN pods : pods' = [pods EXCEPT ![p].rev = rctx.obj.rev]
            BY <1>8, <2>3, PatchFacts DEF RIdle
        <3>2. PICK p \in DOMAIN pods : pods' = [pods EXCEPT ![p].rev = rctx.obj.rev]
            BY <3>1
        <3>3. PICK rev : rev = rctx.obj.rev
            OBVIOUS
        <3>4. /\ OnTheWay(rev)' \subseteq OnTheWay(rev) \cup {p}
              /\ OnTheWay(rev) \in SUBSET PodIds /\ OnTheWay(rev)' \in SUBSET PodIds
            BY <1>6, <1>7, <3>2 DEF OnTheWay, ReadyAndObserved, SpecMatches
        <3>5. /\ Cardinality(OnTheWay(rev)) \in Nat /\ Cardinality(OnTheWay(rev)') \in Nat
              /\ Cardinality(OnTheWay(rev)') <= Cardinality(OnTheWay(rev)) + 1
            BY <3>4, OneMorePod
        <3>6. Cardinality(OnTheWay(rev)) <= rctx.inFlight
            BY <3>1, <3>3 DEF FlightCounted
        <3> QED
            BY <3>1, <3>3, <3>5, <3>6
    <2> QED
        BY <1>8, <2>1, <2>2, <2>3, WholeContext
<1> QED
    BY <1>6, <1>8 DEF FlightCounted, OnTheWay

LEMMA PatchInit == SteadyInit /\ RollingUpdate => PatchInv
<1> SUFFICES ASSUME SteadyInit, RollingUpdate PROVE PatchInv
    OBVIOUS
<1>1. PodsWhole
    BY SettledInit DEF SettledInv
<1>2. /\ dcache = deploy /\ dctx = DIdle /\ rctx = RIdle
      /\ CachedReplicaSet(deploy.structure) = rs[deploy.structure]
    BY RestedFacts, BoundsAssumption DEF SteadyInit, CachedReplicaSet
<1>3. FlightCounted
    <2>1. \A p \in DOMAIN pods : pods[p].phase = "Active"
        BY DEF SteadyInit, NewPod
    <2> QED
        BY <1>2, <2>1 DEF FlightCounted, RIdle
<1>4. rs[deploy.structure].par <= Budget
    <2> DEFINE d    == deploy
               done == [NoReplicaSet EXCEPT
                  !.gen = 2, !.rev = d.rev, !.replicas = d.replicas,
                  !.status = [gen |-> 2, replicas |-> d.replicas,
                              available |-> d.replicas, terminating |-> 0,
                              rev |-> d.rev, updated |-> d.replicas,
                              ready |-> d.replicas]]
               view == [s \in Structures |-> IF s = d.structure THEN done ELSE NoReplicaSet]
               par  == Parallelism(d, view)
    <2>1. TypeInv
        BY SteadyTypeInit
    <2>2. DOMAIN done = DOMAIN NoReplicaSet
        BY DEF NoReplicaSet
    <2>3. done.status.available = d.replicas /\ done.replicas = d.replicas
        BY DEF NoReplicaSet
    <2> HIDE DEF done
    <2>4. rs = [view EXCEPT ![d.structure].par = par]
        BY DEF SteadyInit, Rested, done
    <2>5. d.structure \in Structures
        BY RestedFacts
    <2> HIDE DEF par
    <2>6. rs[d.structure] = [done EXCEPT !.par = par]
        BY <2>4, <2>5
    <2>7. rs[d.structure].par = par
        BY <2>2, <2>6 DEF NoReplicaSet
    <2>8. TotalAvailableReplicas(view) = TotalAvailableReplicas(rs)
        <3>1. \A s \in Structures : /\ view[s].status.available = rs[s].status.available
                                    /\ view[s].replicas = rs[s].replicas
            BY <2>2, <2>3, <2>4, <2>5, <2>6, RestedFacts DEF NoReplicaSet
        <3>2. [s \in Structures |-> Min2(view[s].status.available, view[s].replicas)]
              = [s \in Structures |-> Min2(rs[s].status.available, rs[s].replicas)]
            BY <3>1
        <3> QED
            BY <3>2 DEF TotalAvailableReplicas
    <2>9. par = Parallelism(d, rs)
        BY <2>8 DEF par, Parallelism, DeploymentParallelism
    <2> QED
        BY <2>1, <2>7, <2>9, ParallelismWithin, Parts DEF RollingUpdate, Budget
<1> QED
    BY <1>1, <1>2, <1>3, <1>4 DEF PatchInv, ParallelismBounded, DIdle, RIdle

\* While structure, replica count and strategy stay, every in-place patch that takes a
\* Pod out of service leaves desired - max(1, maxUnavailable) of them serving, however
\* often the template is edited, however old the annotation and the list of Pods are that
\* the reconcile works from, and whichever calls fail.
THEOREM PatchesAreSafe ==
    /\ SteadySpec /\ []RollingUpdate
    /\ [][Frozen]_vars /\ [][FrozenStrategy]_vars /\ [][NoEviction]_vars
    => PatchesKeepMinimum
<1>1. /\ TypeInv /\ TypeInv' /\ PauseInv /\ IdentityInv /\ RollingUpdate /\ PatchInv
      /\ [Next]_vars /\ [Frozen]_vars /\ [FrozenStrategy]_vars /\ [NoEviction]_vars
      => IdentityInv' /\ PatchInv'
    BY TargetStep, ReplicasStep, CountStep, WholeStep, BoundedStep, FlightStep
       DEF IdentityInv, PatchInv
<1>2. ASSUME TypeInv, IdentityInv, PatchInv, [Next]_vars,
             NEW p \in UndisruptedPods, p \in DOMAIN pods', pods'[p].rev # pods[p].rev,
             \A q \in DOMAIN pods \ UndisruptedPods : pods[q].rev = rctx.obj.rev
      PROVE  Cardinality(UndisruptedPods')
                >= deploy.replicas - Max2(1, Limits(deploy).unavailable)
    <2> USE DEF PatchInv
    <2>1. PICK cur \in Structures : cur = deploy.structure
        BY <1>2, Parts DEF Deployment
    <2>2. /\ p \in DOMAIN pods /\ RPatchPod
        BY <1>2, RevisionKept DEF UndisruptedPods, AvailablePods
    <2>3. PICK q \in DOMAIN pods : pods' = [pods EXCEPT ![q].rev = rctx.obj.rev]
        BY <1>2, <2>2, PatchFacts
    <2>4. q = p
        BY <1>2, <2>2, <2>3
    <2>5. /\ rctx.pc = "update" /\ rctx.inFlight \in Nat /\ rctx.inFlight < rctx.obj.par
          /\ rctx.obj.par <= Budget /\ rctx.obj.par \in Nat
        <3>1. rctx.pc = "update" /\ rctx.inFlight \in Nat /\ rctx.inFlight < rctx.obj.par
            BY <1>2, <2>2, PatchFacts
        <3>2. rctx.obj \in ReplicaSet
            BY <1>2, <3>1, Parts, RContextKinds
        <3> QED
            BY <1>2, <3>1, <3>2 DEF ParallelismBounded, ReplicaSet
    <2> DEFINE D == DOMAIN pods \ UndisruptedPods
               S == DOMAIN pods
    <2>6. D \subseteq OnTheWay(rctx.obj.rev)
        BY <1>2 DEF OnTheWay, UndisruptedPods, AvailablePods, IsAvailable, FlightCounted,
                    ReadyAndObserved, SpecMatches
    <2>7. S \in SUBSET PodIds
        BY <1>2 DEF TypeInv, TypeOK, ClusterTypeOK
    <2>8. OnTheWay(rctx.obj.rev) \in SUBSET PodIds
        BY <2>7 DEF OnTheWay
    <2>9. /\ Cardinality(D) \in Nat /\ Cardinality(D) <= rctx.inFlight
        BY <1>2, <2>5, <2>6, <2>8, FewerPods DEF FlightCounted
    <2>10. S \ (D \cup {p}) \subseteq UndisruptedPods' /\ UndisruptedPods' \in SUBSET PodIds
        BY <2>3, <2>4, <2>7 DEF UndisruptedPods, AvailablePods, IsAvailable
    <2>11. Cardinality(S) = deploy.replicas /\ deploy.replicas \in Nat
        <3>1. ActivePods(cur) = S
            BY <1>2, <2>1 DEF FlightCounted, IdentityInv, NoneTooMany, ActivePods, PodsIn
        <3> QED
            BY <1>2, <2>1, <3>1, Parts, DeploymentFields DEF PodsWhole
    <2>12. Cardinality(S) <= Cardinality(UndisruptedPods') + Cardinality(D) + 1
        <3> DEFINE X == D \cup {p}
        <3>1. X \in SUBSET PodIds /\ X \subseteq S /\ p \in PodIds
            BY <2>2, <2>7
        <3>2. Cardinality(X) \in Nat /\ Cardinality(X) <= Cardinality(D) + 1
            BY <2>7, <3>1, OneMorePod
        <3>3. Cardinality(S \ X) = Cardinality(S) - Cardinality(X) /\ Cardinality(S \ X) \in Nat
            <4>1. IsFiniteSet(S) /\ IsFiniteSet(X) /\ S \cap X = X
                BY <2>7, <3>1, PodsCount
            <4> QED
                BY <4>1, <2>7, FS_Difference, PodsCount
        <3>4. Cardinality(S \ X) <= Cardinality(UndisruptedPods')
            BY <2>10, FewerPods
        <3>5. Cardinality(UndisruptedPods') \in Nat /\ Cardinality(S) \in Nat
            BY <2>7, <2>10, PodsCount
        <3> QED
            BY <2>9, <3>2, <3>3, <3>4, <3>5
    <2>13. Cardinality(UndisruptedPods') \in Nat
        BY <2>10, PodsCount
    <2>14. PICK u \in Nat : u = ResolveFenceposts(deploy.strategy, deploy.replicas).unavailable
        BY <1>2, Parts, DeploymentFields, FencepostsType
    <2>15. Budget = Max2(1, u) /\ Limits(deploy).unavailable = Min2(u, deploy.replicas)
        BY <2>14 DEF Budget, Limits, RollingLimits
    <2> HIDE DEF D, S
    <2> QED
        BY <2>5, <2>9, <2>11, <2>12, <2>13, <2>14, <2>15 DEF Max2, Min2
<1>3. SteadySpec => [](TypeInv /\ PauseInv)
    BY PauseInit, PauseStep, TypeInvariant, PTL DEF SteadySpec
<1>4. /\ SteadySpec /\ []RollingUpdate
      /\ [][Frozen]_vars /\ [][FrozenStrategy]_vars /\ [][NoEviction]_vars
      => [](IdentityInv /\ PatchInv)
    BY <1>1, <1>3, IdentityInit, PatchInit, PTL DEF SteadySpec
<1>5. TypeInv /\ IdentityInv /\ PatchInv /\ [Next]_vars =>
      [/\ \E p \in UndisruptedPods : p \in DOMAIN pods' /\ pods'[p].rev # pods[p].rev
       /\ \A q \in DOMAIN pods \ UndisruptedPods : pods[q].rev = rctx.obj.rev
       => Cardinality(UndisruptedPods')
             >= deploy.replicas - Max2(1, Limits(deploy).unavailable)]_vars
    BY <1>2
<1> QED
    BY <1>3, <1>4, <1>5, PTL DEF SteadySpec, PatchesKeepMinimum
=============================================================================
