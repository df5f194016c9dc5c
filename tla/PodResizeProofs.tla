-------------------------- MODULE PodResizeProofs --------------------------
(***************************************************************************)
(* Proofs about PodResize, for every set of workloads, number of replicas, *)
(* budget and number of edits and faults.                                  *)
(***************************************************************************)
EXTENDS PodResize, FiniteSetTheorems, TLAPS

-----------------------------------------------------------------------------
(***************************************************************************)
(* What a structural revision determines.                                  *)
(***************************************************************************)
\* The fields of a workload's ReplicaSet.
LEMMA ReplicaSetFields ==
    ASSUME NEW w \in Workloads
    PROVE  /\ ReplicaSetOf(w) \in ReplicaSets
           /\ ReplicaSetOf(w) = [policy |-> ResourcePolicy(w.policy),
                                 parallelism |-> Annotation, template |-> StampedTemplate(w)]
           /\ StampedTemplate(w) \in Template
           /\ StampedTemplate(w) = [meta |-> w.template.meta, restarted |-> w.template.restarted,
                                    stamp |-> StructuralRevision(w), image |-> w.template.image,
                                    cpu |-> w.template.cpu, fixed |-> w.template.fixed]
<1>1. w.template \in [meta: {w.template.meta}, restarted: {w.template.restarted},
                      stamp: {Nil}, image: {w.template.image}, cpu: {w.template.cpu},
                      fixed: {w.template.fixed}]
    BY WorkloadsAssumption
<1>2. StampedTemplate(w) = [meta |-> w.template.meta, restarted |-> w.template.restarted,
                            stamp |-> StructuralRevision(w), image |-> w.template.image,
                            cpu |-> w.template.cpu, fixed |-> w.template.fixed]
    BY <1>1 DEF StampedTemplate
<1>3. StampedTemplate(w) \in Template
    BY <1>2 DEF Template, FieldValues
<1> QED
    BY <1>2, <1>3 DEF ReplicaSetOf, ReplicaSets, ResourcePolicy

\* What ClearFromStructural leaves of a template, for either policy.
LEMMA StructureFields ==
    ASSUME NEW w \in Workloads
    PROVE  StructuralRevision(w) =
             [template |-> [meta |-> Nil, restarted |-> Nil, stamp |-> Nil, image |-> Nil,
                            cpu |-> IF ResizeResources(w.policy) THEN Nil ELSE w.template.cpu,
                            fixed |-> w.template.fixed],
              resourcePolicy |-> ResourcePolicy(w.policy), redeploy |-> w.redeploy,
              workloadRestart |-> w.restart, templateRestart |-> w.template.restarted]
<1> DEFINE t == w.template
<1>1. t \in [meta: {t.meta}, restarted: {t.restarted}, stamp: {Nil}, image: {t.image},
             cpu: {t.cpu}, fixed: {t.fixed}]
    BY WorkloadsAssumption
<1> HIDE DEF t
<1>2. ClearImages(ClearMetadata(CleanTemplate(t))) =
        [meta |-> Nil, restarted |-> Nil, stamp |-> Nil, image |-> Nil, cpu |-> t.cpu,
         fixed |-> t.fixed]
    <2>1. CleanTemplate(t) = [meta |-> t.meta, restarted |-> t.restarted, stamp |-> Nil,
                              image |-> t.image, cpu |-> t.cpu, fixed |-> t.fixed]
        BY <1>1 DEF CleanTemplate
    <2>2. ClearMetadata(CleanTemplate(t)) =
            [meta |-> Nil, restarted |-> Nil, stamp |-> Nil, image |-> t.image,
             cpu |-> t.cpu, fixed |-> t.fixed]
        <3> DEFINE r == CleanTemplate(t)
                   m == [meta |-> Nil, restarted |-> Nil, stamp |-> Nil, image |-> t.image,
                         cpu |-> t.cpu, fixed |-> t.fixed]
        <3>1. ClearMetadata(r) = [f \in DOMAIN r |-> IF f = "restarted" \/ f = "meta"
                                                     THEN Nil ELSE r[f]]
            BY DEF ClearMetadata
        <3>2. /\ DOMAIN r = DOMAIN m
              /\ \A f \in DOMAIN r :
                    m[f] = IF f = "restarted" \/ f = "meta" THEN Nil ELSE r[f]
            BY <2>1
        <3> QED
            BY <3>1, <3>2
    <2> QED
        BY <2>2 DEF ClearImages
<1>3. ClearFromStructural(w.policy, CleanTemplate(t)) =
        [meta |-> Nil, restarted |-> Nil, stamp |-> Nil, image |-> Nil,
         cpu |-> IF ResizeResources(w.policy) THEN Nil ELSE t.cpu, fixed |-> t.fixed]
    BY <1>2 DEF ClearFromStructural, ClearResizableResources
<1> QED
    BY <1>3 DEF StructuralRevision, t

\* Two ReplicaSets with one stamp agree on all that updatePods does not write.
LEMMA StampDetermines ==
    ASSUME NEW x \in ReplicaSets, NEW y \in ReplicaSets, x.template.stamp = y.template.stamp
    PROVE  /\ x.template.fixed = y.template.fixed
           /\ x.template.restarted = y.template.restarted
           /\ ~ResizeResources(x.template.stamp.resourcePolicy)
              => x.template.cpu = y.template.cpu
<1>1. PICK v \in Workloads : x.template = StampedTemplate(v)
    BY DEF ReplicaSets
<1>2. PICK w \in Workloads : y.template = StampedTemplate(w)
    BY DEF ReplicaSets
<1>3. /\ StructuralRevision(v) = StructuralRevision(w)
      /\ x.template.stamp = StructuralRevision(v)
    BY <1>1, <1>2, ReplicaSetFields
<1>4. /\ x.template.stamp.resourcePolicy = ResourcePolicy(v.policy)
      /\ ResourcePolicy(v.policy) = ResourcePolicy(w.policy)
      /\ v.template.restarted = w.template.restarted
      /\ v.template.fixed = w.template.fixed
      /\ (IF ResizeResources(v.policy) THEN Nil ELSE v.template.cpu)
           = (IF ResizeResources(w.policy) THEN Nil ELSE w.template.cpu)
    BY <1>3, StructureFields
<1>5. /\ ResizeResources(v.policy) <=> ResizeResources(ResourcePolicy(v.policy))
      /\ ResizeResources(w.policy) <=> ResizeResources(ResourcePolicy(w.policy))
    BY NilAssumption DEF ResourcePolicy, ResizeResources
<1> QED
    BY <1>1, <1>2, <1>4, <1>5, ReplicaSetFields

LEMMA ReplicaSetType ==
    ASSUME NEW x \in ReplicaSets
    PROVE  /\ x.template \in Template
           /\ x.policy \in {Nil, BestEffort}
BY ReplicaSetFields DEF ReplicaSets

\* The ReplicaSet is as an unpaused sync leaves it, or its Pods are not updated.
InStep(x) == x.parallelism = 0 \/ x.policy = x.template.stamp.resourcePolicy

LEMMA SyncedInStep ==
    ASSUME NEW w \in Workloads
    PROVE  InStep(ReplicaSetOf(w))
BY ReplicaSetFields, StructureFields DEF InStep

-----------------------------------------------------------------------------
(***************************************************************************)
(* The reconcile in progress.                                              *)
(***************************************************************************)
Updating == rctx.pc \in {"update", "resize", "replace"}

\* What a reconcile in progress holds, by the call it is about to make.
LEMMA ContextKinds ==
    ASSUME TypeOK
    PROVE  /\ rctx = Idle => rctx.pc = "idle"
           /\ rctx.pc = "idle" => rctx = Idle
           /\ rctx.pc = "create" => rctx \in CreateContext
           /\ Updating => /\ DOMAIN rctx.seen \subseteq PodIds
                          /\ rctx \in UpdateContext(DOMAIN rctx.seen)
           /\ rctx # Idle => rctx.obj \in ReplicaSets /\ (rctx.pc = "create" \/ Updating)
BY DEF TypeOK, Idle, CreateContext, UpdateContext, Updating

\* The loop goes on behind p.
LEMMA MovedFields ==
    ASSUME NEW P \in SUBSET PodIds, NEW c \in UpdateContext(P), NEW p \in P
    PROVE  Moved(c, p) = [pc |-> "update", obj |-> c.obj, base |-> c.base, seen |-> c.seen,
                          left |-> {q \in c.left : q > p}, inFlight |-> c.inFlight + 1,
                          pod |-> Nil, touched |-> c.touched]
<1> DEFINE left == {q \in c.left : q > p}
           m == [pc |-> "update", obj |-> c.obj, base |-> c.base, seen |-> c.seen,
                 left |-> left, inFlight |-> c.inFlight + 1, pod |-> Nil, touched |-> c.touched]
<1>1. Moved(c, p) = [f \in DOMAIN c |->
                       IF f = "pod" THEN Nil ELSE IF f = "left" THEN left
                       ELSE IF f = "inFlight" THEN c.inFlight + 1
                       ELSE IF f = "pc" THEN "update" ELSE c[f]]
    BY Zenon DEF Moved
<1> HIDE DEF left
<1>2. /\ DOMAIN c = DOMAIN m
      /\ \A f \in DOMAIN m :
            m[f] = IF f = "pod" THEN Nil ELSE IF f = "left" THEN left
                   ELSE IF f = "inFlight" THEN c.inFlight + 1
                   ELSE IF f = "pc" THEN "update" ELSE c[f]
    BY DEF UpdateContext
<1> QED
    BY <1>1, <1>2 DEF left

\* What the merge patch makes of a spec.
LEMMA PatchedFields ==
    ASSUME NEW spec \in Template, NEW t \in Template
    PROVE  WithMetadataAndImages(spec, t) =
             [meta |-> t.meta, restarted |-> t.restarted, stamp |-> t.stamp,
              image |-> t.image, cpu |-> spec.cpu, fixed |-> spec.fixed]
<1> DEFINE m == [meta |-> t.meta, restarted |-> t.restarted, stamp |-> t.stamp,
                 image |-> t.image, cpu |-> spec.cpu, fixed |-> spec.fixed]
<1>1. WithMetadataAndImages(spec, t) =
        [f \in DOMAIN spec |->
           IF f = "image" THEN t.image ELSE IF f = "stamp" THEN t.stamp
           ELSE IF f = "restarted" THEN t.restarted ELSE IF f = "meta" THEN t.meta
           ELSE spec[f]]
    BY Zenon DEF WithMetadataAndImages
<1>2. /\ DOMAIN spec = DOMAIN m
      /\ \A f \in DOMAIN m :
            m[f] = IF f = "image" THEN t.image ELSE IF f = "stamp" THEN t.stamp
                   ELSE IF f = "restarted" THEN t.restarted ELSE IF f = "meta" THEN t.meta
                   ELSE spec[f]
    BY DEF Template
<1> QED
    BY <1>1, <1>2

-----------------------------------------------------------------------------
(***************************************************************************)
(* Steps of the kubelet.                                                   *)
(***************************************************************************)
\* On the way to its own spec.
Underway(pod) ==
    /\ pod.phase = "Active" /\ pod.resize # "Infeasible"
    /\ ~pod.ready \/ pod.image # pod.spec.image \/ pod.resize = "Pending"

\* The Pod keeps its spec, a verdict stands, and a Pod that was where it should be
\* stays there.
Progress(old, new) ==
    /\ old.phase = "Active" /\ new.phase \in {"Active", "Evicted"}
    /\ new.spec = old.spec /\ new.refused = old.refused
    /\ new.resize # Nil => old.resize # Nil
    /\ old.resize = "Infeasible" => new.resize = "Infeasible"
    /\ Underway(new) => Underway(old)

LEMMA KnownPods ==
    ASSUME TypeOK, NEW p \in PodIds
    PROVE  /\ pods[p] # NoPod => pods[p] \in Pod
           /\ IsActive(p) => pods[p] \in Pod
           /\ pods[p] \in Pod => pods[p] # NoPod
BY DEF TypeOK, IsActive, NoPod, Pod

\* Everything that happens to a Pod on its node.
LEMMA NodeFacts ==
    ASSUME TypeOK, NEW p \in PodIds, Kubelet(p) \/ KubeletInfeasible(p) \/ Evict(p)
    PROVE  \E x \in Pod : Write(p, x) /\ Progress(pods[p], x)
<1>0. pods[p] \in Pod /\ IsActive(p)
    BY KnownPods DEF Kubelet, KubeletRestart, KubeletReady, KubeletResize, KubeletInfeasible, Evict
<1>1. CASE KubeletRestart(p)
    <2> DEFINE x == [pods[p] EXCEPT !.image = pods[p].spec.image, !.ready = FALSE]
    <2>1. x = [f \in DOMAIN pods[p] |->
                 IF f = "ready" THEN FALSE ELSE IF f = "image" THEN pods[p].spec.image
                 ELSE pods[p][f]]
        BY Zenon
    <2>2. pods[p].spec.image \in FieldValues("image")
        BY <1>0 DEF Pod, Template
    <2>3. /\ x \in Pod /\ x.phase = pods[p].phase /\ x.spec = pods[p].spec
          /\ x.refused = pods[p].refused /\ x.resize = pods[p].resize
        BY <1>0, <2>1, <2>2 DEF Pod
    <2> HIDE DEF x
    <2>4. Progress(pods[p], x)
        BY <1>0, <1>1, <2>3 DEF Progress, Underway, KubeletRestart, IsActive
    <2> QED
        BY <1>1, <2>3, <2>4 DEF KubeletRestart, x
<1>2. CASE KubeletReady(p)
    <2> DEFINE x == [pods[p] EXCEPT !.ready = TRUE]
    <2>1. x \in Pod /\ Progress(pods[p], x)
        BY <1>0 DEF Pod, Progress, Underway, IsActive
    <2> QED
        BY <1>2, <2>1 DEF KubeletReady
<1>3. CASE KubeletResize(p)
    <2>1. PICK ready \in {pods[p].ready, FALSE} :
             Write(p, [pods[p] EXCEPT !.resize = Nil, !.cpu = pods[p].spec.cpu, !.ready = ready])
        BY <1>3 DEF KubeletResize
    <2> DEFINE x == [pods[p] EXCEPT !.resize = Nil, !.cpu = pods[p].spec.cpu, !.ready = ready]
    <2>2. x = [f \in DOMAIN pods[p] |->
                 IF f = "ready" THEN ready ELSE IF f = "cpu" THEN pods[p].spec.cpu
                 ELSE IF f = "resize" THEN Nil ELSE pods[p][f]]
        BY Zenon
    <2>3. pods[p].spec.cpu \in FieldValues("cpu") /\ ready \in BOOLEAN
        BY <1>0 DEF Pod, Template
    <2>4. /\ x \in Pod /\ x.phase = pods[p].phase /\ x.spec = pods[p].spec
          /\ x.refused = pods[p].refused /\ x.resize = Nil
        BY <1>0, <2>2, <2>3 DEF Pod
    <2> HIDE DEF x
    <2>5. Progress(pods[p], x)
        BY <1>0, <1>3, <2>4, VerdictAssumption DEF Progress, Underway, KubeletResize, IsActive
    <2> QED
        BY <2>1, <2>4, <2>5 DEF x
<1>4. CASE KubeletInfeasible(p)
    <2> DEFINE x == [pods[p] EXCEPT !.resize = "Infeasible"]
    <2>1. x \in Pod /\ Progress(pods[p], x)
        BY <1>0, <1>4, VerdictAssumption DEF Pod, Progress, Underway, IsActive, KubeletInfeasible
    <2> QED
        BY <1>4, <2>1 DEF KubeletInfeasible
<1>5. CASE Evict(p)
    <2> DEFINE x == [pods[p] EXCEPT !.phase = "Evicted"]
    <2>1. x \in Pod /\ Progress(pods[p], x)
        BY <1>0 DEF Pod, Progress, Underway, IsActive
    <2> QED
        BY <1>5, <2>1 DEF Evict
<1> QED
    BY <1>1, <1>2, <1>3, <1>4, <1>5 DEF Kubelet

-----------------------------------------------------------------------------
(***************************************************************************)
(* The inductive invariant.                                                *)
(***************************************************************************)
\* The policy the structure was computed with; a paused Deployment may have written
\* another one since.
StructurePolicy == rset.template.stamp.resourcePolicy

\* A spec has the fields that an edit in place leaves alone as the ReplicaSet's
\* template has them.
Agrees(spec) ==
    /\ spec.stamp = rset.template.stamp
    /\ spec.fixed = rset.template.fixed
    /\ spec.restarted = rset.template.restarted
    /\ ~ResizeResources(StructurePolicy) => spec.cpu = rset.template.cpu

\* All copies of the ReplicaSet and all Pods are of one structure, and where Pods are
\* updated the policy is the structure's.
OneStructure ==
    /\ InStep(rset) /\ InStep(cached)
    /\ cached.template.stamp = rset.template.stamp
    /\ rctx # Idle => rctx.obj.template.stamp = rset.template.stamp /\ InStep(rctx.obj)
    /\ \A p \in PodIds : pods[p] # NoPod =>
          Agrees(pods[p].spec) /\ (pods[p].resize # Nil => ResizeResources(StructurePolicy))

\* The reconcile looks at Pods that exist or existed, and a verdict it has listed
\* still stands when the loop comes to the Pod.
VerdictsStand ==
    Updating =>
        /\ \A p \in DOMAIN rctx.seen : pods[p] # NoPod
        /\ \A p \in rctx.left : rctx.seen[p].resize = "Infeasible" /\ IsActive(p)
                                  => pods[p].resize = "Infeasible"

\* A resize is under way only where the workload opted in, and a Pod is given up
\* only if it was refused or is gone.
CallsJustified ==
    /\ rctx.pc \in {"resize", "replace"} =>
          /\ rctx.pod \in DOMAIN rctx.seen
          /\ ResizeResources(rctx.obj.policy)
          /\ rctx.inFlight < ReplicaSetParallelism(rctx.obj)
    /\ rctx.pc = "replace" => ~IsActive(rctx.pod) \/ pods[rctx.pod].refused

\* inFlight, counted once, is never less than what there is to count; without a
\* budget it is not used.
Counted ==
    Updating /\ rctx.obj.parallelism # 0 => Cardinality(Disturbed(rctx)) <= rctx.inFlight

Inv == TypeOK /\ OneStructure /\ VerdictsStand /\ CallsJustified /\ Counted

-----------------------------------------------------------------------------
(***************************************************************************)
(* Counting.                                                               *)
(***************************************************************************)
LEMMA BudgetType ==
    ASSUME NEW x
    PROVE  /\ ReplicaSetParallelism(x) \in Nat
           /\ x.parallelism = 0 => ReplicaSetParallelism(x) = 0
BY DEF ReplicaSetParallelism

LEMMA PodIdsFinite == IsFiniteSet(PodIds)
BY ReplicasAssumption, BoundsAssumption, FS_Interval DEF PodIds

\* A set with at most one more element.
LEMMA OneMore ==
    ASSUME NEW S, NEW T, NEW p, IsFiniteSet(S)
    PROVE  /\ Cardinality(S) \in Nat
           /\ T \subseteq S => Cardinality(T) <= Cardinality(S)
           /\ T \subseteq S \cup {p} => Cardinality(T) <= Cardinality(S) + 1
<1>1. IsFiniteSet(S \cup {p}) /\ Cardinality(S) \in Nat
    BY FS_AddElement, FS_CardinalityType
<1>2. Cardinality(S \cup {p}) \in Nat /\ Cardinality(S \cup {p}) <= Cardinality(S) + 1
    <2>1. Cardinality(S \cup {p}) = IF p \in S THEN Cardinality(S) ELSE Cardinality(S) + 1
        BY FS_AddElement
    <2> QED
        BY <1>1, <2>1
<1>3. ASSUME T \subseteq S \cup {p} PROVE Cardinality(T) <= Cardinality(S) + 1
    <2>1. Cardinality(T) <= Cardinality(S \cup {p}) /\ Cardinality(T) \in Nat
        BY <1>1, <1>3, FS_Subset, FS_CardinalityType
    <2> QED
        BY <1>1, <1>2, <2>1
<1>4. ASSUME T \subseteq S PROVE Cardinality(T) <= Cardinality(S)
    BY <1>4, FS_Subset
<1> QED
    BY <1>1, <1>3, <1>4

\* What makes a Pod count, for a reconcile with template t.
Disturbing(pod, t) == pod.phase = "Replaced" \/ (pod.spec = t /\ Underway(pod))

LEMMA DisturbedPods ==
    /\ Disturbed(rctx) = {p \in DOMAIN rctx.seen : Disturbing(pods[p], rctx.obj.template)}
    /\ Disturbed(rctx)' = {p \in DOMAIN rctx'.seen : Disturbing(pods'[p], rctx'.obj.template)}
<1>1. ASSUME NEW pod, NEW t
      PROVE  Disturbing(pod, t) <=>
               \/ pod.phase = "Replaced"
               \/ /\ pod.phase = "Active" /\ pod.spec = t /\ pod.resize # "Infeasible"
                  /\ ~pod.ready \/ pod.image # t.image \/ pod.resize = "Pending"
    BY DEF Disturbing, Underway
<1> QED
    BY <1>1 DEF Disturbed, IsActive

LEMMA DisturbedFinite ==
    ASSUME TypeOK, Updating
    PROVE  IsFiniteSet(Disturbed(rctx))
<1>1. Disturbed(rctx) \subseteq PodIds
    BY ContextKinds DEF Disturbed
<1> QED
    BY <1>1, PodIdsFinite, FS_Subset

-----------------------------------------------------------------------------
(***************************************************************************)
(* Steps of the loop of updatePods.                                        *)
(***************************************************************************)
\* The Pod p becomes x.  Either the loop is done with p, or it will resize or
\* replace p next and x does not count more than p did.
LoopStep(p, x) ==
    /\ Updating /\ p \in DOMAIN rctx.seen
    /\ x \in Pod /\ pods' = [pods EXCEPT ![p] = x]
    /\ rctx' \in UpdateContext(DOMAIN rctx.seen)
    /\ rctx'.obj = rctx.obj
    /\ \A q \in DOMAIN rctx.seen \ {p} : rctx'.seen[q] = rctx.seen[q]
    /\ rctx'.left \subseteq rctx.left
    /\ \/ rctx'.pc = "update" /\ rctx'.inFlight = rctx.inFlight + 1 /\ p \notin rctx'.left
       \/ /\ rctx'.inFlight = rctx.inFlight
          /\ Disturbing(x, rctx.obj.template) => Disturbing(pods[p], rctx.obj.template)
          /\ p \in rctx'.left /\ rctx'.seen[p].resize = "Infeasible" /\ x.phase = "Active"
             => x.resize = "Infeasible"

\* Such a step keeps the invariant, but for what CallsJustified says of p.
LEMMA LoopStepInv ==
    ASSUME Inv, NEW p, NEW x, LoopStep(p, x), UNCHANGED <<rset, status, cached, cachedStatus, edits>>,
           faults' \in 0..MaxFaults, Agrees(x.spec),
           x.resize # Nil => ResizeResources(StructurePolicy)
    PROVE  TypeOK' /\ OneStructure' /\ VerdictsStand' /\ Counted'
<1> DEFINE P == DOMAIN rctx.seen
<1>0. TypeOK /\ Updating /\ P \subseteq PodIds /\ rctx \in UpdateContext(P) /\ p \in P
    BY ContextKinds DEF Inv, LoopStep
<1>1. /\ pods \in [PodIds -> Pod \cup {NoPod}]
      /\ pods' \in [PodIds -> Pod \cup {NoPod}]
      /\ pods'[p] = x /\ x \in Pod
      /\ \A q \in PodIds \ {p} : pods'[q] = pods[q]
    BY <1>0 DEF LoopStep, TypeOK
<1>2. /\ rctx' \in UpdateContext(P) /\ DOMAIN rctx'.seen = P /\ rctx'.obj = rctx.obj
      /\ rctx # Idle /\ rctx'.left \subseteq P /\ rctx'.inFlight \in Nat
      /\ rctx.inFlight \in Nat
    BY <1>0 DEF LoopStep, UpdateContext, Idle
<1>3. TypeOK'
    BY <1>0, <1>1, <1>2 DEF TypeOK
<1>4. OneStructure'
    <2>1. rctx'.obj.template.stamp = rset.template.stamp /\ InStep(rctx'.obj)
        BY <1>2 DEF Inv, OneStructure
    <2>2. \A q \in PodIds : pods'[q] # NoPod =>
             Agrees(pods'[q].spec) /\ (pods'[q].resize # Nil => ResizeResources(StructurePolicy))
        BY <1>1 DEF Inv, OneStructure
    <2> QED
        BY <2>1, <2>2 DEF Inv, OneStructure, Agrees, StructurePolicy
<1>5. VerdictsStand'
    <2>1. \A q \in P : pods'[q] # NoPod
        BY <1>0, <1>1 DEF Inv, VerdictsStand, NoPod, Pod
    <2>2. ASSUME NEW q \in rctx'.left, rctx'.seen[q].resize = "Infeasible", IsActive(q)'
          PROVE  pods'[q].resize = "Infeasible"
        <3>1. CASE q # p
            <4>1. /\ q \in rctx.left /\ q \in P /\ rctx'.seen[q] = rctx.seen[q]
                  /\ pods'[q] = pods[q]
                BY <1>0, <1>1, <1>2, <2>2, <3>1 DEF LoopStep
            <4> QED
                BY <1>0, <2>2, <4>1 DEF Inv, VerdictsStand, IsActive
        <3>2. CASE q = p
            BY <1>1, <2>2, <3>2 DEF LoopStep, IsActive
        <3> QED
            BY <3>1, <3>2
    <2> QED
        BY <1>2, <2>1, <2>2 DEF VerdictsStand
<1>6. Counted'
    <2> SUFFICES ASSUME rctx.obj.parallelism # 0
                 PROVE  Cardinality(Disturbed(rctx)') <= rctx'.inFlight
        BY <1>2 DEF Counted
    <2> DEFINE S == Disturbed(rctx)
               T == Disturbed(rctx)'
    <2>1. T = {q \in P : Disturbing(pods'[q], rctx.obj.template)}
        BY <1>2, DisturbedPods
    <2>2. S = {q \in P : Disturbing(pods[q], rctx.obj.template)}
        BY DisturbedPods
    <2>3. T \subseteq S \cup {p}
        BY <1>0, <1>1, <2>1, <2>2
    <2>4. Cardinality(S) <= rctx.inFlight /\ IsFiniteSet(S)
        BY <1>0, DisturbedFinite DEF Inv, Counted
    <2> HIDE DEF S, T
    <2>5. CASE rctx'.inFlight = rctx.inFlight + 1
        <3>1. Cardinality(T) <= Cardinality(S) + 1 /\ Cardinality(S) \in Nat
            BY <2>3, <2>4, OneMore
        <3>2. Cardinality(T) \in Nat
            BY <2>3, <2>4, FS_AddElement, FS_Subset, FS_CardinalityType
        <3>3. Cardinality(T) <= rctx'.inFlight
            BY <1>2, <2>4, <2>5, <3>1, <3>2
        <3> QED
            BY <3>3 DEF T
    <2>6. CASE /\ rctx'.inFlight = rctx.inFlight
               /\ Disturbing(x, rctx.obj.template) => Disturbing(pods[p], rctx.obj.template)
        <3>1. T \subseteq S
            BY <1>0, <1>1, <2>1, <2>2, <2>6
        <3>2. Cardinality(T) <= Cardinality(S) /\ Cardinality(S) \in Nat
            BY <2>4, <3>1, OneMore
        <3>3. Cardinality(T) \in Nat
            BY <2>4, <3>1, FS_Subset, FS_CardinalityType
        <3>4. Cardinality(T) <= rctx'.inFlight
            BY <1>2, <2>4, <2>6, <3>2, <3>3
        <3> QED
            BY <3>4 DEF T
    <2> QED
        BY <2>5, <2>6 DEF LoopStep
<1> QED
    BY <1>3, <1>4, <1>5, <1>6

LEMMA MovedStep ==
    ASSUME NEW P \in SUBSET PodIds, NEW c \in UpdateContext(P), NEW p \in P
    PROVE  /\ Moved(c, p) \in UpdateContext(P)
           /\ Moved(c, p).pc = "update" /\ Moved(c, p).obj = c.obj /\ Moved(c, p).seen = c.seen
           /\ Moved(c, p).inFlight = c.inFlight + 1
           /\ Moved(c, p).left \subseteq c.left /\ p \notin Moved(c, p).left
<1>1. p \in Int
    BY DEF PodIds
<1>2. p \notin {q \in c.left : q > p}
    BY <1>1
<1>3. c.base \in Nat /\ c.inFlight + 1 \in Nat /\ c.seen \in [P -> Pod]
    BY DEF UpdateContext
<1> DEFINE left == {q \in c.left : q > p}
<1>4. left \in SUBSET P /\ p \notin left /\ left \subseteq c.left
    BY <1>2 DEF UpdateContext
<1>5. Moved(c, p) = [pc |-> "update", obj |-> c.obj, base |-> c.base, seen |-> c.seen,
                     left |-> left, inFlight |-> c.inFlight + 1, pod |-> Nil,
                     touched |-> c.touched]
    BY MovedFields
<1> HIDE DEF left
<1> QED
    BY <1>3, <1>4, <1>5 DEF UpdateContext

LEMMA DueFacts ==
    ASSUME TypeOK, rctx.pc = "update", NEW p \in NextDue(rctx)
    PROVE  /\ p \in rctx.left /\ p \in DOMAIN rctx.seen /\ p \in PodIds
           /\ rctx.inFlight < ReplicaSetParallelism(rctx.obj)
<1>1. DOMAIN rctx.seen \subseteq PodIds /\ rctx \in UpdateContext(DOMAIN rctx.seen)
    BY ContextKinds DEF Updating
<1>2. p \in Due(rctx)
    BY DEF NextDue
<1>3. p \in rctx.left /\ ~(rctx.inFlight >= ReplicaSetParallelism(rctx.obj))
    BY <1>2 DEF Due
<1> QED
    BY <1>1, <1>3, BudgetType DEF UpdateContext

\* A deleted Pod is not active any more, and otherwise as it was.
LEMMA DeleteFacts ==
    ASSUME TypeOK, NEW p \in PodIds, pods[p] # NoPod, Delete(p)
    PROVE  \E x \in Pod : /\ pods' = [pods EXCEPT ![p] = x]
                          /\ x.spec = pods[p].spec /\ x.resize = pods[p].resize
                          /\ x.phase # "Active"
<1>0. pods[p] \in Pod /\ pods \in [PodIds -> Pod \cup {NoPod}]
    BY KnownPods DEF TypeOK
<1>1. CASE IsActive(p)
    <2> DEFINE x == [pods[p] EXCEPT !.phase = "Replaced"]
    <2>1. /\ x \in Pod /\ x.spec = pods[p].spec /\ x.resize = pods[p].resize
          /\ x.phase # "Active"
        BY <1>0 DEF Pod
    <2>2. pods' = [pods EXCEPT ![p] = x]
        BY <1>0, <1>1 DEF Delete
    <2> QED
        BY <2>1, <2>2
<1>2. CASE ~IsActive(p)
    <2>1. pods' = [pods EXCEPT ![p] = pods[p]]
        BY <1>0, <1>2 DEF Delete
    <2> QED
        BY <1>0, <1>2, <2>1 DEF IsActive
<1> QED
    BY <1>1, <1>2

\* The Pods of a reconcile exist and agree with the ReplicaSet's structure, and
\* so does the reconcile's template.
LEMMA CandidateFacts ==
    ASSUME Inv, Updating, NEW p \in DOMAIN rctx.seen
    PROVE  /\ p \in PodIds /\ pods[p] # NoPod /\ pods[p] \in Pod
           /\ Agrees(pods[p].spec)
           /\ pods[p].resize # Nil => ResizeResources(StructurePolicy)
           /\ rctx.obj \in ReplicaSets /\ rctx.obj.template \in Template
           /\ Agrees(rctx.obj.template)
<1>1. /\ TypeOK /\ DOMAIN rctx.seen \subseteq PodIds /\ rctx.obj \in ReplicaSets
      /\ rctx # Idle /\ rset \in ReplicaSets
    BY ContextKinds DEF Inv, TypeOK, UpdateContext, Updating, Idle
<1>2. p \in PodIds /\ pods[p] # NoPod /\ pods[p] \in Pod
    BY <1>1, KnownPods DEF Inv, VerdictsStand
<1>3. Agrees(pods[p].spec) /\ (pods[p].resize # Nil => ResizeResources(StructurePolicy))
    BY <1>2 DEF Inv, OneStructure
<1>4. rctx.obj.template.stamp = rset.template.stamp
    BY <1>1 DEF Inv, OneStructure
<1> QED
    BY <1>1, <1>2, <1>3, <1>4, StampDetermines, ReplicaSetType DEF Agrees, StructurePolicy

\* While there is a budget left, the policy is the structure's.
LEMMA PolicyStands ==
    ASSUME Inv, Updating, rctx.inFlight < ReplicaSetParallelism(rctx.obj)
    PROVE  rctx.obj.parallelism # 0 /\ rctx.obj.policy = StructurePolicy
<1>1. rctx.inFlight \in Nat /\ rctx # Idle
    BY ContextKinds DEF Inv, UpdateContext, Updating, Idle
<1>2. rctx.obj.parallelism # 0
    BY <1>1, BudgetType
<1> QED
    BY <1>1, <1>2 DEF Inv, OneStructure, InStep, StructurePolicy

LEMMA DeleteInfeasibleInv ==
    ASSUME Inv, RDeleteInfeasible
    PROVE  Inv'
<1>0. TypeOK /\ Updating /\ UNCHANGED <<rset, status, cached, cachedStatus, edits, faults>>
    BY DEF Inv, RDeleteInfeasible, Updating
<1>1. PICK p \in NextDue(rctx) : Delete(p) /\ rctx' = Moved(rctx, p)
    BY DEF RDeleteInfeasible
<1>2. p \in DOMAIN rctx.seen /\ p \in PodIds
    BY <1>0, <1>1, DueFacts DEF RDeleteInfeasible
<1>3. PICK x \in Pod : /\ pods' = [pods EXCEPT ![p] = x]
                       /\ x.spec = pods[p].spec /\ x.resize = pods[p].resize
    BY <1>0, <1>1, <1>2, CandidateFacts, DeleteFacts
<1>4. /\ rctx \in UpdateContext(DOMAIN rctx.seen) /\ DOMAIN rctx.seen \subseteq PodIds
    BY <1>0, ContextKinds
<1>5. LoopStep(p, x) /\ rctx'.pc = "update"
    BY <1>0, <1>1, <1>2, <1>3, <1>4, MovedStep DEF LoopStep
<1>6. TypeOK' /\ OneStructure' /\ VerdictsStand' /\ Counted'
    BY <1>0, <1>2, <1>3, <1>5, CandidateFacts, LoopStepInv DEF Inv, TypeOK
<1> QED
    BY <1>5, <1>6 DEF Inv, CallsJustified

LEMMA ReplacePodInv ==
    ASSUME Inv, RReplacePod
    PROVE  Inv'
<1> DEFINE p == rctx.pod
<1>0. TypeOK /\ Updating /\ UNCHANGED <<rset, status, cached, cachedStatus, edits, faults>>
    BY DEF Inv, RReplacePod, Updating
<1>1. Delete(p) /\ rctx' = Moved(rctx, p)
    BY DEF RReplacePod
<1>2. /\ p \in DOMAIN rctx.seen
      /\ rctx \in UpdateContext(DOMAIN rctx.seen) /\ DOMAIN rctx.seen \subseteq PodIds
    BY <1>0, ContextKinds DEF Inv, CallsJustified, RReplacePod
<1> HIDE DEF p
<1>3. PICK x \in Pod : /\ pods' = [pods EXCEPT ![p] = x]
                       /\ x.spec = pods[p].spec /\ x.resize = pods[p].resize
    BY <1>0, <1>1, <1>2, CandidateFacts, DeleteFacts
<1>5. LoopStep(p, x) /\ rctx'.pc = "update"
    BY <1>0, <1>1, <1>2, <1>3, MovedStep DEF LoopStep
<1>6. TypeOK' /\ OneStructure' /\ VerdictsStand' /\ Counted'
    BY <1>0, <1>2, <1>3, <1>5, CandidateFacts, LoopStepInv DEF Inv, TypeOK
<1> QED
    BY <1>5, <1>6 DEF Inv, CallsJustified

\* Replacing one Pod in the reconcile's copies.
LEMMA SeenAnswer ==
    ASSUME NEW P \in SUBSET PodIds, NEW c \in UpdateContext(P), NEW p \in P, NEW y \in Pod
    PROVE  /\ [c EXCEPT !.seen[p] = y] \in UpdateContext(P)
           /\ [c EXCEPT !.seen[p] = y].obj = c.obj
           /\ [c EXCEPT !.seen[p] = y].left = c.left
           /\ [c EXCEPT !.seen[p] = y].inFlight = c.inFlight
           /\ \A q \in P \ {p} : [c EXCEPT !.seen[p] = y].seen[q] = c.seen[q]
<1> DEFINE e == [c EXCEPT !.seen[p] = y]
           s == [c.seen EXCEPT ![p] = y]
<1>1. e = [f \in DOMAIN c |-> IF f = "seen" THEN s ELSE c[f]]
    BY Zenon
<1>2. c.seen \in [P -> Pod]
    BY DEF UpdateContext
<1>3. s \in [P -> Pod] /\ \A q \in P \ {p} : s[q] = c.seen[q]
    BY <1>2
<1> HIDE DEF e, s
<1>4. e \in UpdateContext(P) /\ e.seen = s /\ e.obj = c.obj /\ e.left = c.left
      /\ e.inFlight = c.inFlight
    BY <1>1, <1>3 DEF UpdateContext
<1> QED
    BY <1>3, <1>4 DEF e

\* The merge patch of an active Pod.
LEMMA PatchFacts ==
    ASSUME Inv, Updating, NEW p \in DOMAIN rctx.seen, NEW x,
           x = [pods[p] EXCEPT !.spec = WithMetadataAndImages(@, rctx.obj.template)]
    PROVE  /\ x \in Pod /\ Agrees(x.spec)
           /\ x.resize = pods[p].resize /\ x.phase = pods[p].phase
           /\ x.refused = pods[p].refused
<1> DEFINE t == rctx.obj.template
<1>1. /\ pods[p] \in Pod /\ pods[p].spec \in Template /\ t \in Template
      /\ Agrees(pods[p].spec) /\ Agrees(t)
    BY CandidateFacts DEF Pod
<1>2. WithMetadataAndImages(pods[p].spec, t) =
             [meta |-> t.meta, restarted |-> t.restarted, stamp |-> t.stamp,
              image |-> t.image, cpu |-> pods[p].spec.cpu, fixed |-> pods[p].spec.fixed]
    BY <1>1, PatchedFields
<1>3. WithMetadataAndImages(pods[p].spec, t) \in Template
    BY <1>1, <1>2 DEF Template
<1>4. Agrees(WithMetadataAndImages(pods[p].spec, t))
    BY <1>1, <1>2 DEF Agrees
<1>5. x = [pods[p] EXCEPT !.spec = WithMetadataAndImages(pods[p].spec, t)]
    OBVIOUS
<1> HIDE DEF t
<1> QED
    BY <1>1, <1>3, <1>4, <1>5 DEF Pod

\* Resources written into the local copy or by an accepted resize.
LEMMA ResourcesFacts ==
    ASSUME NEW spec \in Template, NEW t \in Template
    PROVE  /\ WithResources(spec, t) \in Template
           /\ WithResources(spec, t).stamp = spec.stamp
           /\ WithResources(spec, t).fixed = spec.fixed
           /\ WithResources(spec, t).restarted = spec.restarted
BY DEF WithResources, Template

LEMMA PatchPodInv ==
    ASSUME Inv, RPatchPod
    PROVE  Inv'
<1> DEFINE P == DOMAIN rctx.seen
           t == rctx.obj.template
           new(p) == [pods[p] EXCEPT !.spec = WithMetadataAndImages(@, t)]
           resize(p) == ResizeResources(rctx.obj.policy) /\ ~HasResources(new(p).spec, t)
           copy(p) == [new(p) EXCEPT !.spec = WithResources(@, t)]
<1>0. TypeOK /\ Updating /\ UNCHANGED <<rset, status, cached, cachedStatus, edits, faults>>
    BY DEF Inv, RPatchPod, Updating
<1>1. PICK p \in NextDue(rctx) :
        /\ pods' = IF IsActive(p) THEN [pods EXCEPT ![p] = new(p)] ELSE pods
        /\ rctx' = IF ~IsActive(p) THEN Idle
                   ELSE IF resize(p)
                   THEN [rctx EXCEPT !.pc = "resize", !.pod = p, !.touched = FALSE,
                                     !.seen[p] = copy(p)]
                   ELSE Moved([rctx EXCEPT !.seen[p] = new(p)], p)
    BY DEF RPatchPod
<1>2. /\ p \in P /\ p \in PodIds /\ P \in SUBSET PodIds /\ rctx \in UpdateContext(P)
      /\ rctx.inFlight < ReplicaSetParallelism(rctx.obj)
    BY <1>0, <1>1, DueFacts, ContextKinds DEF RPatchPod
<1> DEFINE x == new(p)
<1>3. /\ x \in Pod /\ Agrees(x.spec) /\ x.resize = pods[p].resize /\ x.phase = pods[p].phase
    BY <1>0, <1>2, PatchFacts
<1>4. x.resize # Nil => ResizeResources(StructurePolicy)
    BY <1>0, <1>2, <1>3, CandidateFacts
<1>5. CASE ~IsActive(p)
    <2>1. rctx' = Idle /\ pods' = pods
        BY <1>1, <1>5
    <2>2. rctx'.pc = "idle"
        BY <2>1 DEF Idle
    <2> QED
        BY <1>0, <2>1, <2>2 DEF Inv, TypeOK, OneStructure, VerdictsStand, CallsJustified,
                                Counted, Updating, Agrees, StructurePolicy
<1>6. CASE IsActive(p) /\ ~resize(p)
    <2>1. pods' = [pods EXCEPT ![p] = x] /\ rctx' = Moved([rctx EXCEPT !.seen[p] = x], p)
        BY <1>1, <1>6
    <2> HIDE DEF x, new, resize, copy
    <2>2. LoopStep(p, x) /\ rctx'.pc = "update"
        <3> DEFINE c == [rctx EXCEPT !.seen[p] = x]
        <3>1. /\ c \in UpdateContext(P) /\ c.obj = rctx.obj /\ c.left = rctx.left
              /\ c.inFlight = rctx.inFlight
              /\ \A q \in P \ {p} : c.seen[q] = rctx.seen[q]
            BY <1>2, <1>3, SeenAnswer
        <3>2. rctx' = Moved(c, p)
            BY <2>1
        <3> HIDE DEF c
        <3> QED
            <4>1. /\ rctx' \in UpdateContext(P) /\ rctx'.pc = "update" /\ rctx'.obj = rctx.obj
                  /\ rctx'.inFlight = rctx.inFlight + 1 /\ rctx'.seen = c.seen
                  /\ rctx'.left \subseteq rctx.left /\ p \notin rctx'.left
                BY <1>2, <3>1, <3>2, MovedStep
            <4> QED
                BY <1>0, <1>2, <1>3, <2>1, <3>1, <4>1 DEF LoopStep
    <2>3. TypeOK' /\ OneStructure' /\ VerdictsStand' /\ Counted'
        BY <1>0, <1>3, <1>4, <2>2, LoopStepInv DEF Inv, TypeOK
    <2> QED
        BY <2>2, <2>3 DEF Inv, CallsJustified
<1>7. CASE IsActive(p) /\ resize(p)
    <2>1. /\ pods' = [pods EXCEPT ![p] = x]
          /\ rctx' = [rctx EXCEPT !.pc = "resize", !.pod = p, !.touched = FALSE,
                                  !.seen[p] = copy(p)]
        BY <1>1, <1>7
    <2>2. ResizeResources(rctx.obj.policy) /\ x.spec.cpu # t.cpu
        BY <1>7 DEF HasResources
    <2>3. copy(p) = [x EXCEPT !.spec = WithResources(x.spec, t)]
        OBVIOUS
    <2> HIDE DEF x, new, resize
    <2>4. copy(p) \in Pod /\ copy(p).resize = x.resize
        <3>1. x.spec \in Template /\ t \in Template
            BY <1>0, <1>2, <1>3, CandidateFacts DEF Pod
        <3>2. WithResources(x.spec, t) \in Template
            BY <3>1, ResourcesFacts
        <3> HIDE DEF copy
        <3> QED
            BY <1>3, <2>3, <3>2 DEF Pod
    <2> DEFINE y == copy(p)
               s == [rctx.seen EXCEPT ![p] = y]
    <2>5. rctx' = [f \in DOMAIN rctx |->
                     IF f = "seen" THEN s ELSE IF f = "touched" THEN FALSE
                     ELSE IF f = "pod" THEN p ELSE IF f = "pc" THEN "resize" ELSE rctx[f]]
        BY <2>1, Zenon
    <2> HIDE DEF copy, y
    <2>6. rctx.seen \in [P -> Pod] /\ y \in Pod /\ y.resize = x.resize
        BY <1>2, <2>4 DEF UpdateContext, y
    <2>7. s \in [P -> Pod] /\ s[p] = y /\ \A q \in P \ {p} : s[q] = rctx.seen[q]
        BY <1>2, <2>6
    <2> HIDE DEF s
    <2>8. /\ rctx' \in UpdateContext(P) /\ rctx'.obj = rctx.obj /\ rctx'.seen = s
          /\ rctx'.left = rctx.left /\ rctx'.inFlight = rctx.inFlight /\ rctx'.pc = "resize"
          /\ rctx'.pod = p
        BY <1>2, <2>5, <2>7 DEF UpdateContext
    <2>9. x.phase = "Active" /\ x.spec # t
        BY <1>3, <1>7, <2>2 DEF IsActive
    <2>10. ~Disturbing(x, rctx.obj.template)
        BY <2>9 DEF Disturbing
    <2>11. LoopStep(p, x)
        BY <1>0, <1>2, <1>3, <2>1, <2>6, <2>7, <2>8, <2>10 DEF LoopStep
    <2>12. TypeOK' /\ OneStructure' /\ VerdictsStand' /\ Counted'
        BY <1>0, <1>3, <1>4, <2>11, LoopStepInv DEF Inv, TypeOK
    <2>13. CallsJustified'
        <3>1. DOMAIN rctx'.seen = P
            BY <2>7, <2>8
        <3> QED
            BY <1>2, <2>2, <2>8, <3>1 DEF CallsJustified
    <2> QED
        BY <2>12, <2>13 DEF Inv
<1> QED
    BY <1>5, <1>6, <1>7

LEMMA ResizeAcceptedInv ==
    ASSUME Inv, RResizeAccepted
    PROVE  Inv'
<1> DEFINE P == DOMAIN rctx.seen
           p == rctx.pod
           t == rctx.obj.template
           x == [pods[p] EXCEPT !.spec = WithResources(@, t), !.resize = "Pending"]
<1>0. /\ TypeOK /\ Updating /\ UNCHANGED <<rset, status, cached, cachedStatus, edits, faults>>
      /\ IsActive(p) /\ rctx.pc = "resize"
    BY DEF Inv, RResizeAccepted, Updating
<1>1. /\ pods' = [pods EXCEPT ![p].spec = WithResources(@, t), ![p].resize = "Pending"]
      /\ rctx' = Moved([rctx EXCEPT !.seen[p] = pods'[p]], p)
    BY DEF RResizeAccepted
<1>2. /\ p \in P /\ P \in SUBSET PodIds /\ rctx \in UpdateContext(P)
      /\ ResizeResources(rctx.obj.policy)
    BY <1>0, ContextKinds DEF Inv, CallsJustified
<1>3. /\ pods[p] \in Pod /\ pods[p].spec \in Template /\ t \in Template
      /\ Agrees(pods[p].spec) /\ ResizeResources(StructurePolicy)
      /\ pods \in [PodIds -> Pod \cup {NoPod}]
    <2>1. rctx.obj.policy = StructurePolicy
        BY <1>0, <1>2, PolicyStands DEF Inv, CallsJustified
    <2> QED
        BY <1>0, <1>2, <2>1, CandidateFacts DEF Pod, TypeOK
<1>4. x = [f \in DOMAIN pods[p] |->
             IF f = "resize" THEN "Pending"
             ELSE IF f = "spec" THEN WithResources(pods[p].spec, t) ELSE pods[p][f]]
    BY Zenon
<1>5. pods' = [pods EXCEPT ![p] = x]
    <2>1. pods' = [q \in DOMAIN pods |-> IF q = p THEN x ELSE pods[q]]
        <3>1. DOMAIN pods = PodIds /\ p \in PodIds
            BY <1>2, <1>3
        <3>2. [pods EXCEPT ![p].spec = WithResources(@, t)]
                = [pods EXCEPT ![p] = [pods[p] EXCEPT !.spec = WithResources(pods[p].spec, t)]]
            OBVIOUS
        <3> QED
            BY <1>1, <3>1, Zenon
    <2> HIDE DEF x
    <2> QED
        BY <2>1
<1> HIDE DEF x
<1>6. x \in Pod /\ x.spec = WithResources(pods[p].spec, t)
    BY <1>3, <1>4, ResourcesFacts DEF Pod
<1>7. Agrees(x.spec)
    BY <1>3, <1>6, ResourcesFacts DEF Agrees
<1>8. LoopStep(p, x) /\ rctx'.pc = "update"
    <2> DEFINE c == [rctx EXCEPT !.seen[p] = x]
    <2>1. pods'[p] = x
        BY <1>2, <1>3, <1>5
    <2>2. rctx' = Moved(c, p)
        BY <1>1, <2>1
    <2>3. /\ c \in UpdateContext(P) /\ c.obj = rctx.obj /\ c.left = rctx.left
          /\ c.inFlight = rctx.inFlight
          /\ \A q \in P \ {p} : c.seen[q] = rctx.seen[q]
        BY <1>2, <1>6, SeenAnswer
    <2> HIDE DEF c
    <2> QED
        <3>1. /\ rctx' \in UpdateContext(P) /\ rctx'.pc = "update" /\ rctx'.obj = rctx.obj
              /\ rctx'.inFlight = rctx.inFlight + 1 /\ rctx'.seen = c.seen
              /\ rctx'.left \subseteq rctx.left /\ p \notin rctx'.left
            BY <1>2, <2>2, <2>3, MovedStep
        <3> QED
            BY <1>0, <1>2, <1>5, <1>6, <2>3, <3>1 DEF LoopStep
<1>9. TypeOK' /\ OneStructure' /\ VerdictsStand' /\ Counted'
    BY <1>0, <1>3, <1>7, <1>8, LoopStepInv DEF Inv, TypeOK
<1> QED
    BY <1>8, <1>9 DEF Inv, CallsJustified

\* The reconcile ends.
LEMMA IdleInv ==
    ASSUME Inv, rctx' = Idle, UNCHANGED <<rset, cached, cachedStatus, pods>>,
           status' \in Nat,
           edits' = edits, faults' \in 0..MaxFaults
    PROVE  Inv'
<1>1. rctx'.pc = "idle"
    BY DEF Idle
<1> QED
    BY <1>1 DEF Inv, TypeOK, OneStructure, VerdictsStand, CallsJustified, Counted, Updating,
                Agrees, StructurePolicy

\* A refused Pod, or one that is gone, is about to be replaced.
LEMMA GiveUpInv ==
    ASSUME Inv, rctx.pc = "resize", rctx' = [rctx EXCEPT !.pc = "replace"],
           NEW x \in Pod, pods' = [pods EXCEPT ![rctx.pod] = x],
           x.phase = pods[rctx.pod].phase, x.spec = pods[rctx.pod].spec,
           x.image = pods[rctx.pod].image, x.ready = pods[rctx.pod].ready,
           x.resize = pods[rctx.pod].resize,
           x.phase # "Active" \/ x.refused,
           UNCHANGED <<rset, status, cached, cachedStatus, edits>>, faults' \in 0..MaxFaults
    PROVE  Inv'
<1> DEFINE P == DOMAIN rctx.seen
           p == rctx.pod
<1>0. TypeOK /\ Updating
    BY DEF Inv, Updating
<1>1. /\ p \in P /\ P \in SUBSET PodIds /\ rctx \in UpdateContext(P)
      /\ ResizeResources(rctx.obj.policy) /\ rctx.inFlight < ReplicaSetParallelism(rctx.obj)
    BY <1>0, ContextKinds DEF Inv, CallsJustified
<1>2. /\ rctx' \in UpdateContext(P) /\ rctx'.obj = rctx.obj /\ rctx'.seen = rctx.seen
      /\ rctx'.left = rctx.left /\ rctx'.inFlight = rctx.inFlight /\ rctx'.pc = "replace"
      /\ rctx'.pod = p
    BY <1>1 DEF UpdateContext
<1>3. Disturbing(x, rctx.obj.template) => Disturbing(pods[p], rctx.obj.template)
    BY DEF Disturbing, Underway
<1>4. p \in rctx'.left /\ rctx'.seen[p].resize = "Infeasible" /\ x.phase = "Active"
      => x.resize = "Infeasible"
    <2>1. p \in rctx.left /\ rctx.seen[p].resize = "Infeasible" /\ pods[p].phase = "Active"
          => pods[p].resize = "Infeasible"
        BY <1>0 DEF Inv, VerdictsStand, IsActive
    <2> QED
        BY <1>2, <2>1
<1>5. LoopStep(p, x)
    BY <1>0, <1>1, <1>2, <1>3, <1>4 DEF LoopStep
<1>6. TypeOK' /\ OneStructure' /\ VerdictsStand' /\ Counted'
    BY <1>0, <1>1, <1>5, CandidateFacts, LoopStepInv
<1>7. pods'[p] = x
    BY <1>0, <1>1 DEF TypeOK
<1>8. CallsJustified'
    BY <1>1, <1>2, <1>7 DEF CallsJustified, IsActive
<1> QED
    BY <1>6, <1>8 DEF Inv

LEMMA ResizeErrorInv ==
    ASSUME Inv, RResizeOutdated \/ RResizeRefused
    PROVE  Inv'
<1> DEFINE p == rctx.pod
<1>0. /\ TypeOK /\ Updating /\ rctx.pc = "resize" /\ UNCHANGED <<rset, status, cached, cachedStatus, edits>>
      /\ faults' \in 0..MaxFaults
    BY BoundsAssumption DEF Inv, TypeOK, RResizeOutdated, RResizeRefused, Updating, Fault
<1>1. p \in DOMAIN rctx.seen
    BY <1>0 DEF Inv, CallsJustified
<1>2. pods[p] \in Pod /\ p \in PodIds /\ pods \in [PodIds -> Pod \cup {NoPod}]
    BY <1>0, <1>1, CandidateFacts DEF TypeOK
<1>3. CASE RResizeOutdated
    <2>1. CASE ~IsActive(p) /\ AfterResizeError("NotFound")
        <3>1. rctx' = [rctx EXCEPT !.pc = "replace"]
            BY <2>1 DEF AfterResizeError, FallbackFromResizeError
        <3>2. pods' = [pods EXCEPT ![p] = pods[p]]
            BY <1>2, <1>3 DEF RResizeOutdated
        <3>3. pods[p].phase # "Active"
            BY <2>1 DEF IsActive
        <3> QED
            BY <1>0, <1>2, <3>1, <3>2, <3>3, GiveUpInv
    <2>2. CASE AfterResizeError("Conflict")
        <3>1. rctx' = Idle
            BY <2>2 DEF AfterResizeError, FallbackFromResizeError
        <3> QED
            BY <1>0, <1>3, <3>1, IdleInv DEF RResizeOutdated, TypeOK
    <2> QED
        BY <1>3, <2>1, <2>2 DEF RResizeOutdated
<1>4. CASE RResizeRefused
    <2> DEFINE x == [pods[p] EXCEPT !.refused = TRUE]
    <2>1. /\ x \in Pod /\ x.phase = pods[p].phase /\ x.spec = pods[p].spec
          /\ x.image = pods[p].image /\ x.ready = pods[p].ready /\ x.resize = pods[p].resize
          /\ x.refused
        BY <1>2 DEF Pod
    <2>2. pods' = [pods EXCEPT ![p] = x]
        BY <1>2, <1>4 DEF RResizeRefused
    <2>3. rctx' = [rctx EXCEPT !.pc = "replace"]
        BY <1>4 DEF RResizeRefused, AfterResizeError, FallbackFromResizeError
    <2> HIDE DEF x
    <2> QED
        BY <1>0, <2>1, <2>2, <2>3, GiveUpInv
<1> QED
    BY <1>3, <1>4

\* A Pod as createPod makes it.
LEMMA NewPodFacts ==
    ASSUME NEW t \in Template, NEW ready \in BOOLEAN
    PROVE  /\ NewPod(t) \in Pod /\ [NewPod(t) EXCEPT !.ready = ready] \in Pod
           /\ NewPod(t).spec = t /\ NewPod(t).resize = Nil
           /\ [NewPod(t) EXCEPT !.ready = ready].spec = t
           /\ [NewPod(t) EXCEPT !.ready = ready].resize = Nil
<1>1. t.image \in FieldValues("image") /\ t.cpu \in FieldValues("cpu")
    BY DEF Template
<1>2. NewPod(t) \in Pod /\ NewPod(t).spec = t /\ NewPod(t).resize = Nil
    BY <1>1 DEF NewPod, Pod
<1> QED
    BY <1>2 DEF Pod

LEMMA InitInv == Init => Inv
<1> SUFFICES ASSUME Init PROVE Inv
    OBVIOUS
<1>1. rset \in ReplicaSets /\ cached = rset /\ rset.template \in Template /\ InStep(rset)
    BY ReplicaSetFields, ReplicaSetType, SyncedInStep DEF Init
<1>2. \A p \in PodIds : \/ pods[p] = NoPod
                        \/ /\ pods[p] \in Pod /\ pods[p].spec = rset.template
                           /\ pods[p].resize = Nil
    BY <1>1, NewPodFacts DEF Init
<1>3. rctx = Idle /\ rctx.pc = "idle"
    BY DEF Init, Idle
<1>4. status \in Nat /\ cachedStatus \in Nat
    BY ReplicasAssumption DEF Init
<1>5. pods \in [PodIds -> Pod \cup {NoPod}]
    BY <1>2 DEF Init
<1>6. TypeOK
    <2>1. edits \in 0..MaxEdits /\ faults \in 0..MaxFaults
        BY BoundsAssumption DEF Init
    <2> QED
        BY <1>1, <1>3, <1>4, <1>5, <2>1 DEF TypeOK
<1>7. OneStructure
    BY <1>1, <1>2, <1>3 DEF OneStructure, Agrees
<1> QED
    BY <1>3, <1>6, <1>7 DEF Inv, VerdictsStand, CallsJustified, Counted, Updating

-----------------------------------------------------------------------------
(***************************************************************************)
(* The other steps.                                                        *)
(***************************************************************************)
\* The informer's copy and the reconcile's have the ReplicaSet's structure.
LEMMA CopyAgrees ==
    ASSUME Inv, NEW x \in ReplicaSets, x.template.stamp = rset.template.stamp
    PROVE  Agrees(x.template) /\ x.template \in Template
<1>1. rset \in ReplicaSets
    BY DEF Inv, TypeOK
<1> QED
    BY <1>1, StampDetermines, ReplicaSetType DEF Agrees, StructurePolicy

LEMMA ActivePodsFinite ==
    IsFiniteSet(ActivePods) /\ Cardinality(ActivePods) \in Nat
<1>1. ActivePods \subseteq PodIds
    BY DEF ActivePods
<1> QED
    BY <1>1, PodIdsFinite, FS_Subset, FS_CardinalityType

LEMMA ReadInv ==
    ASSUME Inv, RRead
    PROVE  Inv'
<1> DEFINE seen == [p \in ActivePods |-> pods[p]]
           new == [pc |-> "update", obj |-> cached, base |-> cachedStatus,
                   seen |-> seen, left |-> ActivePods,
                   inFlight |-> InFlight(cached.policy, seen, cached.template),
                   pod |-> Nil, touched |-> FALSE]
           create == [pc |-> "create", obj |-> cached,
                      n |-> Replicas - Cardinality(ActivePods)]
<1>0. TypeOK /\ UNCHANGED <<rset, status, cached, cachedStatus, pods, edits, faults>> /\ rctx = Idle
    BY DEF Inv, RRead
<1>1. rctx' = IF Cardinality(ActivePods) < Replicas THEN create ELSE new
    BY DEF RRead
<1>2. /\ cached \in ReplicaSets /\ cached.template.stamp = rset.template.stamp
      /\ InStep(cached) /\ cachedStatus \in Nat
    BY <1>0 DEF Inv, TypeOK, OneStructure
<1>3. CASE Cardinality(ActivePods) < Replicas
    <2>1. rctx' = create
        BY <1>1, <1>3
    <2>2. Replicas - Cardinality(ActivePods) \in Nat \ {0}
        BY <1>3, ActivePodsFinite, ReplicasAssumption
    <2>3. rctx' \in CreateContext /\ rctx'.pc = "create" /\ rctx'.obj = cached
        BY <1>2, <2>1, <2>2 DEF CreateContext
    <2> QED
        BY <1>0, <1>2, <2>3 DEF Inv, TypeOK, OneStructure, VerdictsStand, CallsJustified,
                                Counted, Updating, Agrees, StructurePolicy
<1>4. CASE ~(Cardinality(ActivePods) < Replicas)
    <2> DEFINE F == {p \in ActivePods : /\ ~ResizeInfeasible(cached.policy, pods[p])
                                        /\ SpecMatches(cached.policy, pods[p].spec, cached.template)
                                        /\ ~ReadyAndObserved(cached.policy, pods[p], cached.template)}
    <2>1. rctx' = new
        BY <1>1, <1>4
    <2>2. seen \in [ActivePods -> Pod] /\ ActivePods \subseteq PodIds
        BY <1>0, KnownPods DEF ActivePods
    <2>3. InFlight(cached.policy, seen, cached.template) = Cardinality(F)
        BY DEF InFlight
    <2>4. IsFiniteSet(F) /\ Cardinality(F) \in Nat
        BY ActivePodsFinite, FS_Subset, FS_CardinalityType
    <2>5. /\ rctx' \in UpdateContext(ActivePods) /\ rctx'.pc = "update" /\ rctx'.obj = cached
          /\ rctx'.seen = seen /\ rctx'.left = ActivePods /\ rctx'.inFlight = Cardinality(F)
          /\ DOMAIN seen = ActivePods
        <3> HIDE DEF seen, F
        <3>1. DOMAIN seen = ActivePods
            BY <2>2
        <3> QED
            BY <1>2, <2>1, <2>2, <2>3, <2>4, <3>1 DEF UpdateContext
    <2>6. TypeOK'
        BY <1>0, <2>2, <2>5 DEF TypeOK
    <2>7. OneStructure'
        BY <1>0, <1>2, <2>5 DEF Inv, OneStructure, Agrees, StructurePolicy
    <2>8. VerdictsStand'
        <3>1. \A p \in ActivePods : pods[p] # NoPod /\ seen[p] = pods[p]
            BY <1>0 DEF ActivePods, IsActive, NoPod
        <3> HIDE DEF seen
        <3> QED
            BY <1>0, <2>5, <3>1 DEF VerdictsStand, Updating
    <2>9. Counted'
        <3> SUFFICES ASSUME cached.parallelism # 0
                     PROVE  Cardinality(Disturbed(rctx)') <= rctx'.inFlight
            BY <2>5 DEF Counted
        <3>1. Disturbed(rctx)' = {p \in ActivePods : Disturbing(pods[p], cached.template)}
            BY <1>0, <2>5, DisturbedPods
        <3>2. ASSUME NEW p \in ActivePods, Disturbing(pods[p], cached.template)
              PROVE  p \in F
            <4>1. /\ pods[p].phase = "Active" /\ pods[p].spec = cached.template
                  /\ p \in PodIds /\ pods[p] # NoPod
                BY <3>2 DEF ActivePods, IsActive, Disturbing, NoPod
            <4>2. Underway(pods[p])
                BY <3>2, <4>1 DEF Disturbing
            <4>3. pods[p].resize = "Pending" => ResizeResources(cached.policy)
                BY <1>2, <4>1, VerdictAssumption DEF Inv, OneStructure, InStep, StructurePolicy
            <4> QED
                BY <4>1, <4>2, <4>3, VerdictAssumption
                   DEF Underway, ResizeInfeasible, SpecMatches, HasResources, ReadyAndObserved
        <3>3. Disturbed(rctx)' \subseteq F
            BY <3>1, <3>2
        <3> HIDE DEF F
        <3>4. Cardinality(Disturbed(rctx)') <= Cardinality(F)
            BY <2>4, <3>3, OneMore
        <3> QED
            BY <2>5, <3>4
    <2> QED
        BY <2>5, <2>6, <2>7, <2>8, <2>9 DEF Inv, CallsJustified
<1> QED
    BY <1>3, <1>4

LEMMA CreatePodInv ==
    ASSUME Inv, RCreatePod
    PROVE  Inv'
<1>0. /\ TypeOK /\ UNCHANGED <<rset, status, cached, cachedStatus, edits, faults>> /\ rctx.pc = "create"
      /\ rctx \in CreateContext /\ rctx # Idle /\ pods \in [PodIds -> Pod \cup {NoPod}]
    BY ContextKinds DEF Inv, RCreatePod, TypeOK, Idle
<1>1. PICK new \in PodIds : pods' = [pods EXCEPT ![new] = NewPod(rctx.obj.template)]
    BY DEF RCreatePod
<1>2. rctx.obj \in ReplicaSets /\ rctx.obj.template.stamp = rset.template.stamp /\ rctx.n \in Nat
    BY <1>0 DEF CreateContext, Inv, OneStructure
<1>3. Agrees(rctx.obj.template) /\ rctx.obj.template \in Template
    BY <1>2, CopyAgrees
<1>4. /\ pods' \in [PodIds -> Pod \cup {NoPod}]
      /\ \A p \in PodIds : pods'[p] # NoPod =>
            Agrees(pods'[p].spec) /\ (pods'[p].resize # Nil => ResizeResources(StructurePolicy))
    BY <1>0, <1>1, <1>3, NewPodFacts DEF Inv, OneStructure
<1>5. \/ rctx' = Idle
      \/ rctx' \in CreateContext /\ rctx'.obj = rctx.obj
    <2>1. CASE rctx.n = 1
        BY <2>1 DEF RCreatePod
    <2>2. CASE rctx.n # 1
        <3>1. rctx' = [rctx EXCEPT !.n = rctx.n - 1]
            BY <2>2 DEF RCreatePod
        <3>2. rctx.n - 1 \in Nat \ {0}
            BY <1>0, <2>2 DEF CreateContext
        <3> QED
            BY <1>0, <3>1, <3>2 DEF CreateContext
    <2> QED
        BY <2>1, <2>2
<1>6. ~Updating' /\ rctx'.pc \notin {"resize", "replace"}
    BY <1>5 DEF Updating, Idle, CreateContext
<1>7. TypeOK'
    BY <1>0, <1>4, <1>5 DEF TypeOK
<1>8. OneStructure'
    BY <1>0, <1>2, <1>4, <1>5 DEF Inv, OneStructure, Agrees, StructurePolicy
<1> QED
    BY <1>6, <1>7, <1>8 DEF Inv, VerdictsStand, CallsJustified, Counted

LEMMA PatchStatusInv ==
    ASSUME Inv, RPatchStatus
    PROVE  Inv'
<1> DEFINE P == DOMAIN rctx.seen
<1>1. TypeOK /\ P \subseteq PodIds /\ faults \in 0..MaxFaults /\ status \in Nat
    BY ContextKinds DEF Inv, TypeOK, RPatchStatus, Updating
<1>2. \A S \in SUBSET P : Cardinality(S) \in Nat
    BY <1>1, PodIdsFinite, FS_Subset, FS_CardinalityType
<1>3. ReadyUpdated(rctx) \in Nat
    BY <1>2 DEF ReadyUpdated
<1> QED
    BY <1>1, <1>3, IdleInv DEF RPatchStatus

LEMMA FailInv ==
    ASSUME Inv, RFail
    PROVE  Inv'
BY BoundsAssumption, IdleInv DEF RFail, Fault, Inv, TypeOK

\* A write into the ReplicaSet that leaves the structure alone.
LEMMA WrittenInv ==
    ASSUME Inv, UNCHANGED <<status, cached, cachedStatus, pods, rctx, faults>>,
           edits < MaxEdits, edits' = edits + 1,
           rset' \in ReplicaSets, rset'.template.stamp = rset.template.stamp, InStep(rset')
    PROVE  Inv'
<1>0. TypeOK
    BY DEF Inv
<1>1. edits' \in 0..MaxEdits
    BY <1>0, BoundsAssumption DEF TypeOK
<1>2. /\ rset'.template.fixed = rset.template.fixed
      /\ rset'.template.restarted = rset.template.restarted
      /\ ~ResizeResources(StructurePolicy) => rset'.template.cpu = rset.template.cpu
      /\ StructurePolicy' = StructurePolicy
    BY <1>0, StampDetermines DEF TypeOK, StructurePolicy
<1>3. TypeOK'
    BY <1>0, <1>1 DEF TypeOK
<1>4. OneStructure'
    <2>1. \A p \in PodIds : pods[p] # NoPod => Agrees(pods[p].spec)'
        BY <1>2 DEF Inv, OneStructure, Agrees
    <2> QED
        BY <1>2, <2>1 DEF Inv, OneStructure
<1>5. VerdictsStand' /\ CallsJustified'
    BY DEF Inv, VerdictsStand, CallsJustified, Updating, IsActive
<1>6. Counted'
    BY DEF Inv, Counted, Updating, Disturbed, IsActive
<1> QED
    BY <1>3, <1>4, <1>5, <1>6 DEF Inv

\* What a paused Deployment leaves of the ReplicaSet.
LEMMA PausedFields ==
    ASSUME NEW x \in ReplicaSets, NEW w \in Workloads
    PROVE  /\ PausedReplicaSet(x, w) \in ReplicaSets
           /\ PausedReplicaSet(x, w).template = x.template
           /\ PausedReplicaSet(x, w).parallelism = 0
<1>1. ResourcePolicy(w.policy) \in {Nil, BestEffort}
    BY DEF ResourcePolicy
<1> QED
    BY <1>1 DEF PausedReplicaSet, ReplicaSets

LEMMA SyncInv ==
    ASSUME Inv, NEW w \in Workloads, Sync(w) \/ PausedSync(w)
    PROVE  Inv'
<1>0. rset \in ReplicaSets
    BY DEF Inv, TypeOK
<1>1. CASE Sync(w)
    <2>1. rset' = ReplicaSetOf(w) /\ rset'.template.stamp = rset.template.stamp
        BY <1>1, ReplicaSetFields DEF Sync
    <2>2. rset' \in ReplicaSets /\ InStep(rset')
        BY <2>1, ReplicaSetFields, SyncedInStep
    <2> QED
        BY <1>1, <2>1, <2>2, WrittenInv DEF Sync
<1>2. CASE PausedSync(w)
    <2>1. /\ rset' \in ReplicaSets /\ rset'.template.stamp = rset.template.stamp
          /\ InStep(rset')
        BY <1>0, <1>2, PausedFields DEF PausedSync, InStep
    <2> QED
        BY <1>2, <2>1, WrittenInv DEF PausedSync
<1> QED
    BY <1>1, <1>2

LEMMA RefreshInv ==
    ASSUME Inv, Refresh \/ UNCHANGED vars
    PROVE  Inv'
<1>0. /\ TypeOK /\ UNCHANGED <<rset, status, pods, rctx, edits, faults>>
      /\ cached' \in {cached, rset} /\ cachedStatus' \in {cachedStatus, status}
    BY DEF Inv, Refresh, vars
<1>1. TypeOK'
    BY <1>0 DEF TypeOK
<1>2. OneStructure'
    BY <1>0 DEF Inv, OneStructure, Agrees, StructurePolicy
<1>3. VerdictsStand' /\ CallsJustified'
    BY <1>0 DEF Inv, VerdictsStand, CallsJustified, Updating, IsActive
<1>4. Counted'
    BY <1>0 DEF Inv, Counted, Updating, Disturbed, IsActive
<1> QED
    BY <1>1, <1>2, <1>3, <1>4 DEF Inv

\* The kubelet, or an eviction.
LEMMA NodeInv ==
    ASSUME Inv, NEW p \in PodIds, Kubelet(p) \/ KubeletInfeasible(p) \/ Evict(p)
    PROVE  Inv'
<1>0. TypeOK /\ pods \in [PodIds -> Pod \cup {NoPod}]
    BY DEF Inv, TypeOK
<1>1. PICK x \in Pod : Write(p, x) /\ Progress(pods[p], x)
    BY <1>0, NodeFacts
<1>2. faults' \in 0..MaxFaults
    BY <1>0, BoundsAssumption DEF TypeOK, Kubelet, KubeletRestart, KubeletReady, KubeletResize,
                                  KubeletInfeasible, Evict, Fault
<1>3. /\ UNCHANGED <<rset, status, cached, cachedStatus, edits>>
      /\ pods' \in [PodIds -> Pod \cup {NoPod}] /\ pods'[p] = x
      /\ \A q \in PodIds \ {p} : pods'[q] = pods[q]
      /\ pods[p].phase = "Active" /\ pods[p] # NoPod /\ x # NoPod
    BY <1>0, <1>1 DEF Write, Progress, NoPod, Pod
<1>4. rctx' = rctx \/ (rctx.pc = "resize" /\ rctx' = [rctx EXCEPT !.touched = TRUE])
    BY <1>1 DEF Write
<1>5. /\ rctx'.pc = rctx.pc /\ (rctx' = Idle <=> rctx = Idle)
      /\ rctx # Idle => rctx'.obj = rctx.obj
      /\ rctx \in CreateContext => rctx' = rctx
      /\ Updating => /\ rctx'.seen = rctx.seen /\ rctx'.left = rctx.left
                     /\ rctx'.inFlight = rctx.inFlight /\ rctx'.pod = rctx.pod
                     /\ rctx' \in UpdateContext(DOMAIN rctx.seen)
    <2>1. CASE rctx' = rctx
        BY <1>0, <2>1, ContextKinds
    <2>2. CASE rctx.pc = "resize" /\ rctx' = [rctx EXCEPT !.touched = TRUE]
        <3>1. Updating /\ rctx \in UpdateContext(DOMAIN rctx.seen)
            BY <1>0, <2>2, ContextKinds DEF Updating
        <3> QED
            BY <2>2, <3>1 DEF UpdateContext, CreateContext, Idle
    <2> QED
        BY <1>4, <2>1, <2>2
<1>6. TypeOK'
    BY <1>0, <1>2, <1>3, <1>5, ContextKinds DEF TypeOK
<1>7. OneStructure'
    <2>1. Agrees(x.spec) /\ (x.resize # Nil => ResizeResources(StructurePolicy))
        BY <1>1, <1>3 DEF Inv, OneStructure, Progress
    <2> QED
        BY <1>3, <1>5, <2>1 DEF Inv, OneStructure, Agrees, StructurePolicy
<1>8. VerdictsStand'
    BY <1>0, <1>1, <1>3, <1>5, ContextKinds
       DEF Inv, VerdictsStand, Updating, IsActive, Progress, UpdateContext
<1>9. CallsJustified'
    <2>1. rctx.pc \in {"resize", "replace"} => Updating /\ rctx # Idle
        BY <1>0 DEF Updating, Idle
    <2>2. ASSUME rctx.pc = "replace"
          PROVE  pods'[rctx.pod].phase # "Active" \/ pods'[rctx.pod].refused
        <3>1. rctx.pod \in PodIds
            BY <1>0, <2>1, <2>2, ContextKinds DEF Inv, CallsJustified
        <3>2. pods[rctx.pod].phase # "Active" \/ pods[rctx.pod].refused
            BY <2>2 DEF Inv, CallsJustified, IsActive
        <3> QED
            BY <1>1, <1>3, <3>1, <3>2 DEF Progress
    <2> QED
        BY <1>5, <2>1, <2>2 DEF Inv, CallsJustified, IsActive
<1>10. Counted'
    <2> SUFFICES ASSUME Updating, rctx.obj.parallelism # 0
                 PROVE  Cardinality(Disturbed(rctx)') <= rctx'.inFlight
        <3>1. rctx # Idle \/ ~Updating
            BY DEF Updating, Idle
        <3> QED
            BY <1>5, <3>1 DEF Counted, Updating
    <2> DEFINE P == DOMAIN rctx.seen
    <2>1. P \subseteq PodIds /\ rctx # Idle /\ rctx.inFlight \in Nat
        BY <1>0, ContextKinds DEF Updating, Idle, UpdateContext
    <2>2. Disturbing(x, rctx.obj.template) => Disturbing(pods[p], rctx.obj.template)
        BY <1>1 DEF Disturbing, Progress
    <2>3. Disturbed(rctx)' \subseteq Disturbed(rctx)
        BY <1>3, <1>5, <2>1, <2>2, DisturbedPods
    <2>4. IsFiniteSet(Disturbed(rctx)) /\ Cardinality(Disturbed(rctx)) <= rctx.inFlight
        BY <1>0, DisturbedFinite DEF Inv, Counted
    <2> DEFINE S == Disturbed(rctx)
               T == Disturbed(rctx)'
    <2> HIDE DEF S, T
    <2>5. /\ Cardinality(T) <= Cardinality(S) /\ Cardinality(S) \in Nat
          /\ Cardinality(T) \in Nat /\ Cardinality(S) <= rctx.inFlight
        BY <2>3, <2>4, FS_Subset, FS_CardinalityType, OneMore DEF S, T
    <2> QED
        BY <1>5, <2>1, <2>5 DEF T
<1> QED
    BY <1>6, <1>7, <1>8, <1>9, <1>10 DEF Inv

LEMMA NextInv == Inv /\ [Next]_vars => Inv'
<1> SUFFICES ASSUME Inv, [Next]_vars PROVE Inv'
    OBVIOUS
<1>1. CASE Worker
    BY <1>1, ReadInv, CreatePodInv, DeleteInfeasibleInv, PatchPodInv, ResizeAcceptedInv,
       ResizeErrorInv, ReplacePodInv, PatchStatusInv DEF Worker
<1>2. CASE RResizeRefused
    BY <1>2, ResizeErrorInv
<1>3. CASE RFail
    BY <1>3, FailInv
<1>4. CASE Refresh \/ UNCHANGED vars
    BY <1>4, RefreshInv
<1>5. CASE \E w \in Workloads : Sync(w) \/ PausedSync(w)
    BY <1>5, SyncInv
<1>6. CASE \E p \in PodIds : Kubelet(p) \/ KubeletInfeasible(p) \/ Evict(p)
    BY <1>6, NodeInv
<1> QED
    BY <1>1, <1>2, <1>3, <1>4, <1>5, <1>6 DEF Next

LEMMA Invariance == Spec => []Inv
BY InitInv, NextInv, PTL DEF Spec

-----------------------------------------------------------------------------
(***************************************************************************)
(* Which steps change or replace a Pod.                                    *)
(***************************************************************************)
LEMMA WhoChanges ==
    ASSUME Inv, [Next]_vars, NEW p \in PodIds, pods[p].phase = "Active",
           pods'[p].phase = "Replaced" \/ pods'[p].spec # pods[p].spec
    PROVE  \/ /\ RDeleteInfeasible /\ p \in NextDue(rctx)
              /\ ResizeInfeasible(rctx.obj.policy, rctx.seen[p])
           \/ RPatchPod /\ p \in NextDue(rctx) /\ pods'[p].phase = "Active"
           \/ RResizeAccepted /\ p = rctx.pod /\ pods'[p].phase = "Active"
           \/ RReplacePod /\ p = rctx.pod
<1>0. TypeOK /\ pods \in [PodIds -> Pod \cup {NoPod}] /\ pods[p] \in Pod /\ pods[p] # NoPod
    BY KnownPods DEF Inv, TypeOK, IsActive
<1>1. pods' # pods
    BY <1>0 DEF Pod
<1>2. CASE RDeleteInfeasible
    <2>1. PICK q \in NextDue(rctx) : ResizeInfeasible(rctx.obj.policy, rctx.seen[q]) /\ Delete(q)
        BY <1>2 DEF RDeleteInfeasible
    <2>2. q = p
        BY <1>0, <2>1 DEF Delete, Pod
    <2> QED
        BY <1>2, <2>1, <2>2
<1>3. CASE RPatchPod
    <2> DEFINE new(q) == [pods[q] EXCEPT !.spec = WithMetadataAndImages(@, rctx.obj.template)]
    <2>1. PICK q \in NextDue(rctx) : pods' = IF IsActive(q) THEN [pods EXCEPT ![q] = new(q)] ELSE pods
        BY <1>3 DEF RPatchPod
    <2>2. q = p
        BY <1>0, <2>1 DEF Pod
    <2>3. Updating /\ p \in DOMAIN rctx.seen
        BY <1>0, <1>3, <2>1, <2>2, DueFacts DEF RPatchPod, Updating
    <2>4. new(p).phase = pods[p].phase
        BY <2>3, PatchFacts
    <2> HIDE DEF new
    <2>5. pods'[p] = new(p)
        BY <1>0, <1>1, <2>1, <2>2
    <2> QED
        BY <1>3, <2>1, <2>2, <2>4, <2>5
<1>4. CASE RResizeAccepted
    <2> DEFINE q == rctx.pod
               x == [pods[q] EXCEPT !.spec = WithResources(@, rctx.obj.template)]
    <2>1. /\ pods' = [pods EXCEPT ![q].spec = WithResources(@, rctx.obj.template),
                                  ![q].resize = "Pending"]
          /\ q \in PodIds
        BY <1>0, <1>4, ContextKinds DEF RResizeAccepted, Inv, CallsJustified, Updating
    <2>2. pods' = [[pods EXCEPT ![q] = x] EXCEPT ![q].resize = "Pending"]
        BY <1>0, <2>1
    <2>3. q = p
        <3>1. q # p => pods'[p] = pods[p]
            BY <1>0, <2>2
        <3> QED
            BY <1>0, <3>1 DEF Pod
    <2>4. pods'[p] = [x EXCEPT !.resize = "Pending"]
        BY <1>0, <2>1, <2>2, <2>3
    <2>5. x.phase = "Active" /\ DOMAIN x = DOMAIN pods[p]
        BY <1>0, <2>3 DEF Pod
    <2> HIDE DEF x
    <2>6. pods'[p].phase = "Active"
        BY <1>0, <2>4, <2>5 DEF Pod
    <2> QED
        BY <1>4, <2>3, <2>6
<1>5. CASE RReplacePod
    <2>1. Delete(rctx.pod)
        BY <1>5 DEF RReplacePod
    <2>2. rctx.pod = p
        BY <1>0, <2>1 DEF Delete, Pod
    <2> QED
        BY <1>5, <2>2
<1>6. CASE RCreatePod
    <2>1. PICK q \in PodIds : /\ pods[q] = NoPod
                              /\ pods' = [pods EXCEPT ![q] = NewPod(rctx.obj.template)]
        BY <1>6 DEF RCreatePod
    <2>2. pods'[p] = pods[p]
        BY <1>0, <2>1
    <2> QED
        BY <1>0, <2>2 DEF Pod
<1>7. CASE RResizeRefused
    <2>1. pods' = [pods EXCEPT ![rctx.pod].refused = TRUE]
        BY <1>7 DEF RResizeRefused
    <2>2. pods'[p].phase = pods[p].phase /\ pods'[p].spec = pods[p].spec
        BY <1>0, <2>1 DEF Pod
    <2> QED
        BY <2>2
<1>8. ASSUME NEW q \in PodIds, Kubelet(q) \/ KubeletInfeasible(q) \/ Evict(q)
      PROVE  FALSE
    <2>1. PICK x \in Pod : Write(q, x) /\ Progress(pods[q], x)
        BY <1>0, <1>8, NodeFacts
    <2>2. pods'[p] = IF q = p THEN x ELSE pods[p]
        BY <1>0, <2>1 DEF Write
    <2> QED
        BY <2>1, <2>2 DEF Progress
<1>9. CASE RRead \/ RResizeOutdated \/ RPatchStatus \/ RFail \/ Refresh
           \/ (\E w \in Workloads : Sync(w) \/ PausedSync(w)) \/ UNCHANGED vars
    BY <1>1, <1>9 DEF RRead, RResizeOutdated, RPatchStatus, RFail, Refresh, Sync, PausedSync, vars
<1> QED
    BY <1>2, <1>3, <1>4, <1>5, <1>6, <1>7, <1>8, <1>9 DEF Next, Worker

-----------------------------------------------------------------------------
\* Every state is of the declared type: the Pods are made of templates of the
\* workloads, and a reconcile in progress holds what its next call needs.
THEOREM TypeCorrect == Spec => []TypeOK
BY Invariance, PTL DEF Inv

\* Unless the Deployment is paused, a Pod that passes updatePods' comparison is the Pod
\* that createPod would make: what the comparison leaves out is part of the structure,
\* and structure is one.
THEOREM MatchesAreReplacements == Spec => []MatchIsReplacement
<1>1. ASSUME Inv PROVE MatchIsReplacement
    <2> SUFFICES ASSUME NEW p \in ActivePods, ReplicaSetParallelism(rset) > 0,
                        SpecMatches(rset.policy, pods[p].spec, rset.template)
                 PROVE  pods[p].spec = rset.template
        BY DEF MatchIsReplacement
    <2>1. p \in PodIds /\ IsActive(p) /\ TypeOK
        BY <1>1 DEF ActivePods, Inv
    <2>2. pods[p] \in Pod /\ pods[p] # NoPod
        BY <2>1, KnownPods
    <2>3. Agrees(pods[p].spec) /\ InStep(rset)
        BY <1>1, <2>1, <2>2 DEF Inv, OneStructure
    <2>4. rset.policy = StructurePolicy
        BY <2>3, BudgetType DEF InStep, StructurePolicy
    <2>5. pods[p].spec \in Template /\ rset.template \in Template
        BY <2>1, <2>2, ReplicaSetType DEF Pod, TypeOK
    <2> QED
        BY <2>3, <2>4, <2>5 DEF Agrees, SpecMatches, HasResources, Template
<1> QED
    BY <1>1, Invariance, PTL

\* The revision hashes the resources exactly under the policy that resizes them.
LEMMA RevisionFields ==
    ASSUME NEW x \in ReplicaSets, NEW y \in ReplicaSets,
           InPlaceRevision(x.policy, x.template) = InPlaceRevision(y.policy, y.template)
    PROVE  /\ x.policy = y.policy
           /\ x.template.meta = y.template.meta /\ x.template.image = y.template.image
           /\ ResizeResources(x.policy) => x.template.cpu = y.template.cpu
<1> DEFINE cpu(z) == IF ResizeResources(z.policy) THEN {z.template.cpu} ELSE {}
<1>1. ASSUME NEW z \in ReplicaSets
      PROVE  LET r == InPlaceRevision(z.policy, z.template)
             IN  r.meta[1] = z.template.meta /\ r.image = z.template.image /\ r.cpu = cpu(z)
    <2>1. z.template \in Template
        BY ReplicaSetType
    <2>2. LET c == CleanTemplate(z.template)
          IN  /\ c.meta = z.template.meta /\ c.restarted = z.template.restarted
              /\ c.image = z.template.image /\ c.cpu = z.template.cpu
        BY <2>1 DEF CleanTemplate, Template
    <2> QED
        BY <2>2 DEF InPlaceRevision
<1> HIDE DEF cpu
<1>2. /\ x.template.meta = y.template.meta /\ x.template.image = y.template.image
      /\ cpu(x) = cpu(y)
    BY <1>1
<1>3. x.policy \in {Nil, BestEffort} /\ y.policy \in {Nil, BestEffort}
    BY ReplicaSetType
<1> QED
    BY <1>2, <1>3, NilAssumption DEF cpu, ResizeResources

\* A sync that changes the template or the policy, of a paused Deployment or not,
\* changes the in-place revision, so observedInPlaceStatus never takes the progress
\* of one edit for another's.
THEOREM EditsAreTold == Spec => EditsChangeRevision
<1>1. ASSUME Inv, [Next]_vars, <<rset.policy, rset.template>>' # <<rset.policy, rset.template>>
      PROVE  InPlaceRevision(rset.policy, rset.template)'
               # InPlaceRevision(rset.policy, rset.template)
    <2>1. PICK w \in Workloads : Sync(w) \/ PausedSync(w)
        <3>1. ASSUME NEW p \in PodIds, Kubelet(p) \/ KubeletInfeasible(p) \/ Evict(p)
              PROVE  rset' = rset
            BY <1>1, <3>1, NodeFacts DEF Inv, Write
        <3> QED
            BY <1>1, <3>1 DEF Next, Worker, RRead, RCreatePod, RDeleteInfeasible, RPatchPod,
                  RResizeAccepted, RResizeOutdated, RReplacePod, RPatchStatus, RResizeRefused,
                  RFail, Refresh, vars
    <2>2. rset \in ReplicaSets
        BY <1>1 DEF Inv, TypeOK
    <2> SUFFICES ASSUME InPlaceRevision(rset'.policy, rset'.template)
                          = InPlaceRevision(rset.policy, rset.template)
                 PROVE  FALSE
        OBVIOUS
    <2>3. CASE Sync(w)
        <3>1. /\ rset' \in ReplicaSets /\ rset'.template.stamp = rset.template.stamp
              /\ rset' = ReplicaSetOf(w)
            BY <2>3, ReplicaSetFields DEF Sync
        <3>2. /\ rset'.policy = rset.policy
              /\ rset'.template.meta = rset.template.meta
              /\ rset'.template.image = rset.template.image
              /\ ResizeResources(rset'.policy) => rset'.template.cpu = rset.template.cpu
            BY <2>2, <3>1, RevisionFields
        <3>3. /\ rset'.template.fixed = rset.template.fixed
              /\ rset'.template.restarted = rset.template.restarted
              /\ ~ResizeResources(rset'.template.stamp.resourcePolicy)
                 => rset'.template.cpu = rset.template.cpu
            BY <2>2, <3>1, StampDetermines
        <3>4. rset'.policy = rset'.template.stamp.resourcePolicy
            BY <3>1, ReplicaSetFields, StructureFields
        <3>5. rset'.template \in Template /\ rset.template \in Template
            BY <2>2, <3>1, ReplicaSetType
        <3>6. rset'.template = rset.template
            BY <3>1, <3>2, <3>3, <3>4, <3>5 DEF Template
        <3> QED
            BY <1>1, <3>2, <3>6
    <2>4. CASE PausedSync(w)
        <3>1. rset' \in ReplicaSets /\ rset'.template = rset.template
            BY <2>2, <2>4, PausedFields DEF PausedSync
        <3>2. rset'.policy = rset.policy
            BY <2>2, <3>1, RevisionFields
        <3> QED
            BY <1>1, <3>1, <3>2
    <2> QED
        BY <2>1, <2>3, <2>4
<1> QED
    BY <1>1, Invariance, PTL DEF Spec, EditsChangeRevision

\* updatePods deletes only Pods that were refused or are infeasible when they are
\* deleted, although it decides on copies that may be out of date by then.
THEOREM ReplacementIsJustified == Spec => ReplacedOnlyIfRefused
<1>1. ASSUME Inv, [Next]_vars, NEW p \in PodIds,
             pods[p].phase = "Active", pods'[p].phase = "Replaced"
      PROVE  pods[p].refused \/ pods[p].resize = "Infeasible"
    <2>1. \/ /\ RDeleteInfeasible /\ p \in NextDue(rctx)
             /\ ResizeInfeasible(rctx.obj.policy, rctx.seen[p])
          \/ RReplacePod /\ p = rctx.pod
        BY <1>1, WhoChanges
    <2>2. CASE /\ RDeleteInfeasible /\ p \in NextDue(rctx)
               /\ ResizeInfeasible(rctx.obj.policy, rctx.seen[p])
        <3>1. p \in rctx.left /\ Updating
            BY <1>1, <2>2, DueFacts DEF Inv, RDeleteInfeasible, Updating
        <3> QED
            BY <1>1, <2>2, <3>1 DEF Inv, VerdictsStand, ResizeInfeasible, IsActive
    <2>3. CASE RReplacePod /\ p = rctx.pod
        BY <1>1, <2>3 DEF Inv, CallsJustified, RReplacePod, IsActive
    <2> QED
        BY <2>1, <2>2, <2>3
<1>2. ASSUME Inv, [Next]_vars
      PROVE  \A p \in PodIds : pods[p].phase = "Active" /\ pods'[p].phase = "Replaced"
                => pods[p].refused \/ pods[p].resize = "Infeasible"
    BY <1>1, <1>2
<1> QED
    BY <1>2, Invariance, PTL DEF Spec, ReplacedOnlyIfRefused

\* The budget is kept against the Pods as they are now, although updatePods counts
\* once and on copies: the kubelet only ever makes the count smaller.
THEOREM BudgetIsKept == Spec => BudgetKept
<1>1. ASSUME Inv, [Next]_vars, NEW p \in PodIds, pods[p].phase = "Active",
             pods'[p].phase = "Replaced" \/ pods'[p].spec # pods[p].spec
      PROVE  Cardinality(Disturbed(rctx)) < ReplicaSetParallelism(rctx.obj)
    <2>1. TypeOK
        BY <1>1 DEF Inv
    <2>2. Updating /\ rctx.inFlight < ReplicaSetParallelism(rctx.obj)
        <3>1. CASE (RDeleteInfeasible \/ RPatchPod) /\ p \in NextDue(rctx)
            BY <2>1, <3>1, DueFacts DEF RDeleteInfeasible, RPatchPod, Updating
        <3>2. CASE RResizeAccepted \/ RReplacePod
            BY <1>1, <3>2 DEF RResizeAccepted, RReplacePod, Updating, Inv, CallsJustified
        <3> QED
            BY <1>1, <3>1, <3>2, WhoChanges
    <2>3. Cardinality(Disturbed(rctx)) <= rctx.inFlight /\ rctx.inFlight \in Nat
        BY <1>1, <2>1, <2>2, ContextKinds, PolicyStands DEF Inv, Counted, UpdateContext
    <2>4. Cardinality(Disturbed(rctx)) \in Nat
        BY <2>1, <2>2, DisturbedFinite, FS_CardinalityType
    <2> QED
        BY <2>2, <2>3, <2>4, BudgetType
<1>2. ASSUME Inv, [Next]_vars
      PROVE  \A p \in PodIds :
                /\ pods[p].phase = "Active"
                /\ pods'[p].phase = "Replaced" \/ pods'[p].spec # pods[p].spec
                => Cardinality(Disturbed(rctx)) < ReplicaSetParallelism(rctx.obj)
    BY <1>1, <1>2
<1> QED
    BY <1>2, Invariance, PTL DEF Spec, BudgetKept
=============================================================================
