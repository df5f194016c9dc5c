--------------------------- MODULE WakeUpsProofs ---------------------------
(***************************************************************************)
(* Proofs about WakeUps: no controller sleeps while there is something to  *)
(* report, for any number of Pods and any sequence of flips, failed calls  *)
(* and restarts.                                                           *)
(***************************************************************************)
EXTENDS WakeUps, FiniteSetTheorems, TLAPS

\* The ReplicaSet controller will run again, whatever becomes of its cache.
RQueued == "replicaset" \in queue \cup timer \/ podEvent

\* The status the reconcile started from is the cached one; if the cache has moved
\* on, the key was queued and the cache has the last status written.
RBaseCurrent ==
    rctx.pc \in {"list", "status"} =>
        \/ rctx.base = rsCache.status
        \/ "replicaset" \in queue /\ rsCache.status = rs.status

\* A listed Pod that has not flipped since is as it was, or has become available.
Tracks(p, seen) ==
    /\ seen[p].since <= flips
    /\ seen[p].since = pods[p].since =>
          \/ seen[p].state = pods[p].state
          \/ seen[p].state = "ready" /\ pods[p].state = "available"
SeenTracked ==
    /\ \A p \in PodKeys : pods[p].since <= flips
    /\ rctx.pc \in {"status", "requeue"} => \A p \in PodKeys : Tracks(p, rctx.seen)

\* If a listed Pod has flipped since, the event is on its way.
SeenCurrent ==
    rctx.pc \in {"status", "requeue"} =>
        RQueued \/ \A p \in PodKeys : rctx.seen[p].since = pods[p].since

\* Between the status and the requeue the status written is right, but for Pods that
\* became available since, or the controller will run again.
Reported ==
    rctx.pc = "requeue" =>
        \/ RQueued \/ rsCache.status # rs.status
        \/ /\ rctx.S \subseteq AvailablePods(pods)
           /\ rs.status = [ready |-> Cardinality(ReadyPods(rctx.seen)),
                           available |-> Cardinality(rctx.S)]

RSleepsWell ==
    \/ rctx # RIdle \/ RQueued \/ rsCache.status # rs.status
    \/ SafelyReported /\ \A p \in PodKeys : pods[p].state # "ready"

RInv == RBaseCurrent /\ SeenTracked /\ SeenCurrent /\ Reported /\ RSleepsWell

-----------------------------------------------------------------------------
DQueued == "deployment" \in queue \cup timer

DBaseCurrent == dctx.pc # "idle" => dctx.base = dsCache \/ "deployment" \in queue

\* The budget is nobody else's; the status read is the last one, or the controller
\* will run again.
ViewCurrent ==
    dctx.pc \in {"sync", "status"} =>
        /\ dctx.view.budget = rs.budget
        /\ dctx.pc = "status"
              => rs.budget = DeploymentParallelism(dctx.view.status.available)
        /\ DQueued \/ rsCache.status # rs.status \/ dctx.view.status = rs.status

DSleepsWell ==
    \/ dctx # DIdle \/ DQueued \/ rsCache.status # rs.status \/ dsCache # ds
    \/ Says(rs.status) /\ rs.budget = DeploymentParallelism(rs.status.available)

DInv == DBaseCurrent /\ ViewCurrent /\ DSleepsWell

-----------------------------------------------------------------------------
(***************************************************************************)
(* Operators.                                                              *)
(***************************************************************************)
\* Sets of Pods are finite and counted by 0..NumPods.
LEMMA PodCount ==
    ASSUME NEW S \in SUBSET PodKeys
    PROVE  IsFiniteSet(S) /\ Cardinality(S) \in 0..NumPods
<1>1. IsFiniteSet(PodKeys) /\ Cardinality(PodKeys) = NumPods
  BY NumPodsAssumption, FS_Interval DEF PodKeys
<1>2. IsFiniteSet(S) /\ Cardinality(S) <= NumPods
  BY <1>1, FS_Subset
<1> QED
  BY <1>2, NumPodsAssumption, FS_CardinalityType

\* The budget is a number of Pods.
LEMMA BudgetType ==
    ASSUME NEW n \in 0..NumPods
    PROVE  DeploymentParallelism(n) \in 0..NumPods
  BY NumPodsAssumption, LimitAssumption DEF DeploymentParallelism, Max2

\* What the conditions say has its type.
LEMMA ConditionsType ==
    ASSUME NEW c \in Counts
    PROVE  ConditionsOf(c) \in [missing: 0..NumPods, complete: BOOLEAN]
<1>1. (IF c.available >= NumPods - MaxUnavailable THEN 0 ELSE NumPods - c.available) \in 0..NumPods
  BY NumPodsAssumption, LimitAssumption DEF Counts
<1>2. (c.available = NumPods) \in BOOLEAN
  BY Zenon
<1> QED
  BY <1>1, <1>2 DEF ConditionsOf

\* A merge patch of a status is a status; it is the new status if the base is
\* the live one, and differs from the base if the live one does.
LEMMA MergeCounts ==
    ASSUME NEW base \in Counts, NEW new \in Counts, NEW live \in Counts
    PROVE  /\ MergePatch(base, new, live) \in Counts
           /\ base = live => MergePatch(base, new, live) = new
           /\ base # live => MergePatch(base, new, live) # base
  BY DEF MergePatch, Counts

LEMMA MergeDeployment ==
    ASSUME NEW base \in DeploymentStatus, NEW new \in DeploymentStatus,
           NEW live \in DeploymentStatus
    PROVE  /\ MergePatch(base, new, live) \in DeploymentStatus
           /\ base = live => MergePatch(base, new, live) = new
           /\ base # live => MergePatch(base, new, live) # base
<1> DEFINE M == MergePatch(base, new, live)
<1>1. /\ DOMAIN M = {"ready", "available", "conditions"}
      /\ M = [f \in {"ready", "available", "conditions"} |-> M[f]]
      /\ \A f \in {"ready", "available", "conditions"} :
            M[f] = IF new[f] = base[f] THEN live[f] ELSE new[f]
  BY DEF MergePatch, DeploymentStatus
<1> HIDE DEF M
<1>2. M \in DeploymentStatus
  BY <1>1 DEF DeploymentStatus
<1>3. base = live => M = new
  BY <1>1, <1>2 DEF DeploymentStatus
<1>4. base # live => M # base
  BY <1>1, <1>2 DEF DeploymentStatus
<1> QED
  BY <1>2, <1>3, <1>4 DEF M

\* The shape of a reconcile in progress.
LEMMA RShape ==
    ASSUME NEW c \in RContext
    PROVE  /\ c.pc \in {"idle", "list", "status", "requeue"}
           /\ c.pc = "idle" <=> c = RIdle
           /\ c.pc = "list" => c \in [pc: {"list"}, base: Counts]
           /\ c.pc = "status"
                 => c \in [pc: {"status"}, base: Counts, seen: [PodKeys -> PodState]]
           /\ c.pc = "requeue"
                 => c \in [pc: {"requeue"}, seen: [PodKeys -> PodState], S: SUBSET PodKeys]
  BY DEF RContext, RIdle

LEMMA DShape ==
    ASSUME NEW c \in DContext
    PROVE  /\ c.pc \in {"idle", "list", "sync", "status"}
           /\ c.pc = "idle" <=> c = DIdle
           /\ c.pc = "list" => c \in [pc: {"list"}, base: DeploymentStatus]
           /\ c.pc \in {"sync", "status"}
                 => c \in [pc: {"sync", "status"}, base: DeploymentStatus, view: ReplicaSet]
  BY DEF DContext, DIdle

-----------------------------------------------------------------------------
(***************************************************************************)
(* Types.                                                                  *)
(***************************************************************************)
LEMMA InitType == Init => TypeOK
<1> SUFFICES ASSUME Init PROVE TypeOK
  OBVIOUS
<1>1. NumPods \in 0..NumPods /\ AllCounted \in Counts
  BY NumPodsAssumption DEF AllCounted, Counts
<1>2. pods \in [PodKeys -> PodState]
  BY BoundsAssumption DEF Init, PodState
<1>3. podEvent \in BOOLEAN /\ missed \in BOOLEAN
  BY Zenon DEF Init
<1>4. rs \in ReplicaSet /\ rsCache \in ReplicaSet
  BY <1>1, BudgetType DEF Init, ReplicaSet
<1>5. [says |-> ConditionsOf(AllCounted), time |-> 0] \in Conditions
  BY <1>1, ConditionsType DEF Conditions, Moments
<1>6. ds \in DeploymentStatus /\ dsCache \in DeploymentStatus
  BY <1>1, <1>5 DEF Init, DeploymentStatus
<1>7. rctx \in RContext /\ dctx \in DContext
  BY DEF Init, RContext, DContext
<1>8. flips \in 0..MaxFlips /\ faults \in 0..MaxFaults
  BY BoundsAssumption DEF Init
<1>9. queue \subseteq Keys /\ timer \subseteq Keys
  BY DEF Init
<1> QED
  BY <1>2, <1>3, <1>4, <1>6, <1>7, <1>8, <1>9 DEF TypeOK

\* The status the ReplicaSet controller writes.
LEMMA RStatusType ==
    ASSUME TypeOK, NEW seen, NEW S \in AvailableNow(seen)
    PROVE  /\ [ready |-> Cardinality(ReadyPods(seen)), available |-> Cardinality(S)] \in Counts
           /\ S \in SUBSET PodKeys
  BY PodCount DEF AvailableNow, ReadyPods, Counts

\* The status the Deployment controller computes from a view.
NewStatus(base, c) ==
    [ready |-> c.ready, available |-> c.available,
     conditions |-> PreserveConditionTime(base.conditions, ConditionsOf(c))]

LEMMA NewStatusType ==
    ASSUME NEW base \in DeploymentStatus, NEW c \in Counts
    PROVE  NewStatus(base, c) \in DeploymentStatus
<1>1. base.conditions \in Conditions /\ base.conditions.time \in {0, 1}
  BY DEF DeploymentStatus, Conditions, Moments
<1>2. PreserveConditionTime(base.conditions, ConditionsOf(c)) \in Conditions
  BY <1>1, ConditionsType DEF PreserveConditionTime, Conditions, Later, Moments
<1> QED
  BY <1>2 DEF NewStatus, DeploymentStatus, Counts

LEMMA NextType == TypeOK /\ [Next]_vars => TypeOK'
<1> SUFFICES ASSUME TypeOK, [Next]_vars PROVE TypeOK'
  OBVIOUS
<1> USE DEF TypeOK
<1>1. CASE RStart
  BY <1>1 DEF RStart, RContext, ReplicaSet
<1>2. CASE RList
  <2>1. rctx.base \in Counts
    BY <1>2, RShape DEF RList
  <2> QED
    BY <1>2, <2>1 DEF RList, RContext
<1>3. CASE RStatus
  <2>1. PICK S \in AvailableNow(rctx.seen) :
          /\ rs' = [rs EXCEPT !.status = MergePatch(rctx.base,
                      [ready |-> Cardinality(ReadyPods(rctx.seen)),
                       available |-> Cardinality(S)], @)]
          /\ rctx' = [pc |-> "requeue", seen |-> rctx.seen, S |-> S]
    BY <1>3 DEF RStatus
  <2>2. rctx.base \in Counts /\ rctx.seen \in [PodKeys -> PodState]
    BY <1>3, RShape DEF RStatus
  <2>3. rs' \in ReplicaSet
    BY <2>1, <2>2, RStatusType, MergeCounts DEF ReplicaSet
  <2>4. rctx' \in RContext
    BY <2>1, <2>2, RStatusType DEF RContext
  <2> QED
    BY <1>3, <2>3, <2>4 DEF RStatus
<1>4. CASE RRequeue
  BY <1>4 DEF RRequeue, RContext, Keys
<1>5. CASE DStart
  BY <1>5 DEF DStart, DContext
<1>6. CASE DList
  <2>1. dctx.base \in DeploymentStatus
    BY <1>6, DShape DEF DList
  <2> QED
    BY <1>6, <2>1 DEF DList, DContext
<1>7. CASE DSync
  <2>1. dctx.view.status.available \in 0..NumPods
    BY <1>7, DShape DEF DSync, ReplicaSet, Counts
  <2>2. rs' \in ReplicaSet
    BY <1>7, <2>1, BudgetType DEF DSync, ReplicaSet
  <2> QED
    BY <1>7, <2>2 DEF DSync, DContext, Keys
<1>8. CASE DStatus
  <2>1. dctx.base \in DeploymentStatus /\ dctx.view.status \in Counts
    BY <1>8, DShape DEF DStatus, ReplicaSet
  <2>2. ds' = MergePatch(dctx.base, NewStatus(dctx.base, dctx.view.status), ds)
    BY <1>8 DEF DStatus, NewStatus
  <2>3. ds' \in DeploymentStatus
    BY <2>1, <2>2, NewStatusType, MergeDeployment
  <2> QED
    BY <1>8, <2>3 DEF DStatus, DContext, Keys
<1>9. ASSUME NEW k \in Keys, TimerFires(k) PROVE TypeOK'
  BY <1>9 DEF TimerFires
<1>10. CASE Informers
  <2>1. podEvent' \in BOOLEAN
    BY <1>10, Zenon DEF Informers, DeliverPod, DeliverReplicaSet, DeliverDeployment
  <2> QED
    BY <1>10, <2>1 DEF Informers, DeliverPod, DeliverReplicaSet, DeliverDeployment, Keys
<1>11. ASSUME NEW p \in PodKeys, Flip(p) PROVE TypeOK'
  <2>1. podEvent' \in BOOLEAN
    BY <1>11, Zenon DEF Flip
  <2>2. flips' \in 0..MaxFlips
    BY <1>11, BoundsAssumption DEF Flip
  <2> QED
    BY <1>11, <2>1, <2>2 DEF Flip, PodState
<1>12. ASSUME NEW p \in PodKeys, Ripen(p) PROVE TypeOK'
  BY <1>12 DEF Ripen, PodState
<1>13. CASE RFail \/ DFail
  <2>1. RIdle \in RContext /\ DIdle \in DContext
    BY DEF RContext, DContext
  <2>2. faults' \in 0..MaxFaults
    BY <1>13, BoundsAssumption DEF RFail, DFail, Fault
  <2>3. CASE RFail
    BY <2>1, <2>2, <2>3 DEF RFail, Keys
  <2>4. CASE DFail
    BY <2>1, <2>2, <2>4 DEF DFail, Keys
  <2> QED
    BY <1>13, <2>3, <2>4
<1>14. CASE Restart
  <2>1. podEvent' \in BOOLEAN
    BY <1>14, Zenon DEF Restart
  <2> QED
    BY <1>14, <2>1, BoundsAssumption DEF Restart, Fault, RContext, DContext
<1>15. CASE UNCHANGED vars
  BY <1>15 DEF vars
<1> QED
  BY <1>1, <1>2, <1>3, <1>4, <1>5, <1>6, <1>7, <1>8, <1>9, <1>10, <1>11, <1>12, <1>13,
     <1>14, <1>15 DEF Next, RWork, DWork

\* Budgets and counts are numbers of Pods and every context has its shape, for any
\* number of Pods and any limit.
THEOREM TypeCorrect == Spec => []TypeOK
  BY InitType, NextType, PTL DEF Spec

-----------------------------------------------------------------------------
(***************************************************************************)
(* The ReplicaSet controller.                                              *)
(***************************************************************************)
\* A status write leaves the cache different from the live status if it was, or if
\* the write changed anything.
LEMMA WriteIsSeen ==
    ASSUME TypeOK, RBaseCurrent, RStatus
    PROVE  /\ rsCache.status # rs.status => rs'.status # rsCache.status
           /\ rs'.status # rs.status => rs'.status # rsCache.status
           /\ rs'.budget = rs.budget
<1>1. PICK S \in AvailableNow(rctx.seen) :
        rs' = [rs EXCEPT !.status = MergePatch(rctx.base,
                 [ready |-> Cardinality(ReadyPods(rctx.seen)), available |-> Cardinality(S)], @)]
  BY DEF RStatus
<1>2. rctx.base \in Counts /\ rs.status \in Counts /\ rsCache.status \in Counts
  BY RShape DEF RStatus, TypeOK, ReplicaSet
<1>3. rs'.status = MergePatch(rctx.base,
         [ready |-> Cardinality(ReadyPods(rctx.seen)), available |-> Cardinality(S)], rs.status)
  BY <1>1 DEF TypeOK, ReplicaSet
<1>4. rs'.budget = rs.budget
  BY <1>1 DEF TypeOK, ReplicaSet
<1>5. rctx.base = rsCache.status \/ rsCache.status = rs.status
  BY DEF RBaseCurrent, RStatus
<1>6. /\ rctx.base # rs.status => rs'.status # rctx.base
      /\ rctx.base = rs.status => (rs'.status # rs.status => rs'.status # rctx.base)
  BY <1>2, <1>3, RStatusType, MergeCounts
<1> QED
  BY <1>4, <1>5, <1>6

\* Pods that have not flipped since they were listed: who is ready is known.
LEMMA UnchangedPods ==
    ASSUME TypeOK, SeenTracked, rctx.pc \in {"status", "requeue"},
           \A p \in PodKeys : rctx.seen[p].since = pods[p].since
    PROVE  /\ ReadyPods(rctx.seen) = ReadyPods(pods)
           /\ \A S \in AvailableNow(rctx.seen) : S = AvailablePods(pods)
<1>1. ASSUME NEW p \in PodKeys
      PROVE  \/ rctx.seen[p].state = pods[p].state
             \/ rctx.seen[p].state = "ready" /\ pods[p].state = "available"
  BY <1>1 DEF SeenTracked, Tracks
<1>2. ReadyPods(rctx.seen) = ReadyPods(pods)
  BY <1>1 DEF ReadyPods
<1>3. ASSUME NEW S \in AvailableNow(rctx.seen) PROVE S = AvailablePods(pods)
  <2>1. \A p \in ReadyPods(rctx.seen) : p \in S <=> pods[p].state = "available"
    BY DEF AvailableNow, ReadyPods
  <2>2. S \subseteq ReadyPods(rctx.seen) /\ ReadyPods(rctx.seen) \subseteq PodKeys
    BY DEF AvailableNow, ReadyPods
  <2> QED
    BY <1>2, <2>1, <2>2 DEF AvailablePods, ReadyPods
<1> QED
  BY <1>2, <1>3

\* The initial states have the invariant.
LEMMA InitRInv == Init => RInv
<1> SUFFICES ASSUME Init PROVE RInv
  OBVIOUS
<1>1. ReadyPods(pods) = PodKeys /\ AvailablePods(pods) = PodKeys
  BY DEF Init, ReadyPods, AvailablePods
<1>2. Cardinality(PodKeys) = NumPods
  BY NumPodsAssumption, FS_Interval DEF PodKeys
<1>3. SafelyReported
  BY <1>1, <1>2, NumPodsAssumption DEF Init, SafelyReported, Actual, AllCounted
<1> QED
  BY <1>3 DEF Init, RInv, RBaseCurrent, SeenTracked, SeenCurrent, Reported, RSleepsWell, RIdle

\* Once the key is queued, waits for its timer, or an event is on its way, only the
\* start of a reconcile changes that.
LEMMA RQueuedStays ==
    ASSUME TypeOK, [Next]_vars, RQueued, ~RStart
    PROVE  RQueued'
<1>1. CASE RList \/ RStatus \/ RRequeue
  BY <1>1 DEF RQueued, RList, RStatus, RRequeue
<1>2. CASE DWork
  BY <1>2 DEF RQueued, DWork, DStart, DList, DSync, DStatus
<1>3. CASE Informers
  BY <1>3 DEF RQueued, Informers, DeliverPod, DeliverReplicaSet, DeliverDeployment
<1>4. CASE RFail \/ DFail \/ Restart
  BY <1>4 DEF RQueued, RFail, DFail, Restart, Keys
<1>5. ASSUME NEW k \in Keys, TimerFires(k) PROVE RQueued'
  BY <1>5 DEF RQueued, TimerFires
<1>6. ASSUME NEW p \in PodKeys, Flip(p) \/ Ripen(p) PROVE RQueued'
  BY <1>6 DEF RQueued, Flip, Ripen
<1>7. CASE UNCHANGED vars
  BY <1>7 DEF RQueued, vars
<1> QED
  BY <1>1, <1>2, <1>3, <1>4, <1>5, <1>6, <1>7 DEF Next, RWork

\* Steps that leave alone what the ReplicaSet controller looks at.
LEMMA RSame ==
    ASSUME RInv, RQueued => RQueued', "replicaset" \in queue => "replicaset" \in queue',
           UNCHANGED <<pods, rsCache, rctx, missed, flips>>, rs'.status = rs.status
    PROVE  RInv'
<1>1. RBaseCurrent'
  BY DEF RInv, RBaseCurrent
<1>2. SeenTracked'
  BY DEF RInv, SeenTracked, Tracks
<1>3. SeenCurrent'
  BY DEF RInv, SeenCurrent
<1>4. Reported'
  BY DEF RInv, Reported, ReadyPods, AvailablePods
<1>5. RSleepsWell'
  BY DEF RInv, RSleepsWell, SafelyReported, Actual, ReadyPods, AvailablePods
<1> QED
  BY <1>1, <1>2, <1>3, <1>4, <1>5 DEF RInv

\* A step of the reconcile.
LEMMA RInvWork ==
    ASSUME TypeOK, RInv, RWork
    PROVE  RInv'
<1>1. CASE RStart
  <2>1. rctx.pc = "idle" /\ rctx'.pc = "list" /\ rctx'.base = rsCache'.status
    BY <1>1 DEF RStart, RIdle
  <2> QED
    BY <1>1, <2>1 DEF RStart, RIdle, RInv, RBaseCurrent, SeenTracked, SeenCurrent, Reported,
                      RSleepsWell
<1>2. CASE RList
  <2>1. rctx'.pc = "status" /\ rctx'.base = rctx.base /\ rctx'.seen = pods
    BY <1>2 DEF RList
  <2>2. RBaseCurrent'
    BY <1>2, <2>1 DEF RList, RInv, RBaseCurrent
  <2>3. SeenTracked' /\ SeenCurrent'
    BY <1>2, <2>1 DEF RList, RInv, SeenTracked, SeenCurrent, Tracks
  <2>4. rctx' # RIdle
    BY <2>1 DEF RIdle
  <2> QED
    BY <2>1, <2>2, <2>3, <2>4 DEF RInv, Reported, RSleepsWell
<1>3. CASE RStatus
  <2>1. PICK S \in AvailableNow(rctx.seen) :
          /\ rs' = [rs EXCEPT !.status = MergePatch(rctx.base,
                      [ready |-> Cardinality(ReadyPods(rctx.seen)),
                       available |-> Cardinality(S)], @)]
          /\ rctx' = [pc |-> "requeue", seen |-> rctx.seen, S |-> S]
    BY <1>3 DEF RStatus
  <2>2. /\ rctx.pc = "status"
        /\ UNCHANGED <<pods, podEvent, rsCache, queue, timer, flips>>
    BY <1>3 DEF RStatus
  <2>3. RBaseCurrent'
    BY <2>1 DEF RBaseCurrent
  <2>4. SeenTracked'
    BY <2>1, <2>2 DEF RInv, SeenTracked, Tracks
  <2>5. SeenCurrent'
    BY <2>1, <2>2 DEF RInv, SeenCurrent, RQueued
  <2>6. Reported'
    <3> SUFFICES ASSUME ~RQueued, rsCache.status = rs'.status
                 PROVE  /\ S = AvailablePods(pods)
                        /\ rs'.status = [ready |-> Cardinality(ReadyPods(rctx.seen)),
                                         available |-> Cardinality(S)]
      BY <2>1, <2>2 DEF Reported, RQueued, AvailablePods, ReadyPods
    <3>1. rsCache.status = rs.status
      BY <1>3, WriteIsSeen DEF RInv
    <3>2. rctx.base = rs.status
      BY <2>2, <3>1 DEF RInv, RBaseCurrent, RQueued
    <3>3. S = AvailablePods(pods)
      BY <2>2, UnchangedPods DEF RInv, SeenCurrent
    <3>4. rctx.base \in Counts /\ rs.status \in Counts
      BY <2>2, RShape DEF TypeOK, ReplicaSet
    <3>5. rs'.status = MergePatch(rctx.base,
             [ready |-> Cardinality(ReadyPods(rctx.seen)),
              available |-> Cardinality(S)], rs.status)
      BY <2>1 DEF TypeOK, ReplicaSet
    <3> QED
      BY <3>2, <3>3, <3>4, <3>5, RStatusType, MergeCounts
  <2>7. RSleepsWell'
    BY <2>1 DEF RSleepsWell, RIdle
  <2> QED
    BY <2>3, <2>4, <2>5, <2>6, <2>7 DEF RInv
<1>4. CASE RRequeue
  <2>1. PICK S \in AvailableNow(rctx.seen) :
          /\ timer' = IF NeedsRequeue(rctx.seen, S) THEN timer \cup {"replicaset"} ELSE timer
          /\ missed' = (S # rctx.S /\ ~NeedsRequeue(rctx.seen, S))
    BY <1>4 DEF RRequeue
  <2>2. /\ rctx.pc = "requeue" /\ rctx' = RIdle
        /\ UNCHANGED <<pods, podEvent, rs, rsCache, queue, flips>>
    BY <1>4 DEF RRequeue
  <2>3. RSleepsWell'
    <3> SUFFICES ASSUME ~RQueued', rsCache.status = rs.status
                 PROVE  /\ rs.status.ready = Actual.ready
                        /\ rs.status.available <= Actual.available
                        /\ ~missed' => rs.status.available = Actual.available
                        /\ \A p \in PodKeys : pods[p].state # "ready"
      BY <2>2 DEF RSleepsWell, SafelyReported, Actual, ReadyPods, AvailablePods
    <3>1. ~NeedsRequeue(rctx.seen, S) /\ ~RQueued
      BY <2>1, <2>2 DEF RQueued
    <3>2. /\ rctx.S \subseteq AvailablePods(pods)
          /\ rs.status = [ready |-> Cardinality(ReadyPods(rctx.seen)),
                          available |-> Cardinality(rctx.S)]
      BY <2>2, <3>1 DEF RInv, Reported
    <3>3. ReadyPods(rctx.seen) = ReadyPods(pods) /\ S = AvailablePods(pods)
      BY <2>2, <3>1, UnchangedPods DEF RInv, SeenCurrent
    <3>4. S \subseteq ReadyPods(pods) /\ ReadyPods(pods) \in SUBSET PodKeys
      BY <3>3 DEF AvailablePods, ReadyPods
    <3>5. S = ReadyPods(pods)
      <4>1. IsFiniteSet(ReadyPods(pods)) /\ Cardinality(ReadyPods(pods)) \in Nat
        BY <3>4, PodCount
      <4>2. Cardinality(S) \in Nat /\ ~(Cardinality(S) < Cardinality(ReadyPods(pods)))
        BY <3>1, <3>3, <3>4, PodCount DEF NeedsRequeue
      <4> QED
        BY <3>4, <4>1, <4>2, FS_Subset
    <3>6. \A p \in PodKeys : pods[p].state # "ready"
      BY <3>3, <3>5 DEF AvailablePods, ReadyPods
    <3>7. Cardinality(rctx.S) <= Cardinality(AvailablePods(pods))
      <4>1. IsFiniteSet(AvailablePods(pods))
        BY PodCount DEF AvailablePods
      <4> QED
        BY <3>2, <4>1, FS_Subset
    <3>8. ~missed' => rctx.S = AvailablePods(pods)
      BY <2>1, <3>1, <3>3
    <3> QED
      BY <3>2, <3>3, <3>6, <3>7, <3>8 DEF Actual
  <2> QED
    BY <2>2, <2>3 DEF RInv, RBaseCurrent, SeenTracked, SeenCurrent, Reported, RIdle
<1> QED
  BY <1>1, <1>2, <1>3, <1>4 DEF RWork

LEMMA RInvNext ==
    ASSUME TypeOK, RInv, [Next]_vars
    PROVE  RInv'
<1>1. CASE RWork
  BY <1>1, RInvWork
<1> SUFFICES ASSUME ~RWork PROVE RInv'
  BY <1>1
<1>2. RQueued => RQueued'
  BY RQueuedStays DEF RWork
<1>3. CASE DWork \/ DFail \/ DeliverPod \/ DeliverDeployment
  <2>1. /\ UNCHANGED <<pods, rsCache, rctx, missed, flips>>
        /\ "replicaset" \in queue => "replicaset" \in queue'
    BY <1>3 DEF DWork, DStart, DList, DSync, DStatus, DFail, DeliverPod, DeliverDeployment
  <2>2. rs'.status = rs.status
    BY <1>3 DEF DWork, DStart, DList, DSync, DStatus, DFail, DeliverPod, DeliverDeployment,
                TypeOK, ReplicaSet
  <2> QED
    BY <1>2, <2>1, <2>2, RSame
<1>4. CASE DeliverReplicaSet
  <2>1. /\ UNCHANGED <<pods, rs, rctx, flips>>
        /\ "replicaset" \in queue' /\ rsCache' = rs
    BY <1>4 DEF DeliverReplicaSet
  <2>2. RQueued'
    BY <2>1 DEF RQueued
  <2> QED
    BY <2>1, <2>2 DEF RInv, RBaseCurrent, SeenTracked, Tracks, SeenCurrent, Reported, RSleepsWell
<1>5. CASE RFail \/ Restart
  <2>1. /\ rctx' = RIdle /\ "replicaset" \in queue'
        /\ UNCHANGED <<pods, flips>>
    BY <1>5 DEF RFail, Restart, Keys
  <2>2. RQueued'
    BY <2>1 DEF RQueued
  <2> QED
    BY <2>1, <2>2 DEF RInv, RBaseCurrent, SeenTracked, SeenCurrent, Reported, RSleepsWell, RIdle
<1>6. ASSUME NEW k \in Keys, TimerFires(k) PROVE RInv'
  <2>1. /\ UNCHANGED <<pods, rsCache, rctx, missed, flips, rs>>
        /\ "replicaset" \in queue => "replicaset" \in queue'
    BY <1>6 DEF TimerFires
  <2> QED
    BY <1>2, <2>1, RSame
<1>7. ASSUME NEW p \in PodKeys, Flip(p) PROVE RInv'
  <2>1. /\ UNCHANGED <<rs, rsCache, queue, rctx>> /\ RQueued'
        /\ flips' = flips + 1 /\ flips \in Nat
    BY <1>7, BoundsAssumption DEF Flip, RQueued, TypeOK
  <2>2. \A q \in PodKeys : \/ pods'[q] = pods[q]
                           \/ pods'[q].since = flips + 1
    BY <1>7 DEF Flip, TypeOK
  <2>3. \A q \in PodKeys : pods[q].since \in Nat
    BY BoundsAssumption DEF TypeOK, PodState
  <2>4. rctx.pc \in {"status", "requeue"} => \A q \in PodKeys : rctx.seen[q].since \in Nat
    BY RShape, BoundsAssumption DEF TypeOK, PodState
  <2>5. SeenTracked'
    BY <2>1, <2>2, <2>3, <2>4 DEF RInv, SeenTracked, Tracks
  <2>6. RBaseCurrent'
    BY <2>1 DEF RInv, RBaseCurrent
  <2> QED
    BY <2>1, <2>5, <2>6 DEF RInv, SeenCurrent, Reported, RSleepsWell
<1>8. ASSUME NEW p \in PodKeys, Ripen(p) PROVE RInv'
  <2>1. /\ pods[p].state = "ready"
        /\ UNCHANGED <<podEvent, rs, rsCache, queue, timer, rctx, flips>>
    BY <1>8 DEF Ripen
  <2>2. /\ pods'[p].since = pods[p].since /\ pods'[p].state = "available"
        /\ \A q \in PodKeys \ {p} : pods'[q] = pods[q]
    BY <1>8 DEF Ripen, TypeOK, PodState
  <2>3. SeenTracked'
    BY <2>1, <2>2 DEF RInv, SeenTracked, Tracks
  <2>4. SeenCurrent'
    BY <2>1, <2>2 DEF RInv, SeenCurrent, RQueued
  <2>5. RBaseCurrent'
    BY <2>1 DEF RInv, RBaseCurrent
  <2>6. Reported'
    <3>1. AvailablePods(pods) \subseteq AvailablePods(pods')
      BY <2>2 DEF AvailablePods
    <3>2. RQueued' = RQueued
      BY <2>1 DEF RQueued
    <3> QED
      BY <2>1, <3>1, <3>2 DEF RInv, Reported, AvailablePods, ReadyPods
  <2>7. RSleepsWell'
    BY <2>1 DEF RInv, RSleepsWell, RQueued
  <2> QED
    BY <2>3, <2>4, <2>5, <2>6, <2>7 DEF RInv
<1>9. CASE UNCHANGED vars
  BY <1>2, <1>9, RSame DEF vars
<1> QED
  BY <1>3, <1>4, <1>5, <1>6, <1>7, <1>8, <1>9 DEF Next, Informers

\* If the ReplicaSet's status is wrong, but for a Pod that became available between the
\* two readings of the clock, or a Pod has yet to become available, the ReplicaSet
\* controller is at work, queued, or will be woken by a timer or an event.
THEOREM ReplicaSetIsAwake == Spec => []NoSleepWhileBehind
<1>1. RInv => NoSleepWhileBehind
  BY DEF RInv, RSleepsWell, NoSleepWhileBehind, ReplicaSetAwake, RQueued
<1>2. TypeOK /\ RInv /\ [Next]_vars => RInv'
  BY RInvNext
<1> QED
  BY <1>1, <1>2, InitRInv, TypeCorrect, PTL DEF Spec

-----------------------------------------------------------------------------
(***************************************************************************)
(* The Deployment controller.                                              *)
(***************************************************************************)
LEMMA InitDInv == Init => DInv
  BY DEF Init, DInv, DBaseCurrent, ViewCurrent, DSleepsWell, DIdle, Says, AllCounted

\* Steps that leave alone what the Deployment controller looks at, but for a new
\* status of the ReplicaSet that is not yet in the cache.
LEMMA DSame ==
    ASSUME DInv, DQueued => DQueued', "deployment" \in queue => "deployment" \in queue',
           UNCHANGED <<rsCache, ds, dsCache, dctx>>, rs'.budget = rs.budget,
           rs'.status = rs.status \/ rs'.status # rsCache.status
    PROVE  DInv'
<1>1. DBaseCurrent'
  BY DEF DInv, DBaseCurrent
<1>2. ViewCurrent'
  BY DEF DInv, ViewCurrent
<1>3. DSleepsWell'
  BY DEF DInv, DSleepsWell, Says
<1> QED
  BY <1>1, <1>2, <1>3 DEF DInv

\* A step of the reconcile.
LEMMA DInvWork ==
    ASSUME TypeOK, DInv, DWork
    PROVE  DInv'
<1>1. CASE DStart
  <2>1. dctx'.pc = "list" /\ dctx'.base = dsCache' /\ dctx' # DIdle
    BY <1>1 DEF DStart, DIdle
  <2> QED
    BY <2>1 DEF DInv, DBaseCurrent, ViewCurrent, DSleepsWell
<1>2. CASE DList
  <2>1. /\ dctx.pc = "list" /\ dctx'.base = dctx.base /\ dctx'.view = rs
        /\ dctx'.pc = IF rs.budget = DeploymentParallelism(rs.status.available)
                      THEN "status" ELSE "sync"
        /\ UNCHANGED <<rs, dsCache, queue>>
    BY <1>2 DEF DList
  <2>2. dctx' # DIdle
    BY <2>1 DEF DIdle
  <2> QED
    BY <2>1, <2>2 DEF DInv, DBaseCurrent, ViewCurrent, DSleepsWell
<1>3. CASE DSync
  BY <1>3 DEF DSync, DInv, DBaseCurrent, ViewCurrent, DSleepsWell, DIdle, DQueued
<1>4. CASE DStatus
  <2> DEFINE c == dctx.view.status
  <2>1. /\ dctx.pc = "status" /\ dctx' = DIdle
        /\ ds' = MergePatch(dctx.base, NewStatus(dctx.base, c), ds)
        /\ DQueued => DQueued'
        /\ UNCHANGED <<rs, rsCache, dsCache, queue>>
    BY <1>4 DEF DStatus, NewStatus, DQueued
  <2>2. dctx.base \in DeploymentStatus /\ c \in Counts /\ ds \in DeploymentStatus
    BY <2>1, DShape DEF TypeOK, ReplicaSet
  <2> HIDE DEF c
  <2>3. ASSUME ~DQueued', rsCache.status = rs.status, dsCache = ds'
        PROVE  Says(rs.status)' /\ rs.budget = DeploymentParallelism(rs.status.available)
    <3>1. c = rs.status /\ rs.budget = DeploymentParallelism(c.available)
      BY <2>1, <2>3 DEF DInv, ViewCurrent, c
    <3>2. dctx.base = dsCache
      BY <2>1, <2>3 DEF DInv, DBaseCurrent, DQueued
    <3>3. NewStatus(dctx.base, c) \in DeploymentStatus
      BY <2>2, NewStatusType
    <3>4. ds' = NewStatus(dctx.base, c)
      BY <2>1, <2>2, <2>3, <3>2, <3>3, MergeDeployment
    <3>5. ds'.ready = c.ready /\ ds'.available = c.available
          /\ ds'.conditions = PreserveConditionTime(dctx.base.conditions, ConditionsOf(c))
      BY <3>4 DEF NewStatus
    <3>6. ds'.conditions.says = ConditionsOf(c)
      BY <3>5 DEF PreserveConditionTime
    <3> QED
      BY <2>1, <3>1, <3>5, <3>6 DEF Says
  <2> QED
    BY <2>1, <2>3 DEF DInv, DBaseCurrent, ViewCurrent, DSleepsWell, DIdle
<1> QED
  BY <1>1, <1>2, <1>3, <1>4 DEF DWork

LEMMA DInvNext ==
    ASSUME TypeOK, RBaseCurrent, DInv, [Next]_vars
    PROVE  DInv'
<1>1. CASE DWork
  BY <1>1, DInvWork
<1>2. CASE RStart \/ RList \/ RRequeue \/ RFail \/ DeliverPod
  <2>1. /\ UNCHANGED <<rs, rsCache, ds, dsCache, dctx>> /\ (DQueued => DQueued')
        /\ "deployment" \in queue => "deployment" \in queue'
    BY <1>2 DEF RStart, RList, RRequeue, RFail, DeliverPod, DQueued
  <2> QED
    BY <2>1, DSame
<1>3. CASE RStatus
  <2>1. /\ UNCHANGED <<rsCache, ds, dsCache, dctx, queue>> /\ (DQueued => DQueued')
    BY <1>3 DEF RStatus, DQueued
  <2> QED
    BY <1>3, <2>1, WriteIsSeen, DSame
<1>4. CASE DeliverReplicaSet \/ DeliverDeployment
  BY <1>4 DEF DeliverReplicaSet, DeliverDeployment, DInv, DBaseCurrent, ViewCurrent,
              DSleepsWell, DQueued
<1>5. CASE DFail \/ Restart
  BY <1>5 DEF DFail, Restart, Keys, DInv, DBaseCurrent, ViewCurrent, DSleepsWell, DQueued, DIdle
<1>6. ASSUME NEW k \in Keys, TimerFires(k) PROVE DInv'
  <2>1. /\ UNCHANGED <<rs, rsCache, ds, dsCache, dctx>> /\ (DQueued => DQueued')
        /\ "deployment" \in queue => "deployment" \in queue'
    BY <1>6 DEF TimerFires, DQueued
  <2> QED
    BY <2>1, DSame
<1>7. ASSUME NEW p \in PodKeys, Flip(p) \/ Ripen(p) PROVE DInv'
  <2>1. UNCHANGED <<rs, rsCache, ds, dsCache, dctx, queue, timer>>
    BY <1>7 DEF Flip, Ripen
  <2> QED
    BY <2>1, DSame DEF DQueued
<1>8. CASE UNCHANGED vars
  BY <1>8, DSame DEF vars, DQueued
<1> QED
  BY <1>1, <1>2, <1>3, <1>4, <1>5, <1>6, <1>7, <1>8 DEF Next, RWork, Informers

\* The base of the status patch, by itself.
LEMMA RBaseNext ==
    ASSUME TypeOK, RBaseCurrent, [Next]_vars
    PROVE  RBaseCurrent'
<1>1. CASE RWork
  <2>1. CASE RStart
    BY <2>1 DEF RStart, RBaseCurrent
  <2>2. CASE RList
    BY <2>2 DEF RList, RBaseCurrent
  <2>3. CASE RStatus
    <3>1. rctx'.pc = "requeue"
      BY <2>3 DEF RStatus
    <3> QED
      BY <3>1 DEF RBaseCurrent
  <2>4. CASE RRequeue
    BY <2>4 DEF RRequeue, RIdle, RBaseCurrent
  <2> QED
    BY <1>1, <2>1, <2>2, <2>3, <2>4 DEF RWork
<1>2. CASE DWork \/ DFail \/ DeliverPod \/ DeliverDeployment
  <2>1. UNCHANGED <<rsCache, rctx>> /\ ("replicaset" \in queue => "replicaset" \in queue')
    BY <1>2 DEF DWork, DStart, DList, DSync, DStatus, DFail, DeliverPod, DeliverDeployment
  <2>2. rs'.status = rs.status
    BY <1>2 DEF DWork, DStart, DList, DSync, DStatus, DFail, DeliverPod, DeliverDeployment,
                TypeOK, ReplicaSet
  <2> QED
    BY <2>1, <2>2 DEF RBaseCurrent
<1>3. CASE DeliverReplicaSet \/ RFail \/ Restart
  BY <1>3 DEF DeliverReplicaSet, RFail, Restart, RIdle, RBaseCurrent
<1>4. ASSUME NEW k \in Keys, TimerFires(k) PROVE RBaseCurrent'
  BY <1>4 DEF TimerFires, RBaseCurrent
<1>5. ASSUME NEW p \in PodKeys, Flip(p) \/ Ripen(p) PROVE RBaseCurrent'
  BY <1>5 DEF Flip, Ripen, RBaseCurrent
<1>6. CASE UNCHANGED vars
  BY <1>6 DEF vars, RBaseCurrent
<1> QED
  BY <1>1, <1>2, <1>3, <1>4, <1>5, <1>6 DEF Next, Informers

\* If the Deployment's status or the budget it gave does not follow from the
\* ReplicaSet's status, the Deployment controller is at work, queued, or will be
\* woken.
THEOREM DeploymentIsAwake == Spec => []DeploymentFollows
<1>1. Init => RBaseCurrent
  BY DEF Init, RBaseCurrent, RIdle
<1>2. TypeOK /\ RBaseCurrent /\ [Next]_vars => RBaseCurrent'
  BY RBaseNext
<1>3. TypeOK /\ RBaseCurrent /\ DInv /\ [Next]_vars => DInv'
  BY DInvNext
<1>4. DInv => DeploymentFollows
  BY DEF DInv, DSleepsWell, DeploymentFollows, DeploymentAwake, DQueued
<1> QED
  BY <1>1, <1>2, <1>3, <1>4, InitDInv, TypeCorrect, PTL DEF Spec
=============================================================================
