------------------------------ MODULE WakeUps ------------------------------
(***************************************************************************)
(* What wakes the two controllers: watch events, requeues, and nothing     *)
(* else.                                                                   *)
(*                                                                         *)
(* A rolled-out Deployment with one ReplicaSet whose Pods become ready,    *)
(* available minReadySeconds later, and unready again.  A reconcile runs   *)
(* only when its key is in the work queue.  The ReplicaSet controller      *)
(* counts the Pods and writes the ReplicaSet's status; the Deployment      *)
(* controller reads that status, writes the in-place budget into the       *)
(* ReplicaSet and the counts into its own status.  Both write a status     *)
(* only if it differs from the one in their cache.                         *)
(*                                                                         *)
(* The resync of the informers, every ten hours, is left out: nothing here *)
(* depends on it.                                                          *)
(***************************************************************************)
EXTENDS Integers, FiniteSets

CONSTANTS
    NumPods,        \* spec.replicas, and Pods there are
    MaxUnavailable, \* the resolved fencepost
    MaxFlips,       \* bound: how often a Pod becomes ready or unready
    MaxFaults       \* bound: failed calls and restarts

ASSUME NumPodsAssumption == NumPods \in Nat \ {0}
ASSUME LimitAssumption   == MaxUnavailable \in 0..NumPods
ASSUME BoundsAssumption  == MaxFlips \in Nat /\ MaxFaults \in Nat

PodKeys == 1..NumPods
Keys == {"replicaset", "deployment"}

VARIABLES
    pods,           \* each Pod: its state, and since which flip
    podEvent,       \* a watch event of a Pod is on its way
    rs, rsCache,    \* the ReplicaSet's budget and status, and the informers' copy
    ds, dsCache,    \* the Deployment's status, and the informer's copy
    queue,          \* the keys in the work queues
    timer,          \* the keys that are added after a delay
    rctx, dctx,     \* the reconciles in progress
    missed,         \* history: the last reconcile saw a Pod become available between
                    \* its status and its requeue, and left it at that
    flips, faults   \* so far

vars == <<pods, podEvent, rs, rsCache, ds, dsCache, queue, timer, rctx, dctx, missed, flips, faults>>

-----------------------------------------------------------------------------
PodState == [state: {"unready", "ready", "available"}, since: 0..MaxFlips]
Counts == [ready: 0..NumPods, available: 0..NumPods]
ReplicaSet == [budget: 0..NumPods, status: Counts]

\* What the conditions Available and Progressing say: a number of available
\* replicas only if it is too small, and whether the rollout is complete.
ConditionsOf(c) ==
    [missing  |-> IF c.available >= NumPods - MaxUnavailable THEN 0 ELSE NumPods - c.available,
     complete |-> c.available = NumPods]

\* Two moments are enough to tell a new time from the one before it.
Moments == {0, 1}
Later(time) == 1 - time
Conditions == [says: [missing: 0..NumPods, complete: BOOLEAN], time: Moments]
DeploymentStatus == [ready: 0..NumPods, available: 0..NumPods, conditions: Conditions]

\* seen are the Pods as listed, S those found available for the status.
RIdle == [pc |-> "idle"]
RContext ==
    {RIdle} \cup [pc: {"list"}, base: Counts]
    \cup [pc: {"status"}, base: Counts, seen: [PodKeys -> PodState]]
    \cup [pc: {"requeue"}, seen: [PodKeys -> PodState], S: SUBSET PodKeys]

DIdle == [pc |-> "idle"]
DContext ==
    {DIdle} \cup [pc: {"list"}, base: DeploymentStatus]
    \cup [pc: {"sync", "status"}, base: DeploymentStatus, view: ReplicaSet]

TypeOK ==
    /\ pods \in [PodKeys -> PodState]
    /\ podEvent \in BOOLEAN
    /\ rs \in ReplicaSet /\ rsCache \in ReplicaSet
    /\ ds \in DeploymentStatus /\ dsCache \in DeploymentStatus
    /\ queue \subseteq Keys /\ timer \subseteq Keys
    /\ rctx \in RContext /\ dctx \in DContext
    /\ missed \in BOOLEAN
    /\ flips \in 0..MaxFlips /\ faults \in 0..MaxFaults

-----------------------------------------------------------------------------
ReadyPods(view) == {p \in PodKeys : view[p].state # "unready"}
AvailablePods(view) == {p \in PodKeys : view[p].state = "available"}

\* The Pods of a list that are available at present: one that was listed as ready
\* becomes available by the passing of time alone.  If it has flipped since, the
\* list does not tell how long it still had to wait.
AvailableNow(seen) ==
    {S \in SUBSET ReadyPods(seen) :
        /\ AvailablePods(seen) \subseteq S
        /\ \A p \in ReadyPods(seen) : pods[p].since = seen[p].since
              => (p \in S <=> pods[p].state = "available")}

Max2(a, b) == IF a >= b THEN a ELSE b

\* Mutant: the budget is not cut off at zero.
DeploymentParallelism_Unclamped(available) == MaxUnavailable - (NumPods - available)

\* deploymentParallelism
DeploymentParallelism(available) ==
    LET unavailable == Max2(NumPods - available, 0)
    IN  IF MaxUnavailable = 0 /\ unavailable = 0 THEN 1
        ELSE Max2(MaxUnavailable - unavailable, 0)

MergePatch(base, new, live) ==
    [f \in DOMAIN live |-> IF new[f] = base[f] THEN live[f] ELSE new[f]]

AllCounted == [ready |-> NumPods, available |-> NumPods]

Init ==
    /\ pods = [p \in PodKeys |-> [state |-> "available", since |-> 0]]
    /\ podEvent = FALSE
    /\ rs = [budget |-> DeploymentParallelism(NumPods), status |-> AllCounted]
    /\ rsCache = rs
    /\ ds = [ready |-> NumPods, available |-> NumPods,
             conditions |-> [says |-> ConditionsOf(AllCounted), time |-> 0]]
    /\ dsCache = ds
    /\ queue = {} /\ timer = {}
    /\ rctx = RIdle /\ dctx = DIdle
    /\ missed = FALSE
    /\ flips = 0 /\ faults = 0

-----------------------------------------------------------------------------
(***************************************************************************)
(* The ReplicaSet controller.                                              *)
(***************************************************************************)
\* The ReplicaSet is read from the cache, the Pods are listed live.
RStart ==
    /\ "replicaset" \in queue /\ rctx = RIdle
    /\ queue' = queue \ {"replicaset"}
    /\ rctx' = [pc |-> "list", base |-> rsCache.status]
    /\ UNCHANGED <<pods, podEvent, rs, rsCache, ds, dsCache, timer, dctx, missed, flips, faults>>

RList ==
    /\ rctx.pc = "list"
    /\ rctx' = [pc |-> "status", base |-> rctx.base, seen |-> pods]
    /\ UNCHANGED <<pods, podEvent, rs, rsCache, ds, dsCache, queue, timer, dctx, missed, flips, faults>>

\* updateReplicaSetStatus: no write if the cached status is the same.
RStatus ==
    /\ rctx.pc = "status"
    /\ \E S \in AvailableNow(rctx.seen) :
          LET new == [ready |-> Cardinality(ReadyPods(rctx.seen)), available |-> Cardinality(S)]
          IN  /\ rs' = [rs EXCEPT !.status = MergePatch(rctx.base, new, @)]
              /\ rctx' = [pc |-> "requeue", seen |-> rctx.seen, S |-> S]
    /\ missed' = FALSE
    /\ UNCHANGED <<pods, podEvent, rsCache, ds, dsCache, queue, timer, dctx, flips, faults>>

\* Mutant: only Pods that are not ready are waited for.
NeedsRequeue_OnlyReady(seen, S) == Cardinality(ReadyPods(seen)) < NumPods

\* requeueWhileUpdating, two seconds; else a second while a Pod is ready and not
\* available.
NeedsRequeue(seen, S) ==
    \/ Cardinality(ReadyPods(seen)) < NumPods
    \/ Cardinality(S) < Cardinality(ReadyPods(seen))

\* availableReplicas is called again, with a new reading of the clock: a Pod may have
\* become available since the status was computed.
RRequeue ==
    /\ rctx.pc = "requeue"
    /\ \E S \in AvailableNow(rctx.seen) :
          /\ rctx.S \subseteq S
          /\ timer' = IF NeedsRequeue(rctx.seen, S) THEN timer \cup {"replicaset"} ELSE timer
          /\ missed' = (S # rctx.S /\ ~NeedsRequeue(rctx.seen, S))
    /\ rctx' = RIdle
    /\ UNCHANGED <<pods, podEvent, rs, rsCache, ds, dsCache, queue, dctx, flips, faults>>

RWork == RStart \/ RList \/ RStatus \/ RRequeue

-----------------------------------------------------------------------------
(***************************************************************************)
(* The Deployment controller.                                              *)
(***************************************************************************)
\* The Deployment is read from the cache, its ReplicaSet live.
DStart ==
    /\ "deployment" \in queue /\ dctx = DIdle
    /\ queue' = queue \ {"deployment"}
    /\ dctx' = [pc |-> "list", base |-> dsCache]
    /\ UNCHANGED <<pods, podEvent, rs, rsCache, ds, dsCache, timer, rctx, missed, flips, faults>>

DList ==
    /\ dctx.pc = "list"
    /\ dctx' = [pc |-> IF rs.budget = DeploymentParallelism(rs.status.available)
                       THEN "status" ELSE "sync", base |-> dctx.base, view |-> rs]
    /\ UNCHANGED <<pods, podEvent, rs, rsCache, ds, dsCache, queue, timer, rctx, missed, flips, faults>>

\* syncReplicaSet writes the budget, and the key is queued again.
DSync ==
    /\ dctx.pc = "sync"
    /\ rs' = [rs EXCEPT !.budget = DeploymentParallelism(dctx.view.status.available)]
    /\ queue' = queue \cup {"deployment"}
    /\ dctx' = DIdle
    /\ UNCHANGED <<pods, podEvent, rsCache, ds, dsCache, timer, rctx, missed, flips, faults>>

\* Mutant: every reconcile dates the conditions.
PreserveConditionTime_Never(existing, says) == [says |-> says, time |-> Later(existing.time)]

\* A condition that says the same as before keeps its time.
PreserveConditionTime(existing, says) ==
    [says |-> says, time |-> IF existing.says = says THEN existing.time ELSE Later(existing.time)]

\* updateDeploymentStatus; the key is queued after two seconds unless
\* deploymentComplete.
DStatus ==
    /\ dctx.pc = "status"
    /\ LET c == dctx.view.status
           conditions == PreserveConditionTime(dctx.base.conditions, ConditionsOf(c))
       IN  ds' = MergePatch(dctx.base, [ready |-> c.ready, available |-> c.available,
                                        conditions |-> conditions], ds)
    /\ timer' = IF dctx.view.status = AllCounted THEN timer ELSE timer \cup {"deployment"}
    /\ dctx' = DIdle
    /\ UNCHANGED <<pods, podEvent, rs, rsCache, dsCache, queue, rctx, missed, flips, faults>>

DWork == DStart \/ DList \/ DSync \/ DStatus

-----------------------------------------------------------------------------
(***************************************************************************)
(* Queues, informers and Pods.                                             *)
(***************************************************************************)
TimerFires(k) ==
    /\ k \in timer /\ timer' = timer \ {k}
    /\ queue' = queue \cup {k}
    /\ UNCHANGED <<pods, podEvent, rs, rsCache, ds, dsCache, rctx, dctx, missed, flips, faults>>

\* Owns(Pod) of the ReplicaSet controller.
DeliverPod ==
    /\ podEvent /\ podEvent' = FALSE
    /\ queue' = queue \cup {"replicaset"}
    /\ UNCHANGED <<pods, rs, rsCache, ds, dsCache, timer, rctx, dctx, missed, flips, faults>>

\* For(ReplicaSet) of the one and Owns(ReplicaSet) of the other.
DeliverReplicaSet ==
    /\ rsCache # rs /\ rsCache' = rs
    /\ queue' = queue \cup {"replicaset", "deployment"}
    /\ UNCHANGED <<pods, podEvent, rs, ds, dsCache, timer, rctx, dctx, missed, flips, faults>>

\* Mutant: a predicate hides the status from the Deployment controller.
DeliverDeployment_SpecOnly ==
    /\ dsCache # ds /\ dsCache' = ds
    /\ UNCHANGED <<pods, podEvent, rs, rsCache, ds, queue, timer, rctx, dctx, missed, flips, faults>>

DeliverDeployment ==
    /\ dsCache # ds /\ dsCache' = ds
    /\ queue' = queue \cup {"deployment"}
    /\ UNCHANGED <<pods, podEvent, rs, rsCache, ds, timer, rctx, dctx, missed, flips, faults>>

\* A Pod becomes ready or unready.
Flip(p) ==
    /\ flips < MaxFlips /\ flips' = flips + 1
    /\ pods' = [pods EXCEPT ![p] = [state |-> IF @.state = "unready" THEN "ready" ELSE "unready",
                                    since |-> flips']]
    /\ podEvent' = TRUE
    /\ UNCHANGED <<rs, rsCache, ds, dsCache, queue, timer, rctx, dctx, missed, faults>>

\* minReadySeconds pass: no object changes.
Ripen(p) ==
    /\ pods[p].state = "ready"
    /\ pods' = [pods EXCEPT ![p].state = "available"]
    /\ UNCHANGED <<podEvent, rs, rsCache, ds, dsCache, queue, timer, rctx, dctx, missed, flips, faults>>

Fault == faults < MaxFaults /\ faults' = faults + 1

\* Mutant: an error is forgotten.
RFail_Forgotten ==
    /\ rctx # RIdle /\ Fault
    /\ rctx' = RIdle
    /\ UNCHANGED <<pods, podEvent, rs, rsCache, ds, dsCache, queue, timer, dctx, missed, flips>>

\* An error puts the key back into the queue.
RFail ==
    /\ rctx # RIdle /\ Fault
    /\ rctx' = RIdle /\ queue' = queue \cup {"replicaset"}
    /\ UNCHANGED <<pods, podEvent, rs, rsCache, ds, dsCache, timer, dctx, missed, flips>>

DFail ==
    /\ dctx # DIdle /\ Fault
    /\ dctx' = DIdle /\ queue' = queue \cup {"deployment"}
    /\ UNCHANGED <<pods, podEvent, rs, rsCache, ds, dsCache, timer, rctx, missed, flips>>

\* A manager that starts lists everything, which queues every key.
Restart ==
    /\ Fault
    /\ rctx' = RIdle /\ dctx' = DIdle
    /\ rsCache' = rs /\ dsCache' = ds /\ podEvent' = FALSE
    /\ queue' = Keys /\ timer' = {}
    /\ UNCHANGED <<pods, rs, ds, missed, flips>>

Informers == DeliverPod \/ DeliverReplicaSet \/ DeliverDeployment

Next ==
    \/ RWork \/ DWork \/ RFail \/ DFail \/ Restart
    \/ \E k \in Keys : TimerFires(k)
    \/ Informers
    \/ \E p \in PodKeys : Flip(p) \/ Ripen(p)

Spec == Init /\ [][Next]_vars

\* Workers that have something to do, timers, informers and the clock go on.
FairSpec ==
    /\ Spec
    /\ WF_vars(RWork) /\ WF_vars(DWork)
    /\ WF_vars(DeliverPod) /\ WF_vars(DeliverReplicaSet) /\ WF_vars(DeliverDeployment)
    /\ \A k \in Keys : WF_vars(TimerFires(k))
    /\ \A p \in PodKeys : WF_vars(Ripen(p))

-----------------------------------------------------------------------------
\* What the Pods are.
Actual == [ready |-> Cardinality(ReadyPods(pods)), available |-> Cardinality(AvailablePods(pods))]

\* The ReplicaSet's status is right.  Only the moment between the two readings of the
\* clock may be missed, and then too few Pods are reported available until the next
\* event.
SafelyReported ==
    /\ rs.status.ready = Actual.ready
    /\ IF missed THEN rs.status.available <= Actual.available
                 ELSE rs.status.available = Actual.available

\* Nobody sleeps while there is something to report or to wait for: if the ReplicaSet's
\* status is wrong, or a Pod has yet to become available, then the key is queued, will
\* be queued, is being worked on, or a watch event is on its way.  The one exception is
\* a Pod that became available between the two readings of the clock.
ReplicaSetAwake == "replicaset" \in queue \cup timer \/ rctx # RIdle \/ podEvent \/ rsCache # rs
NoSleepWhileBehind ==
    (~SafelyReported \/ \E p \in PodKeys : pods[p].state = "ready") => ReplicaSetAwake

\* The Deployment's status says what these counts say.
Says(c) ==
    /\ ds.ready = c.ready /\ ds.available = c.available
    /\ ds.conditions.says = ConditionsOf(c)

\* The same of the Deployment, whose status and budget follow the ReplicaSet's.
DeploymentAwake == "deployment" \in queue \cup timer \/ dctx # DIdle \/ rsCache # rs \/ dsCache # ds
DeploymentFollows ==
    (~Says(rs.status) \/ rs.budget # DeploymentParallelism(rs.status.available))
    => DeploymentAwake

\* When the Pods no longer flip and no call fails, the ReplicaSet's status is right up
\* to the missed moment, and the Deployment's says the same, for good.
StatusCatchesUp == <>[](SafelyReported /\ Says(rs.status))

\* ... and both controllers come to rest if all is reported available: no requeue,
\* event or status write leads to another for ever.
ComesToRest ==
    <>[](rs.status = AllCounted
           => queue = {} /\ timer = {} /\ rctx = RIdle /\ dctx = DIdle)
=============================================================================
