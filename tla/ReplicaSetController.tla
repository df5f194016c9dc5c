------------------------ MODULE ReplicaSetController ------------------------
(***************************************************************************)
(* ReplicaSetReconciler.Reconcile as a sequence of API calls.              *)
(*                                                                         *)
(* The controller runs one worker for all ReplicaSets.  RRead is the       *)
(* cached Get of one of them and the live list of its Pods; then the       *)
(* reconcile creates Pods, or deletes Pods, or patches Pods in place one   *)
(* by one and writes the status.  RFail is a call that returns an error or *)
(* a restart of the manager.                                               *)
(***************************************************************************)
EXTENDS ClusterState

CONSTANTS
    BurstReplicas,  \* Pods created or deleted by one reconcile, 500 in the code
    PodRank         \* the order in which Pods are patched, ties being arbitrary

ASSUME BurstAssumption == BurstReplicas \in Nat \ {0}
ASSUME RankAssumption  == PodRank \in [PodIds -> Nat]

VARIABLE
    rctx            \* the reconcile in progress

-----------------------------------------------------------------------------
RIdle == [pc |-> "idle"]

\* obj is the ReplicaSet as cached, seen the active Pods as read, where a
\* patched Pod is replaced by the API server's answer.
RContext ==
    {RIdle}
    \cup [pc: {"create"}, s: Structures, obj: ReplicaSet, n: Nat]
    \cup [pc: {"delete"}, s: Structures, victims: SUBSET PodIds]
    \cup [pc: {"update"}, s: Structures, obj: ReplicaSet,
          seen: UNION {[D -> Pod] : D \in SUBSET PodIds},
          terminating: Nat, inFlight: Nat]

ReplicaSetTypeOK == rctx \in RContext

ReplicaSetInit == rctx = RIdle

-----------------------------------------------------------------------------
\* Mutant: deletes one Pod too many when it can.
DeletionChoices_OneMore(active, k) ==
    {V \in SUBSET active : Cardinality(V) = Min2(k + 1, Cardinality(active))}

\* The native deletion order: Pods that are not ready go first.
DeletionChoices(active, k) ==
    {V \in SUBSET active :
        /\ Cardinality(V) = k
        /\ \A v \in V, w \in active \ V : pods[v].ready => pods[w].ready}

\* Mutant: a patched Pod that still looks ready is not in flight.
InFlight_OnlyUnready(seen, rev) ==
    Cardinality({p \in DOMAIN seen : SpecMatches(seen[p], rev) /\ ~seen[p].ready})

InFlight(seen, rev) ==
    Cardinality({p \in DOMAIN seen : /\ SpecMatches(seen[p], rev)
                                     /\ ~ReadyAndObserved(seen[p], rev)})

Outdated(c) == {p \in DOMAIN c.seen : ~SpecMatches(c.seen[p], c.obj.rev)}

\* The Pods updatePods may patch next: it goes through them by creation time,
\* and those of the same second in the order of their names.
PatchCandidates(c) ==
    {p \in Outdated(c) : /\ c.inFlight < c.obj.par
                         /\ \A q \in Outdated(c) : PodRank[p] <= PodRank[q]}

CalculatedStatus(c) ==
    [gen         |-> c.obj.gen,
     replicas    |-> Cardinality(DOMAIN c.seen),
     available   |-> Cardinality({p \in DOMAIN c.seen : c.seen[p].ready}),
     terminating |-> c.terminating,
     rev         |-> c.obj.rev,
     updated     |-> Cardinality({p \in DOMAIN c.seen : SpecMatches(c.seen[p], c.obj.rev)}),
     ready       |-> Cardinality({p \in DOMAIN c.seen : ReadyAndObserved(c.seen[p], c.obj.rev)})]

-----------------------------------------------------------------------------
RRead(s) ==
    LET obj    == CachedReplicaSet(s)
        active == ActivePods(s)
        count  == Cardinality(active)
    IN  /\ rctx = RIdle
        /\ obj.gen > 0
        /\ \/ /\ count < obj.replicas
              /\ rctx' = [pc |-> "create", s |-> s, obj |-> obj,
                          n |-> Min2(obj.replicas - count, BurstReplicas)]
           \/ /\ count > obj.replicas
              /\ \E V \in DeletionChoices(active, Min2(count - obj.replicas, BurstReplicas)) :
                    rctx' = [pc |-> "delete", s |-> s, victims |-> V]
           \/ /\ count = obj.replicas
              /\ LET seen == [p \in active |-> pods[p]]
                 IN  rctx' = [pc |-> "update", s |-> s, obj |-> obj, seen |-> seen,
                              terminating |-> Cardinality(PodsIn("Terminating", s)),
                              inFlight |-> InFlight(seen, obj.rev)]
        /\ UNCHANGED clusterVars

NewPod(s, rev) == [owner |-> s, rev |-> rev, observed |-> ImageOf[rev],
                   ready |-> FALSE, phase |-> "Active"]

\* Mutant: the batch creates one Pod too many.
RCreatePod_OneMore ==
    /\ rctx.pc = "create"
    /\ \E p \in PodIds \ DOMAIN pods :
          pods' = [q \in DOMAIN pods \cup {p} |->
                      IF q = p THEN NewPod(rctx.s, rctx.obj.rev) ELSE pods[q]]
    /\ rctx' = IF rctx.n = 0 THEN RIdle ELSE [rctx EXCEPT !.n = @ - 1]
    /\ UNCHANGED <<deploy, dcache, rs, rscache, faults>>

RCreatePod ==
    /\ rctx.pc = "create"
    /\ \E p \in PodIds \ DOMAIN pods :
          pods' = [q \in DOMAIN pods \cup {p} |->
                      IF q = p THEN NewPod(rctx.s, rctx.obj.rev) ELSE pods[q]]
    /\ rctx' = IF rctx.n = 1 THEN RIdle ELSE [rctx EXCEPT !.n = @ - 1]
    /\ UNCHANGED <<deploy, dcache, rs, rscache, faults>>

\* Deleting a Pod that is gone is not an error.
RDeletePod ==
    /\ rctx.pc = "delete"
    /\ \E p \in rctx.victims :
          /\ pods' = IF p \in DOMAIN pods /\ pods[p].phase = "Active"
                     THEN [pods EXCEPT ![p].phase = "Terminating"] ELSE pods
          /\ rctx' = IF rctx.victims = {p} THEN RIdle
                     ELSE [rctx EXCEPT !.victims = @ \ {p}]
    /\ UNCHANGED <<deploy, dcache, rs, rscache, faults>>

\* Patching a Pod that is gone ends the reconcile.
RPatchPod ==
    /\ rctx.pc = "update"
    /\ \E p \in PatchCandidates(rctx) :
          IF p \in DOMAIN pods
          THEN /\ pods' = [pods EXCEPT ![p].rev = rctx.obj.rev]
               /\ rctx' = [rctx EXCEPT !.seen[p] = pods'[p], !.inFlight = @ + 1]
          ELSE /\ rctx' = RIdle
               /\ UNCHANGED pods
    /\ UNCHANGED <<deploy, dcache, rs, rscache, faults>>

RPatchStatus ==
    /\ rctx.pc = "update"
    /\ PatchCandidates(rctx) = {}
    /\ rs' = [rs EXCEPT ![rctx.s].status =
                 MergePatch(rctx.obj.status, CalculatedStatus(rctx), @)]
    /\ rctx' = RIdle
    /\ UNCHANGED <<deploy, dcache, rscache, pods, faults>>

RFail ==
    /\ rctx # RIdle
    /\ Fault("api")
    /\ rctx' = RIdle
    /\ UNCHANGED <<deploy, dcache, rs, rscache, pods>>

RStep == RCreatePod \/ RDeletePod \/ RPatchPod \/ RPatchStatus
=============================================================================
