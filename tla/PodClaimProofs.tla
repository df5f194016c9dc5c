--------------------------- MODULE PodClaimProofs ---------------------------
(***************************************************************************)
(* Proofs about PodClaim: whatever the others do between two calls of a    *)
(* reconcile, its patches act on Pods as they are, and it overlooks none.  *)
(***************************************************************************)
EXTENDS PodClaim, TLAPS

\* What the reconcile read of a Pod is what the Pod is, as long as the version
\* has not changed: this is what the optimistic lock buys.
SnapshotsFresh ==
    \A p \in DOMAIN seen :
        /\ seen[p].version <= pods[p].version
        /\ seen[p].version = pods[p].version => seen[p] = pods[p]
        /\ seen[p].there

\* After canAdopt the chosen Pod is one to adopt, and, if it has not been
\* written since, it was an orphan while the ReplicaSet lived.
AdoptionVerified ==
    pc = "adopt" =>
        \A p \in PodKeys : IsFirst(p) =>
            /\ ToAdopt(p)
            /\ seen[p].version = pods[p].version => p \in eligible

\* From the live list on, every Pod that has been the ReplicaSet's own all the
\* time is among the candidates and will be claimed.
SteadySeen ==
    pc \in {"index", "get", "adopt", "claimed"} =>
        \A p \in steady : p \in DOMAIN seen /\ ToClaim(p)

Inv == TypeOK /\ SnapshotsFresh /\ AdoptionVerified /\ SteadySeen

-----------------------------------------------------------------------------
\* The initial states have the invariant.
LEMMA InitInv == Init => Inv
<1> SUFFICES ASSUME Init PROVE Inv
    OBVIOUS
<1>1. TypeOK
    <2>1. 1 \in Uids /\ {1, NoOwner} \subseteq Owners
        BY UidAssumption DEF Uids, Owners
    <2>2. pods \in [PodKeys -> Pod]
        <3> DEFINE First == [there: {TRUE}, owner: {1, NoOwner}, matches: BOOLEAN, version: {0}]
        <3>1. ASSUME NEW pod \in First PROVE pod \in Pod
            <4>1. pod = [there |-> pod.there, owner |-> pod.owner,
                         matches |-> pod.matches, version |-> pod.version]
                BY <3>1
            <4>2. pod.there \in {TRUE} /\ pod.owner \in {1, NoOwner}
                BY <3>1
            <4>3. pod.matches \in BOOLEAN /\ pod.version \in {0}
                BY <3>1
            <4>4. pod.there \in BOOLEAN
                BY <4>2, Zenon
            <4>5. pod.version \in Nat
                BY <4>3
            <4> HIDE DEF First
            <4> QED
                BY <2>1, <4>1, <4>2, <4>3, <4>4, <4>5 DEF Pod
        <3>2. pods \in [PodKeys -> First]
            BY DEF Init
        <3> HIDE DEF First
        <3> QED
            BY <3>1, <3>2
    <2>3. index \in [PodKeys -> Owners]
        BY <2>2 DEF Init, Pod
    <2>4. DOMAIN seen = {} /\ seen \in [DOMAIN seen -> Pod]
        BY DEF Init, NoPods
    <2>5. live \in ReplicaSet /\ cached \in ReplicaSet /\ w \in ReplicaSet
        BY <2>1 DEF Init, Unread, ReplicaSet
    <2>6. changes \in 0..MaxChanges
        BY ChangesAssumption DEF Init
    <2> QED
        BY <2>2, <2>3, <2>4, <2>5, <2>6 DEF Init, TypeOK
<1>2. SnapshotsFresh /\ AdoptionVerified /\ SteadySeen
    BY DEF Init, SnapshotsFresh, AdoptionVerified, SteadySeen, NoPods
<1> QED
    BY <1>1, <1>2 DEF Inv

\* The end of a reconcile forgets what it read.
LEMMA EndType ==
    ASSUME End
    PROVE  /\ pc' = "idle" /\ w' \in ReplicaSet
           /\ DOMAIN seen' = {} /\ seen' \in [DOMAIN seen' -> Pod] /\ todo' = {}
BY UidAssumption DEF End, Unread, NoPods, ReplicaSet, Uids

\* The histories are sets of Pods.
LEMMA WitnessType ==
    ASSUME NEW fresh \in BOOLEAN, Witness(fresh)
    PROVE  eligible' \subseteq PodKeys /\ steady' \subseteq PodKeys
BY DEF Witness

-----------------------------------------------------------------------------
\* Every step of the reconcile keeps the types.
LEMMA ReconcileType == TypeOK /\ Reconcile => TypeOK'
<1> SUFFICES ASSUME TypeOK, Reconcile PROVE TypeOK'
    OBVIOUS
<1> USE DEF TypeOK
<1>1. CASE Start
    BY <1>1, WitnessType DEF Start, apiVars
<1>2. CASE ListMatching
    BY <1>2, WitnessType DEF ListMatching, Reads, apiVars
<1>3. CASE ListIndexed
    BY <1>3, WitnessType DEF ListIndexed, Reads, apiVars
<1>4. CASE Claimed
    BY <1>4, WitnessType DEF Claimed, Reads, apiVars
<1>5. CASE Finish
    BY <1>5, EndType, WitnessType DEF Finish, Reads, apiVars
<1>6. ASSUME NEW p \in PodKeys, GetFresh(p) PROVE TypeOK'
    <2>1. DOMAIN seen' \subseteq PodKeys /\ seen' \in [DOMAIN seen' -> Pod]
        BY <1>6 DEF GetFresh
    <2> QED
        BY <1>6, <2>1, WitnessType DEF GetFresh, Reads, apiVars
<1>7. ASSUME NEW p \in PodKeys, NEW owner \in Owners, PatchOwner(p, owner) PROVE TypeOK'
    <2>1. pods' \in [PodKeys -> Pod]
        BY <1>7 DEF PatchOwner, Pod
    <2> QED
        BY <1>7, <2>1, EndType, WitnessType DEF PatchOwner
<1>8. ASSUME NEW p \in PodKeys, Release(p) PROVE TypeOK'
    BY <1>8, <1>7 DEF Release, Owners
<1>9. ASSUME NEW p \in PodKeys, CanAdopt(p) PROVE TypeOK'
    <2>1. CASE pc' = "adopt" /\ UNCHANGED <<w, seen, todo>>
        BY <1>9, <2>1, WitnessType DEF CanAdopt, Reads, apiVars
    <2>2. CASE End
        BY <1>9, <2>2, EndType, WitnessType DEF CanAdopt, Reads, apiVars
    <2> QED
        BY <1>9, <2>1, <2>2 DEF CanAdopt
<1>10. ASSUME NEW p \in PodKeys, Adopt(p) PROVE TypeOK'
    <2>1. w.uid \in Owners
        BY DEF ReplicaSet, Owners
    <2> QED
        BY <1>10, <1>7, <2>1 DEF Adopt
<1> QED
    BY <1>1, <1>2, <1>3, <1>4, <1>5, <1>6, <1>8, <1>9, <1>10 DEF Reconcile

\* A write of a Pod by somebody else keeps the types.
LEMMA PodWriteType ==
    ASSUME TypeOK, NEW p \in PodKeys, NEW pod \in Pod, PodWrite(p, pod), changes' \in 0..MaxChanges
    PROVE  TypeOK'
<1>1. pods' \in [PodKeys -> Pod]
    BY DEF TypeOK, PodWrite, Pod
<1> QED
    BY <1>1, WitnessType DEF TypeOK, PodWrite, ctxVars

\* So does everybody else, and so do the informers.
LEMMA OthersType == TypeOK /\ (Others \/ Refresh) => TypeOK'
<1> SUFFICES ASSUME TypeOK, Others \/ Refresh PROVE TypeOK'
    OBVIOUS
<1>1. Change => changes' \in 0..MaxChanges
    BY ChangesAssumption DEF TypeOK, Change
<1>2. CASE Fail
    BY <1>1, <1>2, EndType, WitnessType DEF TypeOK, Fail
<1>3. ASSUME NEW new \in ReplicaSet, ReplicaSetWrite(new) PROVE TypeOK'
    BY <1>1, <1>3, WitnessType DEF TypeOK, ReplicaSetWrite, ctxVars
<1>4. CASE DeleteReplicaSet
    <2>1. [live EXCEPT !.state = "deleting"] \in ReplicaSet
        BY DEF TypeOK, ReplicaSet
    <2> QED
        BY <1>3, <1>4, <2>1 DEF DeleteReplicaSet
<1>5. CASE ReplicaSetGone
    <2>1. [live EXCEPT !.state = "gone"] \in ReplicaSet
        BY DEF TypeOK, ReplicaSet
    <2> QED
        BY <1>3, <1>5, <2>1 DEF ReplicaSetGone
<1>6. CASE CreateReplicaSet
    <2>1. [uid |-> live.uid + 1, state |-> "alive"] \in ReplicaSet
        BY <1>6, UidAssumption DEF TypeOK, ReplicaSet, Uids, CreateReplicaSet
    <2> QED
        BY <1>3, <1>6, <2>1 DEF CreateReplicaSet
<1>7. ASSUME NEW p \in PodKeys,
             Relabel(p) \/ OtherAdopts(p) \/ OtherReleases(p) \/ GarbageCollect(p)
      PROVE  TypeOK'
    <2>1. /\ [pods[p] EXCEPT !.matches = ~@] \in Pod
          /\ [pods[p] EXCEPT !.owner = Other] \in Pod
          /\ [pods[p] EXCEPT !.owner = NoOwner] \in Pod
          /\ [pods[p] EXCEPT !.there = FALSE] \in Pod
        BY DEF TypeOK, Pod, Owners
    <2>2. CASE Relabel(p)
        BY <1>1, <2>1, <2>2, PodWriteType DEF Relabel
    <2>3. CASE OtherAdopts(p)
        BY <1>1, <2>1, <2>3, PodWriteType DEF OtherAdopts
    <2>4. CASE OtherReleases(p)
        BY <1>1, <2>1, <2>4, PodWriteType DEF OtherReleases
    <2>5. CASE GarbageCollect(p)
        <3>1. changes' \in 0..MaxChanges
            BY <2>5 DEF GarbageCollect, TypeOK
        <3> QED
            BY <2>1, <2>5, <3>1, PodWriteType DEF GarbageCollect
    <2> QED
        BY <1>7, <2>2, <2>3, <2>4, <2>5
<1>8. CASE RefreshReplicaSet
    BY <1>8, WitnessType DEF TypeOK, RefreshReplicaSet, ctxVars
<1>9. ASSUME NEW p \in PodKeys, RefreshPod(p) PROVE TypeOK'
    <2>1. index' \in [PodKeys -> Owners]
        BY <1>9 DEF TypeOK, RefreshPod, Pod, Owners
    <2> QED
        BY <1>9, <2>1, WitnessType DEF TypeOK, RefreshPod, ctxVars
<1> QED
    BY <1>2, <1>4, <1>5, <1>6, <1>7, <1>8, <1>9 DEF Others, Refresh

-----------------------------------------------------------------------------
\* Versions of Pods only grow, and a Pod that was written has a new one.
LEMMA PodsAdvance ==
    ASSUME TypeOK, Next, NEW p \in PodKeys
    PROVE  pods'[p] = pods[p] \/ pods'[p].version = pods[p].version + 1
<1>0. pods \in [PodKeys -> Pod]
    BY DEF TypeOK
<1>1. ASSUME NEW q \in PodKeys, NEW owner, PatchOwner(q, owner)
      PROVE  pods'[p] = pods[p] \/ pods'[p].version = pods[p].version + 1
    BY <1>0, <1>1 DEF PatchOwner, Pod
<1>2. ASSUME NEW q \in PodKeys, NEW pod \in Pod, PodWrite(q, pod)
      PROVE  pods'[p] = pods[p] \/ pods'[p].version = pods[p].version + 1
    BY <1>0, <1>2 DEF PodWrite, Pod
<1>3. CASE Reconcile
    <2>1. ASSUME NEW q \in PodKeys, Release(q) \/ Adopt(q)
          PROVE  pods'[p] = pods[p] \/ pods'[p].version = pods[p].version + 1
        BY <1>1, <2>1 DEF Release, Adopt
    <2>2. ASSUME NEW q \in PodKeys, GetFresh(q) \/ CanAdopt(q)
          PROVE  pods' = pods
        BY <2>2 DEF GetFresh, CanAdopt, Reads, apiVars
    <2>3. ASSUME Start \/ ListMatching \/ ListIndexed \/ Claimed \/ Finish
          PROVE  pods' = pods
        BY <2>3 DEF Start, ListMatching, ListIndexed, Claimed, Finish, Reads, apiVars
    <2> QED
        BY <1>3, <2>1, <2>2, <2>3 DEF Reconcile
<1>4. CASE Others
    <2>1. ASSUME NEW q \in PodKeys
          PROVE  /\ [pods[q] EXCEPT !.matches = ~@] \in Pod
                 /\ [pods[q] EXCEPT !.owner = Other] \in Pod
                 /\ [pods[q] EXCEPT !.owner = NoOwner] \in Pod
                 /\ [pods[q] EXCEPT !.there = FALSE] \in Pod
        BY <1>0 DEF Pod, Owners
    <2>2. ASSUME NEW q \in PodKeys,
                 Relabel(q) \/ OtherAdopts(q) \/ OtherReleases(q) \/ GarbageCollect(q)
          PROVE  pods'[p] = pods[p] \/ pods'[p].version = pods[p].version + 1
        BY <1>2, <2>1, <2>2 DEF Relabel, OtherAdopts, OtherReleases, GarbageCollect
    <2>3. ASSUME Fail \/ DeleteReplicaSet \/ ReplicaSetGone \/ CreateReplicaSet
          PROVE  pods' = pods
        BY <2>3 DEF Fail, DeleteReplicaSet, ReplicaSetGone, CreateReplicaSet, ReplicaSetWrite
    <2> QED
        BY <1>4, <2>2, <2>3 DEF Others
<1>5. CASE Refresh
    BY <1>5 DEF Refresh, RefreshReplicaSet, RefreshPod
<1> QED
    BY <1>3, <1>4, <1>5 DEF Next

\* A step that leaves the reconcile where it is.
Bystander == UNCHANGED ctxVars /\ Witness(FALSE)

\* The others either leave the reconcile where it is or end it.
LEMMA OthersStandBy == Others \/ Refresh => Bystander \/ End
BY DEF Others, Refresh, Bystander, Fail, DeleteReplicaSet, ReplicaSetGone, CreateReplicaSet,
       ReplicaSetWrite, Relabel, OtherAdopts, OtherReleases, GarbageCollect, PodWrite,
       RefreshReplicaSet, RefreshPod

\* Nothing is left to show once a reconcile has ended.
LEMMA EndInv == End => SnapshotsFresh' /\ AdoptionVerified' /\ SteadySeen'
BY DEF End, NoPods, SnapshotsFresh, AdoptionVerified, SteadySeen

\* A candidate the step did not read again stays a true snapshot.
LEMMA SnapshotKept ==
    ASSUME Inv, Next, NEW p \in DOMAIN seen, seen'[p] = seen[p]
    PROVE  /\ seen'[p].version <= pods'[p].version
           /\ seen'[p].version = pods'[p].version => seen'[p] = pods'[p] /\ pods'[p] = pods[p]
           /\ seen'[p].there
<1>1. p \in PodKeys /\ seen[p] \in Pod /\ pods[p] \in Pod
    BY DEF Inv, TypeOK
<1>2. seen[p].version \in Nat /\ pods[p].version \in Nat
    BY <1>1 DEF Pod
<1>3. pods'[p] = pods[p] \/ pods'[p].version = pods[p].version + 1
    BY <1>1, PodsAdvance DEF Inv
<1> QED
    BY <1>2, <1>3 DEF Inv, SnapshotsFresh

\* A live read of a Pod is a true snapshot.
LEMMA SnapshotTaken ==
    ASSUME TypeOK, NEW p \in PodKeys, pods' = pods, seen'[p] = pods[p], pods[p].there
    PROVE  /\ seen'[p].version <= pods'[p].version
           /\ seen'[p] = pods'[p]
           /\ seen'[p].there
<1>1. pods[p].version \in Nat
    BY DEF TypeOK, Pod
<1> QED
    BY <1>1

\* A step that leaves the reconcile where it is keeps what it knows.
LEMMA BystanderInv ==
    ASSUME Inv, Next, Bystander
    PROVE  SnapshotsFresh' /\ AdoptionVerified' /\ SteadySeen'
<1>0. pc' = pc /\ w' = w /\ seen' = seen /\ todo' = todo
    BY DEF Bystander, ctxVars
<1>1. SnapshotsFresh'
    BY <1>0, SnapshotKept DEF SnapshotsFresh
<1>2. AdoptionVerified'
    <2> SUFFICES ASSUME pc' = "adopt", NEW p \in PodKeys, IsFirst(p)'
                 PROVE  /\ ToAdopt(p)'
                        /\ seen'[p].version = pods'[p].version => p \in eligible'
        BY DEF AdoptionVerified
    <2>1. IsFirst(p) /\ ToAdopt(p)' = ToAdopt(p) /\ p \in DOMAIN seen
        BY <1>0 DEF IsFirst, ToAdopt, ToRelease
    <2>2. ToAdopt(p) /\ (seen[p].version = pods[p].version => p \in eligible)
        BY <1>0, <2>1 DEF Inv, AdoptionVerified
    <2>3. ASSUME seen'[p].version = pods'[p].version PROVE p \in eligible'
        <3>1. pods'[p] = pods[p] /\ seen[p] = pods'[p] /\ pods'[p].there
            BY <1>0, <2>1, <2>3, SnapshotKept
        <3>2. IsOrphan(pods'[p])
            BY <2>2, <3>1 DEF ToAdopt, IsOrphan
        <3>3. p \in eligible
            BY <2>2, <3>1
        <3> QED
            BY <1>0, <3>1, <3>2, <3>3 DEF Bystander, Witness
    <2> QED
        BY <2>1, <2>2, <2>3
<1>3. SteadySeen'
    <2>1. steady' \subseteq steady
        BY DEF Bystander, Witness
    <2> QED
        BY <1>0, <2>1 DEF Inv, SteadySeen, ToClaim
<1> QED
    BY <1>1, <1>2, <1>3

-----------------------------------------------------------------------------
\* Every step of the reconcile keeps what it knows.
LEMMA ReconcileInv ==
    ASSUME Inv, Next, Reconcile
    PROVE  SnapshotsFresh' /\ AdoptionVerified' /\ SteadySeen'
<1>0. TypeOK
    BY DEF Inv
<1>1. CASE Start
    <2>1. pc = "idle" /\ pc' = "list" /\ seen' = seen
        BY <1>1 DEF Start
    <2>2. SnapshotsFresh'
        BY <2>1, SnapshotKept DEF SnapshotsFresh
    <2> QED
        BY <2>1, <2>2 DEF AdoptionVerified, SteadySeen
<1>2. CASE ListMatching
    <2>1. /\ pc' = "index" /\ pods' = pods /\ w' = w
          /\ DOMAIN seen' = {q \in PodKeys : pods[q].there /\ pods[q].matches}
          /\ \A p \in DOMAIN seen' : seen'[p] = pods[p]
        BY <1>2 DEF ListMatching, Reads, apiVars
    <2>2. SnapshotsFresh'
        BY <1>0, <2>1, SnapshotTaken DEF SnapshotsFresh
    <2>3. \A p \in steady' : IsOwn(pods[p], w.uid) /\ p \in PodKeys
        BY <1>2, <2>1 DEF ListMatching, Reads, Witness
    <2>4. SteadySeen'
        BY <2>1, <2>3 DEF SteadySeen, IsOwn, ToClaim
    <2> QED
        BY <2>1, <2>2, <2>4 DEF AdoptionVerified
<1>3. ASSUME pc \in {"index", "get"}, pc' \in {"get", "claimed"}, seen' = seen, w' = w, Reads
      PROVE  SnapshotsFresh' /\ AdoptionVerified' /\ SteadySeen'
    <2>1. SnapshotsFresh'
        BY <1>3, SnapshotKept DEF SnapshotsFresh
    <2>2. steady' \subseteq steady
        BY <1>3 DEF Reads, Witness
    <2>3. SteadySeen'
        BY <1>3, <2>2 DEF Inv, SteadySeen, ToClaim
    <2> QED
        BY <1>3, <2>1, <2>3 DEF AdoptionVerified
<1>4. CASE ListIndexed
    BY <1>3, <1>4 DEF ListIndexed
<1>5. CASE Claimed
    BY <1>3, <1>5 DEF Claimed
<1>6. CASE Finish
    BY <1>6, EndInv DEF Finish
<1>7. ASSUME NEW p \in PodKeys, GetFresh(p)
      PROVE  SnapshotsFresh' /\ AdoptionVerified' /\ SteadySeen'
    <2>1. pc = "get" /\ pc' = "get" /\ pods' = pods /\ w' = w
        BY <1>7 DEF GetFresh, Reads, apiVars
    <2>2. \A q \in DOMAIN seen' : \/ q \in DOMAIN seen /\ seen'[q] = seen[q]
                                  \/ q = p /\ seen'[q] = pods[q] /\ pods[q].there
        BY <1>7 DEF GetFresh
    <2>3. DOMAIN seen \subseteq DOMAIN seen'
        BY <1>7 DEF GetFresh
    <2>4. SnapshotsFresh'
        BY <1>0, <2>1, <2>2, SnapshotKept, SnapshotTaken DEF SnapshotsFresh
    <2>5. \A q \in steady' : q \in steady /\ IsOwn(pods[q], w.uid)
        BY <1>7, <2>1 DEF GetFresh, Reads, Witness
    <2>6. \A q \in steady : q \in DOMAIN seen /\ ToClaim(q)
        BY <2>1 DEF Inv, SteadySeen
    <2>7. ASSUME NEW q \in steady' PROVE q \in DOMAIN seen' /\ ToClaim(q)'
        <3>1. q \in DOMAIN seen' /\ ToClaim(q) /\ IsOwn(pods[q], w.uid)
            BY <2>3, <2>5, <2>6
        <3> QED
            BY <2>1, <2>2, <3>1 DEF ToClaim, IsOwn
    <2> QED
        BY <2>1, <2>4, <2>7 DEF AdoptionVerified, SteadySeen
<1>8. ASSUME NEW p \in PodKeys, Release(p) \/ Adopt(p)
      PROVE  SnapshotsFresh' /\ AdoptionVerified' /\ SteadySeen'
    BY <1>8, EndInv DEF Release, Adopt, PatchOwner
<1>9. ASSUME NEW p \in PodKeys, CanAdopt(p)
      PROVE  SnapshotsFresh' /\ AdoptionVerified' /\ SteadySeen'
    <2>1. CASE End
        BY <2>1, EndInv
    <2>2. CASE /\ live = [uid |-> w.uid, state |-> "alive"]
               /\ pc' = "adopt" /\ UNCHANGED <<w, seen, todo>>
        <3>1. pc = "get" /\ pods' = pods /\ live' = live /\ Witness(FALSE)
            BY <1>9 DEF CanAdopt, Reads, apiVars
        <3>2. SnapshotsFresh'
            BY <2>2, SnapshotKept DEF SnapshotsFresh
        <3>3. SteadySeen'
            <4>1. steady' \subseteq steady
                BY <3>1 DEF Witness
            <4> QED
                BY <2>2, <3>1, <4>1 DEF Inv, SteadySeen, ToClaim
        <3>4. ASSUME NEW q \in PodKeys, IsFirst(q)'
              PROVE  ToAdopt(q)' /\ (seen'[q].version = pods'[q].version => q \in eligible')
            <4>1. IsFirst(q) /\ IsFirst(p) /\ ToAdopt(p)
                BY <1>9, <2>2, <3>4 DEF CanAdopt, IsFirst, ToAdopt, ToRelease
            <4>2. q = p
                <5>1. ~(q < p) /\ ~(p < q)
                    BY <4>1 DEF IsFirst
                <5> QED
                    BY <5>1, NumPodsAssumption DEF PodKeys
            <4>3. ToAdopt(q)'
                BY <2>2, <4>1, <4>2 DEF ToAdopt
            <4>4. ASSUME seen'[q].version = pods'[q].version PROVE q \in eligible'
                <5>1. q \in DOMAIN seen
                    BY <4>1 DEF IsFirst
                <5>2. seen[q] = pods'[q] /\ pods'[q].there
                    BY <2>2, <4>4, <5>1, SnapshotKept
                <5>3. IsOrphan(pods'[q])
                    BY <4>1, <4>2, <5>2 DEF ToAdopt, IsOrphan
                <5> QED
                    BY <2>2, <3>1, <5>3 DEF Witness
            <4> QED
                BY <4>3, <4>4
        <3> QED
            BY <3>2, <3>3, <3>4 DEF AdoptionVerified
    <2> QED
        BY <1>9, <2>1, <2>2 DEF CanAdopt
<1> QED
    BY <1>1, <1>2, <1>4, <1>5, <1>6, <1>7, <1>8, <1>9 DEF Reconcile

\* The invariant is inductive.
LEMMA NextInv == Inv /\ [Next]_vars => Inv'
<1> SUFFICES ASSUME Inv, [Next]_vars PROVE Inv'
    OBVIOUS
<1>1. CASE UNCHANGED vars
    BY <1>1 DEF vars, apiVars, ctxVars, Inv, TypeOK, SnapshotsFresh, AdoptionVerified,
                SteadySeen, IsFirst, ToAdopt, ToRelease, ToClaim
<1>2. CASE Next
    <2>1. TypeOK'
        BY <1>2, ReconcileType, OthersType DEF Next, Inv
    <2>2. CASE Reconcile
        BY <1>2, <2>1, <2>2, ReconcileInv DEF Inv
    <2>3. CASE Others \/ Refresh
        BY <1>2, <2>1, <2>3, OthersStandBy, EndInv, BystanderInv DEF Inv
    <2> QED
        BY <1>2, <2>2, <2>3 DEF Next
<1> QED
    BY <1>1, <1>2

\* The invariant holds in every reachable state.
THEOREM Invariance == Spec => []Inv
BY InitInv, NextInv, PTL DEF Spec

-----------------------------------------------------------------------------
\* claimPods gives a Pod a controller only if the Pod has none and its ReplicaSet
\* was alive, under the same UID, while that was so: the lock of the patch
\* carries what canAdopt checked over to the moment of the write.
THEOREM AdoptionIsSafe == Spec => AdoptsOrphans
<1>1. ASSUME Inv, [Next]_vars, NEW p \in PodKeys,
             pods'[p].owner \in Uids, pods'[p].owner # pods[p].owner
      PROVE  IsOrphan(pods[p]) /\ p \in eligible
    <2>0. pods \in [PodKeys -> Pod] /\ NoOwner \notin Uids /\ Other \notin Uids
        BY <1>1, OwnersAssumption DEF Inv, TypeOK, Uids
    <2>1. pods' # pods
        BY <1>1
    <2>2. ASSUME NEW q \in PodKeys, NEW pod, PodWrite(q, pod),
                 pod.owner \in {pods[q].owner, NoOwner, Other}
          PROVE  FALSE
        BY <1>1, <2>0, <2>2 DEF PodWrite, Pod
    <2>3. CASE Others
        <3>1. ~(Fail \/ DeleteReplicaSet \/ ReplicaSetGone \/ CreateReplicaSet)
            BY <2>1 DEF Fail, DeleteReplicaSet, ReplicaSetGone, CreateReplicaSet, ReplicaSetWrite
        <3>2. PICK q \in PodKeys :
                 Relabel(q) \/ OtherAdopts(q) \/ OtherReleases(q) \/ GarbageCollect(q)
            BY <2>3, <3>1 DEF Others
        <3>3. /\ [pods[q] EXCEPT !.matches = ~@].owner = pods[q].owner
              /\ [pods[q] EXCEPT !.owner = Other].owner = Other
              /\ [pods[q] EXCEPT !.owner = NoOwner].owner = NoOwner
              /\ [pods[q] EXCEPT !.there = FALSE].owner = pods[q].owner
            BY <2>0 DEF Pod
        <3> QED
            BY <2>2, <3>2, <3>3 DEF Relabel, OtherAdopts, OtherReleases, GarbageCollect
    <2>4. CASE Refresh
        BY <2>1, <2>4 DEF Refresh, RefreshReplicaSet, RefreshPod
    <2>5. CASE Reconcile
        <3>1. PICK q \in PodKeys : Release(q) \/ Adopt(q)
            BY <2>1, <2>5 DEF Reconcile, Start, ListMatching, ListIndexed, GetFresh, CanAdopt,
                              Claimed, Finish, Reads, apiVars
        <3>2. ~Release(q)
            BY <1>1, <2>0 DEF Release, PatchOwner, Pod
        <3>3. q = p /\ pods[p].version = seen[p].version
            BY <1>1, <2>0, <3>1, <3>2 DEF Adopt, PatchOwner, Pod
        <3>4. /\ p \in DOMAIN seen /\ ToAdopt(p)
              /\ seen[p].version = pods[p].version => p \in eligible
            BY <1>1, <3>1, <3>2, <3>3 DEF Adopt, IsFirst, Inv, AdoptionVerified
        <3>5. seen[p] = pods[p] /\ seen[p].there
            BY <1>1, <3>3, <3>4 DEF Inv, SnapshotsFresh
        <3> QED
            BY <3>3, <3>4, <3>5 DEF ToAdopt, IsOrphan
    <2> QED
        BY <1>1, <2>1, <2>3, <2>4, <2>5 DEF Next, vars, apiVars
<1>2. Inv /\ [Next]_vars =>
        [\A p \in PodKeys : pods'[p].owner \in Uids /\ pods'[p].owner # pods[p].owner
            => IsOrphan(pods[p]) /\ p \in eligible]_vars
    BY <1>1
<1> QED
    BY <1>2, Invariance, PTL DEF Spec, AdoptsOrphans

\* A ReplicaSet that lives loses a Pod only by releasing it, and only when the
\* selector does not match the Pod at the moment of the write.
THEOREM MembersAreKept == Spec => KeepsMembers
<1>1. ASSUME Inv, [Next]_vars, NEW p \in PodKeys,
             live = [uid |-> pods[p].owner, state |-> "alive"], pods'[p].owner # pods[p].owner
      PROVE  ~pods[p].matches /\ pods'[p].owner = NoOwner
    <2>0. /\ pods \in [PodKeys -> Pod] /\ pods[p].owner \in Uids
          /\ pods[p].owner # NoOwner /\ pods[p].owner # Other
        <3>1. pods \in [PodKeys -> Pod] /\ live.uid \in Uids
            BY <1>1 DEF Inv, TypeOK, ReplicaSet
        <3>2. pods[p].owner \in Uids
            BY <1>1, <3>1
        <3> QED
            BY <3>1, <3>2, OwnersAssumption DEF Uids
    <2>1. pods' # pods
        BY <1>1
    <2>2. ASSUME NEW q \in PodKeys, NEW pod, PodWrite(q, pod)
          PROVE  q = p /\ pod.owner # pods[q].owner
        BY <1>1, <2>0, <2>2 DEF PodWrite, Pod
    <2>3. CASE Others
        <3>1. ~(Fail \/ DeleteReplicaSet \/ ReplicaSetGone \/ CreateReplicaSet)
            BY <2>1 DEF Fail, DeleteReplicaSet, ReplicaSetGone, CreateReplicaSet, ReplicaSetWrite
        <3>2. PICK q \in PodKeys :
                 Relabel(q) \/ OtherAdopts(q) \/ OtherReleases(q) \/ GarbageCollect(q)
            BY <2>3, <3>1 DEF Others
        <3>3. [pods[q] EXCEPT !.matches = ~@].owner = pods[q].owner
            BY <2>0 DEF Pod
        <3>4. ~Relabel(q)
            BY <2>2, <3>3 DEF Relabel
        <3>5. q = p
            BY <2>2, <3>2 DEF Relabel, OtherAdopts, OtherReleases, GarbageCollect
        <3> QED
            BY <1>1, <2>0, <3>2, <3>4, <3>5 DEF OtherAdopts, OtherReleases, GarbageCollect
    <2>4. CASE Refresh
        BY <2>1, <2>4 DEF Refresh, RefreshReplicaSet, RefreshPod
    <2>5. CASE Reconcile
        <3>1. PICK q \in PodKeys : Release(q) \/ Adopt(q)
            BY <2>1, <2>5 DEF Reconcile, Start, ListMatching, ListIndexed, GetFresh, CanAdopt,
                              Claimed, Finish, Reads, apiVars
        <3>2. q = p /\ pods[p].version = seen[p].version
            BY <1>1, <2>0, <3>1 DEF Release, Adopt, PatchOwner, Pod
        <3>3. p \in DOMAIN seen
            BY <3>1, <3>2 DEF Release, Adopt, IsFirst
        <3>4. seen[p] = pods[p]
            BY <1>1, <3>2, <3>3 DEF Inv, SnapshotsFresh
        <3>5. ~Adopt(q)
            BY <1>1, <2>0, <3>2, <3>4 DEF Adopt, Inv, AdoptionVerified, ToAdopt
        <3>6. Release(p)
            BY <3>1, <3>2, <3>5
        <3>7. ~pods[p].matches
            BY <3>4, <3>6 DEF Release, ToRelease
        <3>8. pods'[p].owner = NoOwner
            BY <1>1, <2>0, <3>6 DEF Release, PatchOwner, Pod
        <3> QED
            BY <3>7, <3>8
    <2> QED
        BY <1>1, <2>1, <2>3, <2>4, <2>5 DEF Next, vars, apiVars
<1>2. Inv /\ [Next]_vars =>
        [\A p \in PodKeys :
            /\ live = [uid |-> pods[p].owner, state |-> "alive"]
            /\ pods'[p].owner # pods[p].owner
            => ~pods[p].matches /\ pods'[p].owner = NoOwner]_vars
    BY <1>1
<1> QED
    BY <1>2, Invariance, PTL DEF Spec, KeepsMembers

\* However old the informer's index is, a claim that ends without a patch has
\* found every Pod that was the ReplicaSet's own all through it.
THEOREM ClaimIsComplete == Spec => []NoneOverlooked
<1>1. Inv => NoneOverlooked
    BY DEF Inv, SteadySeen, NoneOverlooked, ClaimedPods
<1> QED
    BY <1>1, Invariance, PTL

-----------------------------------------------------------------------------
(***************************************************************************)
(* The reconcile implements PodOwnership.                                  *)
(***************************************************************************)
\* No copy and no owner reference is of a ReplicaSet that is yet to be created.
UidsPast ==
    /\ cached.uid <= live.uid /\ w.uid <= live.uid
    /\ \A p \in PodKeys : pods[p].owner \in Uids => pods[p].owner <= live.uid

LEMMA InitUids == Init => UidsPast
<1> SUFFICES ASSUME Init PROVE UidsPast
    OBVIOUS
<1>1. live.uid = 1 /\ cached.uid = 1 /\ w.uid = 1
    BY DEF Init, Unread
<1>2. \A p \in PodKeys : pods[p].owner \in {1, NoOwner}
    BY DEF Init
<1> QED
    BY <1>1, <1>2, OwnersAssumption DEF UidsPast, Uids

\* What a Pod shows to PodOwnership.
Member(pod) == [there |-> pod.there, owner |-> pod.owner, matches |-> pod.matches]

\* One Pod is written: one member changes.
LEMMA OneMember ==
    ASSUME TypeOK, NEW p \in PodKeys, NEW x, pods' = [pods EXCEPT ![p] = x]
    PROVE  Members' = [Members EXCEPT ![p] = Member(x)]
BY DEF TypeOK, Members, Member

\* How the writes look to PodOwnership.
LEMMA MemberWrites ==
    ASSUME TypeOK, NEW p \in PodKeys, NEW x
    PROVE  /\ Members[p] = Member(pods[p])
           /\ Members[p].there = pods[p].there /\ Members[p].owner = pods[p].owner
           /\ Members[p].matches = pods[p].matches
           /\ [Members EXCEPT ![p].owner = x]
                = [Members EXCEPT ![p] = [there |-> pods[p].there, owner |-> x,
                                          matches |-> pods[p].matches]]
           /\ [Members EXCEPT ![p].matches = x]
                = [Members EXCEPT ![p] = [there |-> pods[p].there, owner |-> pods[p].owner,
                                          matches |-> x]]
           /\ [Members EXCEPT ![p].there = x]
                = [Members EXCEPT ![p] = [there |-> x, owner |-> pods[p].owner,
                                          matches |-> pods[p].matches]]
<1> DEFINE m == Member(pods[p])
<1>1. Members[p] = m
    BY DEF Members, Member
<1>2. m.there = pods[p].there /\ m.owner = pods[p].owner /\ m.matches = pods[p].matches
    BY DEF Member
<1>3. /\ [m EXCEPT !.owner = x]
           = [there |-> pods[p].there, owner |-> x, matches |-> pods[p].matches]
      /\ [m EXCEPT !.matches = x]
           = [there |-> pods[p].there, owner |-> pods[p].owner, matches |-> x]
      /\ [m EXCEPT !.there = x]
           = [there |-> x, owner |-> pods[p].owner, matches |-> pods[p].matches]
    BY DEF Member
<1>4. /\ [Members EXCEPT ![p].owner = x] = [Members EXCEPT ![p] = [Members[p] EXCEPT !.owner = x]]
      /\ [Members EXCEPT ![p].matches = x]
           = [Members EXCEPT ![p] = [Members[p] EXCEPT !.matches = x]]
      /\ [Members EXCEPT ![p].there = x] = [Members EXCEPT ![p] = [Members[p] EXCEPT !.there = x]]
    BY Zenon
<1> HIDE DEF m
<1> QED
    BY <1>1, <1>2, <1>3, <1>4, Zenon DEF m

\* The patch of the owner references, if it succeeds.
LEMMA OwnerPatched ==
    ASSUME TypeOK, NEW p \in PodKeys, NEW owner, PatchOwner(p, owner), pods' # pods
    PROVE  /\ pods[p].there /\ pods[p].version = seen[p].version
           /\ Members' = [Members EXCEPT ![p].owner = owner]
           /\ pods'[p].owner = owner /\ \A q \in PodKeys \ {p} : pods'[q] = pods[q]
<1>0. pods \in [PodKeys -> Pod]
    BY DEF TypeOK
<1>1. /\ pods[p].there /\ pods[p].version = seen[p].version
      /\ pods' = [pods EXCEPT ![p].owner = owner, ![p].version = @ + 1]
    BY DEF PatchOwner
<1> DEFINE y == [pods[p] EXCEPT !.owner = owner]
           x == [y EXCEPT !.version = @ + 1]
<1>2. pods' = [[pods EXCEPT ![p] = y] EXCEPT ![p].version = @ + 1]
    BY <1>0, <1>1
<1>3. pods' = [pods EXCEPT ![p] = x]
    BY <1>0, <1>2
<1>4. /\ y.there = pods[p].there /\ y.owner = owner /\ y.matches = pods[p].matches
      /\ DOMAIN y = DOMAIN pods[p]
    BY <1>0 DEF Pod
<1> HIDE DEF y
<1>5. x.there = pods[p].there /\ x.owner = owner /\ x.matches = pods[p].matches
    BY <1>0, <1>4 DEF Pod
<1> HIDE DEF x
<1>6. Members' = [Members EXCEPT ![p] = Member(x)]
    BY <1>3, OneMember
<1>7. Members' = [Members EXCEPT ![p].owner = owner]
    <2>1. [Members EXCEPT ![p].owner = owner]
            = [Members EXCEPT ![p] = [there |-> pods[p].there, owner |-> owner,
                                      matches |-> pods[p].matches]]
        BY MemberWrites
    <2> QED
        BY <1>5, <1>6, <2>1 DEF Member
<1> QED
    BY <1>0, <1>1, <1>3, <1>5, <1>7

\* A write of a Pod by somebody else.
LEMMA PodWritten ==
    ASSUME TypeOK, NEW p \in PodKeys, NEW pod \in Pod, PodWrite(p, pod)
    PROVE  /\ Members' = [Members EXCEPT ![p] = Member(pod)]
           /\ pods'[p].owner = pod.owner /\ \A q \in PodKeys \ {p} : pods'[q] = pods[q]
           /\ live' = live /\ cached' = cached /\ w' = w /\ pods[p].there
<1> DEFINE x == [pod EXCEPT !.version = pods[p].version + 1]
<1>1. pods \in [PodKeys -> Pod] /\ pods' = [pods EXCEPT ![p] = x]
    BY DEF TypeOK, PodWrite
<1>2. x.there = pod.there /\ x.owner = pod.owner /\ x.matches = pod.matches
    BY DEF Pod
<1> HIDE DEF x
<1>3. Members' = [Members EXCEPT ![p] = Member(pod)]
    BY <1>1, <1>2, OneMember, Zenon DEF Member
<1>4. live' = live /\ cached' = cached /\ w' = w /\ pods[p].there
    BY DEF PodWrite, ctxVars
<1> QED
    BY <1>1, <1>2, <1>3, <1>4

\* What the others write into a Pod.
LEMMA Written ==
    ASSUME TypeOK, NEW p \in PodKeys
    PROVE  /\ [pods[p] EXCEPT !.matches = ~@] \in Pod
           /\ [pods[p] EXCEPT !.owner = Other] \in Pod
           /\ [pods[p] EXCEPT !.owner = NoOwner] \in Pod
           /\ [pods[p] EXCEPT !.there = FALSE] \in Pod
           /\ Member([pods[p] EXCEPT !.matches = ~@])
                = [there |-> pods[p].there, owner |-> pods[p].owner, matches |-> ~pods[p].matches]
           /\ Member([pods[p] EXCEPT !.owner = Other])
                = [there |-> pods[p].there, owner |-> Other, matches |-> pods[p].matches]
           /\ Member([pods[p] EXCEPT !.owner = NoOwner])
                = [there |-> pods[p].there, owner |-> NoOwner, matches |-> pods[p].matches]
           /\ Member([pods[p] EXCEPT !.there = FALSE])
                = [there |-> FALSE, owner |-> pods[p].owner, matches |-> pods[p].matches]
BY DEF TypeOK, Pod, Owners, Member

\* The UIDs by which PodOwnership tells who may hold a Pod.
LEMMA UidFacts ==
    ASSUME TypeOK, UidsPast
    PROVE  /\ live.uid \in Uids /\ cached.uid \in Uids /\ w.uid \in Uids
           /\ w.uid \in 1..live.uid
           /\ \A p \in PodKeys : pods[p].owner \in Uids => pods[p].owner \in 1..live.uid
           /\ NoOwner \notin Uids /\ Other \notin Uids /\ NoOwner # Other
           /\ Uids \subseteq Nat /\ MaxUid \in Nat
BY UidAssumption, OwnersAssumption DEF TypeOK, UidsPast, ReplicaSet, Uids

\* A step of the reconcile that writes a Pod adopts an orphan or releases a
\* stranger, as the Pod is at that moment.
LEMMA ReconcileStep ==
    ASSUME Inv, UidsPast, Reconcile
    PROVE  Ownership!Next \/ UNCHANGED Ownership!vars
<1>0. TypeOK /\ live' = live
    BY DEF Inv, Reconcile, Start, ListMatching, ListIndexed, GetFresh, Release, CanAdopt, Adopt,
           PatchOwner, Claimed, Finish, Reads, apiVars
<1>1. CASE pods' = pods
    BY <1>0, <1>1 DEF Ownership!vars, Members
<1>2. CASE pods' # pods
    <2>1. PICK p \in PodKeys : Release(p) \/ Adopt(p)
        BY <1>2 DEF Reconcile, Start, ListMatching, ListIndexed, GetFresh, CanAdopt,
                    Claimed, Finish, Reads, apiVars
    <2>2. p \in DOMAIN seen /\ pods[p].there /\ pods[p].version = seen[p].version
        BY <1>0, <1>2, <2>1, OwnerPatched DEF Release, Adopt, IsFirst
    <2>3. seen[p] = pods[p]
        BY <2>2 DEF Inv, SnapshotsFresh
    <2>4. CASE Release(p)
        <3>1. Members' = [Members EXCEPT ![p].owner = NoOwner]
            BY <1>0, <1>2, <2>4, OwnerPatched DEF Release
        <3>2. pods[p].owner = w.uid /\ ~pods[p].matches
            BY <2>3, <2>4 DEF Release, ToRelease
        <3>3. Ownership!Release(p)
            BY <1>0, <2>2, <3>1, <3>2, MemberWrites, UidFacts DEF Ownership!Release
        <3> QED
            BY <3>3 DEF Ownership!Next
    <2>5. CASE Adopt(p)
        <3>1. Members' = [Members EXCEPT ![p].owner = w.uid]
            BY <1>0, <1>2, <2>5, OwnerPatched DEF Adopt
        <3>2. pods[p].owner = NoOwner /\ pods[p].matches
            BY <2>3, <2>5 DEF Adopt, Inv, AdoptionVerified, ToAdopt
        <3>3. Ownership!Adopt(p)
            BY <1>0, <2>2, <3>1, <3>2, MemberWrites, UidFacts DEF Ownership!Adopt
        <3> QED
            BY <3>3 DEF Ownership!Next
    <2> QED
        BY <2>1, <2>4, <2>5
<1> QED
    BY <1>1, <1>2

\* The others' steps are PodOwnership's own.
LEMMA OthersStep ==
    ASSUME Inv, UidsPast, Others \/ Refresh
    PROVE  Ownership!Next \/ UNCHANGED Ownership!vars
<1>0. TypeOK
    BY DEF Inv
<1>1. CASE Fail \/ Refresh
    BY <1>1 DEF Fail, Refresh, RefreshReplicaSet, RefreshPod, Ownership!vars, Members
<1>2. CASE DeleteReplicaSet \/ ReplicaSetGone \/ CreateReplicaSet
    <2>1. Members' = Members
        BY <1>2 DEF DeleteReplicaSet, ReplicaSetGone, CreateReplicaSet, ReplicaSetWrite, Members
    <2>2. Ownership!Lifecycle
        BY <1>2, <2>1 DEF DeleteReplicaSet, ReplicaSetGone, CreateReplicaSet, ReplicaSetWrite,
                          Ownership!Lifecycle
    <2> QED
        BY <2>2 DEF Ownership!Next
<1>3. ASSUME NEW p \in PodKeys, Relabel(p) PROVE Ownership!Relabel(p)
    <2>1. /\ Members' = [Members EXCEPT ![p] = Member([pods[p] EXCEPT !.matches = ~@])]
          /\ live' = live /\ pods[p].there
        BY <1>0, <1>3, Written, PodWritten DEF Relabel
    <2>2. Members' = [Members EXCEPT ![p].matches = ~pods[p].matches]
        <3>1. [Members EXCEPT ![p].matches = ~pods[p].matches]
                = [Members EXCEPT ![p] = [there |-> pods[p].there, owner |-> pods[p].owner,
                                          matches |-> ~pods[p].matches]]
            BY <1>0, MemberWrites
        <3> QED
            BY <1>0, <2>1, <3>1, Written, Zenon
    <2>3. Members' = [Members EXCEPT ![p].matches = ~@]
        BY <1>0, <2>2, MemberWrites
    <2> QED
        BY <1>0, <2>1, <2>3, MemberWrites DEF Ownership!Relabel
<1>4. ASSUME NEW p \in PodKeys, OtherAdopts(p) \/ OtherReleases(p) PROVE Ownership!OtherMoves(p)
    <2>1. CASE OtherAdopts(p)
        <3>1. /\ Members' = [Members EXCEPT ![p] = Member([pods[p] EXCEPT !.owner = Other])]
              /\ live' = live /\ pods[p].there /\ pods[p].owner = NoOwner
            BY <1>0, <2>1, Written, PodWritten DEF OtherAdopts
        <3>2. Members' = [Members EXCEPT ![p].owner = Other]
            <4>1. [Members EXCEPT ![p].owner = Other]
                    = [Members EXCEPT ![p] = [there |-> pods[p].there, owner |-> Other,
                                              matches |-> pods[p].matches]]
                BY <1>0, MemberWrites
            <4> QED
                BY <1>0, <3>1, <4>1, Written, Zenon
        <3>3. <<NoOwner, Other>>[1] = NoOwner /\ <<NoOwner, Other>>[2] = Other
            OBVIOUS
        <3> QED
            BY <1>0, <3>1, <3>2, <3>3, MemberWrites DEF Ownership!OtherMoves
    <2>2. CASE OtherReleases(p)
        <3>1. /\ Members' = [Members EXCEPT ![p] = Member([pods[p] EXCEPT !.owner = NoOwner])]
              /\ live' = live /\ pods[p].there /\ pods[p].owner = Other
            BY <1>0, <2>2, Written, PodWritten DEF OtherReleases
        <3>2. Members' = [Members EXCEPT ![p].owner = NoOwner]
            <4>1. [Members EXCEPT ![p].owner = NoOwner]
                    = [Members EXCEPT ![p] = [there |-> pods[p].there, owner |-> NoOwner,
                                              matches |-> pods[p].matches]]
                BY <1>0, MemberWrites
            <4> QED
                BY <1>0, <3>1, <4>1, Written, Zenon
        <3>3. <<Other, NoOwner>>[1] = Other /\ <<Other, NoOwner>>[2] = NoOwner
            OBVIOUS
        <3> QED
            BY <1>0, <3>1, <3>2, <3>3, MemberWrites DEF Ownership!OtherMoves
    <2> QED
        BY <1>4, <2>1, <2>2
<1>5. ASSUME NEW p \in PodKeys, GarbageCollect(p) PROVE Ownership!Collect(p)
    <2>1. /\ \/ Members' = [Members EXCEPT ![p] = Member([pods[p] EXCEPT !.there = FALSE])]
             \/ Members' = [Members EXCEPT ![p] = Member([pods[p] EXCEPT !.owner = NoOwner])]
          /\ live' = live /\ pods[p].there /\ pods[p].owner \in Uids
          /\ ~(pods[p].owner = live.uid /\ live.state = "alive")
        BY <1>0, <1>5, Written, PodWritten DEF GarbageCollect
    <2>2. \/ Members' = [Members EXCEPT ![p].there = FALSE]
          \/ Members' = [Members EXCEPT ![p].owner = NoOwner]
        <3>1. /\ [Members EXCEPT ![p].there = FALSE]
                   = [Members EXCEPT ![p] = [there |-> FALSE, owner |-> pods[p].owner,
                                             matches |-> pods[p].matches]]
              /\ [Members EXCEPT ![p].owner = NoOwner]
                   = [Members EXCEPT ![p] = [there |-> pods[p].there, owner |-> NoOwner,
                                             matches |-> pods[p].matches]]
            BY <1>0, MemberWrites
        <3> QED
            BY <1>0, <2>1, <3>1, Written, Zenon
    <2>3. pods[p].owner \in 1..live.uid
        BY <1>0, <2>1, UidFacts
    <2> QED
        BY <1>0, <2>1, <2>2, <2>3, MemberWrites DEF Ownership!Collect
<1> QED
    BY <1>1, <1>2, <1>3, <1>4, <1>5 DEF Others, Ownership!Next

\* An owner reference never points ahead of the ReplicaSet in the API server.
LEMMA NextUids == Inv /\ UidsPast /\ [Next]_vars => UidsPast'
<1> SUFFICES ASSUME Inv, UidsPast, [Next]_vars PROVE UidsPast'
    OBVIOUS
<1>0. TypeOK /\ pods \in [PodKeys -> Pod]
    BY DEF Inv, TypeOK
<1>1. ASSUME live.uid <= live'.uid, live'.uid \in Nat, cached' \in {cached, live},
             w'.uid \in {1, w.uid, cached.uid},
             NEW p \in PodKeys, NEW owner \in {NoOwner, Other, pods[p].owner, w.uid},
             pods'[p].owner = owner, \A q \in PodKeys \ {p} : pods'[q] = pods[q]
      PROVE  UidsPast'
    <2>1. \A q \in PodKeys : pods'[q].owner \in Uids => pods'[q].owner <= live.uid
        BY <1>0, <1>1, UidFacts DEF UidsPast
    <2>2. cached'.uid <= live.uid /\ w'.uid <= live.uid /\ cached'.uid \in Nat /\ w'.uid \in Nat
        BY <1>0, <1>1, UidFacts DEF UidsPast
    <2>3. \A q \in PodKeys : pods'[q].owner \in Uids => pods'[q].owner <= live'.uid
        BY <1>0, <1>1, <2>1, UidFacts
    <2> QED
        BY <1>0, <1>1, <2>2, <2>3, UidFacts DEF UidsPast, Uids
<1>2. ASSUME live.uid <= live'.uid, live'.uid \in Nat, cached' \in {cached, live},
             w'.uid \in {1, w.uid, cached.uid}, pods' = pods
      PROVE  UidsPast'
    <2>1. cached'.uid <= live.uid /\ w'.uid <= live.uid /\ cached'.uid \in Nat /\ w'.uid \in Nat
        BY <1>0, <1>2, UidFacts DEF UidsPast
    <2>2. \A q \in PodKeys : pods'[q].owner \in Uids => pods'[q].owner <= live'.uid
        BY <1>0, <1>2, UidFacts DEF UidsPast
    <2> QED
        BY <1>0, <1>2, <2>1, <2>2, UidFacts DEF UidsPast, Uids
<1>3. live.uid \in Nat /\ (End => w'.uid = 1)
    BY <1>0, UidFacts DEF End, Unread
<1>4. CASE Reconcile
    <2>1. live' = live /\ cached' = cached
        BY <1>4 DEF Reconcile, Start, ListMatching, ListIndexed, GetFresh, Release, CanAdopt,
                    Adopt, PatchOwner, Claimed, Finish, Reads, apiVars
    <2>2. w'.uid \in {1, w.uid, cached.uid}
        BY <1>3, <1>4 DEF Reconcile, Start, ListMatching, ListIndexed, GetFresh, Release, CanAdopt,
                    Adopt, PatchOwner, Claimed, Finish
    <2>3. CASE pods' = pods
        BY <1>2, <1>3, <2>1, <2>2, <2>3
    <2>4. CASE pods' # pods
        <3>1. PICK p \in PodKeys : Release(p) \/ Adopt(p)
            BY <1>4, <2>4 DEF Reconcile, Start, ListMatching, ListIndexed, GetFresh, CanAdopt,
                              Claimed, Finish, Reads, apiVars
        <3>2. PICK owner \in {NoOwner, w.uid} : PatchOwner(p, owner)
            BY <3>1 DEF Release, Adopt
        <3> QED
            BY <1>0, <1>1, <1>3, <2>1, <2>2, <2>4, <3>2, OwnerPatched
    <2> QED
        BY <2>3, <2>4
<1>5. CASE Fail \/ Refresh \/ UNCHANGED vars
    <2>1. /\ live' = live /\ pods' = pods /\ cached' \in {cached, live}
          /\ w' = w \/ End
        BY <1>5 DEF Fail, Refresh, RefreshReplicaSet, RefreshPod, vars, apiVars, ctxVars
    <2> QED
        BY <1>2, <1>3, <2>1
<1>6. CASE DeleteReplicaSet \/ ReplicaSetGone \/ CreateReplicaSet
    <2>1. live'.uid \in {live.uid, live.uid + 1}
        <3>1. live' \in {[live EXCEPT !.state = "deleting"], [live EXCEPT !.state = "gone"],
                          [uid |-> live.uid + 1, state |-> "alive"]}
            BY <1>6 DEF DeleteReplicaSet, ReplicaSetGone, CreateReplicaSet, ReplicaSetWrite
        <3>2. live \in ReplicaSet
            BY <1>0 DEF TypeOK
        <3> QED
            BY <3>1, <3>2 DEF ReplicaSet
    <2>2. cached' = cached /\ pods' = pods /\ w' = w
        BY <1>6 DEF DeleteReplicaSet, ReplicaSetGone, CreateReplicaSet, ReplicaSetWrite, ctxVars
    <2> QED
        BY <1>2, <1>3, <2>1, <2>2
<1>7. ASSUME NEW p \in PodKeys,
             Relabel(p) \/ OtherAdopts(p) \/ OtherReleases(p) \/ GarbageCollect(p)
      PROVE  UidsPast'
    <2>1. PICK pod \in Pod : PodWrite(p, pod) /\ pod.owner \in {NoOwner, Other, pods[p].owner}
        <3>1. /\ [pods[p] EXCEPT !.matches = ~@].owner = pods[p].owner
              /\ [pods[p] EXCEPT !.owner = Other].owner = Other
              /\ [pods[p] EXCEPT !.owner = NoOwner].owner = NoOwner
              /\ [pods[p] EXCEPT !.there = FALSE].owner = pods[p].owner
            BY <1>0 DEF Pod
        <3> QED
            BY <1>0, <1>7, <3>1, Written DEF Relabel, OtherAdopts, OtherReleases, GarbageCollect
    <2> QED
        BY <1>0, <1>1, <1>3, <2>1, PodWritten
<1> QED
    BY <1>4, <1>5, <1>6, <1>7 DEF Next, Others

\* claimPods, however its calls interleave with other writers and however old its
\* copies are, does to the API server what PodOwnership allows: one Pod at a time
\* changes hands, from nobody to a ReplicaSet that matches it or the other way.
THEOREM ClaimImplementsOwnership == Spec => ImplementsOwnership
<1>1. Init => Ownership!Init
    <2> SUFFICES ASSUME Init PROVE Ownership!Init
        OBVIOUS
    <2>1. ASSUME NEW p \in PodKeys
          PROVE  Members[p] \in [there: {TRUE}, owner: {1, NoOwner}, matches: BOOLEAN]
        <3>1. /\ pods[p].there \in {TRUE} /\ pods[p].owner \in {1, NoOwner}
              /\ pods[p].matches \in BOOLEAN
            BY DEF Init
        <3>2. Members[p] = [there |-> pods[p].there, owner |-> pods[p].owner,
                            matches |-> pods[p].matches]
            BY DEF Members
        <3>3. ASSUME NEW a \in {TRUE}, NEW b \in {1, NoOwner}, NEW c \in BOOLEAN
              PROVE  [there |-> a, owner |-> b, matches |-> c]
                       \in [there: {TRUE}, owner: {1, NoOwner}, matches: BOOLEAN]
            BY Zenon
        <3> QED
            BY <3>1, <3>2, <3>3, Zenon
    <2>2. Members \in [PodKeys -> [there: {TRUE}, owner: {1, NoOwner}, matches: BOOLEAN]]
        BY <2>1 DEF Members
    <2> QED
        BY <2>2 DEF Init, Ownership!Init
<1>2. Inv /\ UidsPast /\ [Next]_vars => [Ownership!Next]_(Ownership!vars)
    <2> SUFFICES ASSUME Inv, UidsPast, [Next]_vars
                 PROVE  Ownership!Next \/ UNCHANGED Ownership!vars
        OBVIOUS
    <2>1. CASE UNCHANGED vars
        BY <2>1 DEF vars, apiVars, Ownership!vars, Members
    <2> QED
        BY <2>1, ReconcileStep, OthersStep DEF Next
<1>3. Spec => []UidsPast
    BY InitUids, NextUids, Invariance, PTL DEF Spec
<1> QED
    BY <1>1, <1>2, <1>3, Invariance, PTL DEF Spec, ImplementsOwnership, Ownership!Spec
=============================================================================
