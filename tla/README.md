# Churnless: a TLA+ verification project

Churnless is a Kubernetes operator with two controllers. Its `Deployment` and
`ReplicaSet` are wire-compatible with the native ones, but a change of images,
labels, annotations or resources is patched into the running Pods instead of
replacing them. This directory models the controllers, the Pods and the part of
the cluster they depend on, checks small instances with TLC and proves some of
the results for every instance with TLAPS.

## 1. Inventory

| Component | Source | State it keeps | Operations |
|---|---|---|---|
| Deployment controller | `internal/controller/deployment_controller.go` | none between reconciles; one reconcile in progress | read, create / sync / scale a ReplicaSet, list old Pods, patch status |
| Rollout policy | same file, `internal/kubecompat/apps.go` | none (pure functions of what was read) | fenceposts, sums over ReplicaSets, in-place budget, scale decisions, completion |
| ReplicaSet controller | `internal/controller/replicaset_controller.go` | none between reconciles | read and claim Pods, create / delete Pods, patch status |
| In-place update | `internal/controller/workload.go` | the Pods' managed-key annotations | count Pods in flight, patch outdated Pods, resize, readiness of a revision |
| Slow-start batches | `internal/kubecompat/pods.go` | one batch in progress | concurrent calls in doubling batches |
| Revisions | `deployment_controller.go`, `workload.go` | hashes in names, labels and status | `structuralRevision`, `mutablePodPolicy.revision` |
| Admission | `internal/webhook`, `kubecompat/apps.go` | none | defaulting, validation, warnings |
| Manager | `cmd/main.go` | none | flags, wiring, leader election |
| Cluster (external) | the Kubernetes API as the code uses it | API objects with generations, informer caches | merge patches, cache refreshes, kubelet restarts, evictions, user edits |

**Interaction.** The controllers share no memory. The Deployment controller
writes `spec.replicas`, the template and the in-place-parallelism annotation of
ReplicaSets; the ReplicaSet controller writes Pods and the ReplicaSet status,
which the Deployment controller reads back. Each has one worker. A reconcile
reads its own object from an informer cache, its children live, and then makes
several API calls; anything may happen between two of them, and a failed call or
a restart ends it anywhere. A reconcile runs when a watch event, a requeue or a
timer has queued its key, and at no other time.

**What is hard.** Decisions are taken on statuses older than the writes of the
same loop; two budgets (structural scale-down and in-place parallelism) spend
one `maxUnavailable`; a patched Pod still looks ready until the kubelet restarts
it; status patches are merge patches against a cached copy; Recreate needs an
order across several reconciles of both controllers; a rollout must complete
from every intermediate state. `PROJECT.json` lists these hazards at their lines.

**What makes each component correct.**
- Policy: budgets are natural numbers; a scale-up respects the surge; the
  clamped sums count no replica that does not exist.
- Deployment controller: availability floor, Recreate exclusivity, pause,
  completion only when converged, every rollout completes.
- ReplicaSet controller: no Pod created too many or deleted without cause;
  in-place patches keep the minimum.
- Metadata: keys come and go with the template, foreign keys stay, one patch is
  enough.
- Claiming: only orphans are adopted and only strangers released, at the moment of
  the write; no own Pod is overlooked.
- Slow start: never more than asked for, bounded damage, exact result.
- Revisions and resize: every field is structural or updated in place; a Pod is
  replaced only if its resize was refused or is infeasible; the budget holds.
- Wake-ups: nobody sleeps while a status or a budget is out of date or a Pod has
  yet to become available, and both controllers come to rest.

## 2. Modules

| Module | Models | Notes |
|---|---|---|
| `RolloutPolicy` | sums, fenceposts, `deploymentParallelism`, `rollout` decisions, `deploymentComplete`, `deploymentConditions` | operators over a view: a function from structures to ReplicaSet records |
| `ClusterState` | API objects, caches, kubelet, evictions, user | mostly external |
| `DeploymentController` | `DeploymentReconciler.Reconcile` | `dctx` is the reconcile in progress |
| `ReplicaSetController` | `ReplicaSetReconciler.Reconcile`, `updatePods` | `rctx` is the reconcile in progress |
| `Churnless` | composition, fairness, properties | |
| `PodMetadata` | `setPodMetadata`, `podMetadataMatches`, the merge patch of `updatePods` | one Pod, one map; `listed` is what the reconcile has read |
| `SlowStart` | `SlowStartBatch` | one call of it |
| `PodClaim` | `claimPods`, `podCandidates`, `canAdopt` | one ReplicaSet name, its Pods, everybody who writes them |
| `PodOwnership` | what claiming promises the API server | abstract: atomic adoptions and releases; `PodClaim` implements it |
| `PodTemplate` | `mutablePodPolicy`, `structuralRevision`, `cleanTemplate`, what `updatePods` compares and writes | operators over a template of six fields |
| `PodResize` | `updatePods` call by call, `fallbackFromResizeError`, kubelet verdicts | one ReplicaSet with a constant number of replicas |
| `WakeUps` | `SetupWithManager`, `RequeueAfter`, `availableReplicas`, `preserveConditionTime` | a rolled-out Deployment, its ReplicaSet, its Pods, and the work queues |
| `MCChurnless`, `MCPodMetadata`, `MCPodResize` | values of the constants | |
| `RolloutPolicyProofs`, `ChurnlessProofs`, `PodMetadataProofs`, `SlowStartProofs`, `PodClaimProofs`, `WakeUpsProofs`, `PodResizeProofs` | theorems about the module of the same name | |
| `ScaleProofs` | theorems about `Churnless` that need more than types and one plan | extends `ChurnlessProofs` |

### How the code becomes actions

A template is a pair of a *structure* (what `structuralRevision` hashes; it names
one ReplicaSet) and a *revision* (what changes in place). `rs[s].gen = 0` means
that the ReplicaSet of structure `s` does not exist.

| Code | Action |
|---|---|
| `Reconcile` of a Deployment up to its first write: cached Get, live List, and the rollout if the status is the cached one | `DRead` |
| `createReplicaSet` (then requeue) | `DCreate` |
| `syncReplicaSet` (then requeue) | `DSync` |
| `updateDeploymentStatus`, `deploymentConditions`, then the pause check and the decisions of `rollout` | `DStatus` |
| `oldPodsRunning` | `DListPods` |
| `scaleReplicaSet` | `DScale` |
| `Reconcile` of a ReplicaSet: cached Get, live list of Pods, choice of branch | `RRead(s)` |
| one call of the creation batch, of the deletion loop | `RCreatePod`, `RDeletePod` |
| one iteration of `updatePods` that patches | `RPatchPod` |
| `updateReplicaSetStatus` | `RPatchStatus` |
| an error return or a restart at any call | `DFail`, `RFail` |

`Status().Patch` (`deployment_controller.go:572`) decodes the API server's answer
into the Deployment of the reconcile. The pause check (`:115`) and `rollout`
(`:118`) therefore use the spec as it is at that moment, together with the
current ReplicaSet and the list from before: `DStatus` decides by `Refreshed` and
`dctx.view`. If the status is equal to the cached one nothing is sent and the
cached spec decides (`DReadRollout`). A pause that was removed is omitted from
the answer, so that the decoder may or may not leave it in place; `Refreshed`
allows both.
A status is written with `MergePatch`: only fields that differ from the cached
base are sent. The Deployment's conditions are one list, so its Progressing
reason may also be resent when it is equal to the cached one, if some message
changed; `DStatus` allows both.

`PodResize` has the finer grain of `updatePods`:

| Code | Action |
|---|---|
| cached Get, live list, count of Pods in flight | `RRead` |
| deletion of a Pod whose resize is infeasible | `RDeleteInfeasible` |
| merge patch of metadata and images | `RPatchPod` |
| update of the `resize` subresource: accepted, conflict or gone, refused | `RResizeAccepted`, `RResizeOutdated`, `RResizeRefused` |
| deletion after a refusal | `RReplacePod` |
| `syncReplicaSet` of an edit that is not structural | `Sync(w)` |
| `syncReplicaSet` of a paused Deployment: template kept, budget 0, policy written | `PausedSync(w)` |
| merge patch of the status against the cached one | `RPatchStatus` |

The resize sends the object that the patch returned, with its resource version:
`rctx.touched` records whether somebody has written the Pod since.

`PodMetadata` splits the same loop for one Pod into the list (`ListPod`) and the
merge patch against the listed copy (`PatchPod`); other parties write the Pod in
between.

`WakeUps` keeps the queue (`queue`, `timer`) and the undelivered events
(`podEvent`, a cache that differs from the object) and leaves out what is settled
when a rollout is complete. `RStart`/`DStart` take a key and read the cache,
`RList`/`DList` list live, `RStatus`/`DStatus` compare with the cached status and
patch, `RRequeue` reads the clock again and decides about the requeue.

### Abstractions
- In `Churnless`, `minReadySeconds` is 0: ready is available. `WakeUps` tells the
  two apart.
- `PodResize` has no terminating Pods (a deleted one is gone at once) and one
  `pending` verdict for all values of `status.resize` but `Infeasible`. It takes
  the API server to mark an accepted resize at once. Its two syncs write into the
  ReplicaSet as it is, in one step; of the status it keeps
  `inPlace.readyUpdatedReplicas`. An infeasible verdict is not taken back.
- In `PodTemplate` all images are one value, and so are CPU and memory of all
  regular containers; `PodMetadata` has the detail of the metadata.
- In `WakeUps` two moments stand for the clock of condition times: a new time
  differs from the one before it. An object that changes and changes back before
  the informer sees it counts as no event, which is less than the API server sends.
- A status is reduced to the fields that are read by either controller: counts,
  generation and revision of a ReplicaSet; observed generation and Progressing
  reason of the Deployment.
- A Pod is its owner, template revision, observed image, readiness and phase.
  Pods of the same creation second are patched in an order given by `PodRank`
  (all equal: any order).
- The native deletion order is reduced to "not ready first".
- An informer jumps from the version it has to the latest one.
- Hashes are injective. A revision determines an image; two revisions may share one.
- A replacement Pod is created from the cached template and patched in place later
  if that was stale. `DESIGN.md:268` says that it "starts with the latest desired
  in-place revision", which is so once the cache has caught up.
- In `PodClaim` the selector either matches a Pod or not; a deleted and recreated
  ReplicaSet has the next UID. `eligible` and `steady` are history variables.
- `PodMetadata` models the annotation map. The record of managed label keys is
  an annotation as well, so the label map behaves the same without the special
  case of a template that uses the record's own key.

## 3. Runs

Bounds are the CONSTANTS marked *bound* in `ClusterState`: `MaxEdits`,
`MaxFaults`, `PodIds`, and which cached copies may lag (`Lagging`,
`DeploymentLags`). One or two edits and one fault put every handler between every
two calls of the others; two is the smallest number of replicas for which a
budget of one is neither everything nor nothing.
`SteadySpec` starts from a Deployment that is rolled out, `Spec` from one that
was just created.

| Run | Question | Instance | Distinct states |
|---|---|---|---|
| `structural` | Do the floor and the surge limit hold, does no sum count a missing Pod, are the revisions of a Recreate exclusive? | 2 structures, 2 replicas, 3 strategies (the edit may change the strategy too), stale ReplicaSets, 1 failed call | 706k |
| `inplace` | Does `updatePods` stay in its budget, and is `deploymentComplete` right? | 2 replicas, 3 revisions, 2 edits, both caches stale | 2.30M |
| `healing` | Is a Pod ever created too many or deleted without cause? | from creation, 2 revisions, 1 fault (call or eviction), stale ReplicaSet | 1.75M |
| `convergence` | Does any single edit converge, scaling to 0 included; do all counts keep their type? | 2 structures, 2 revisions, 0 or 1 replicas, 3 strategies, 1 failed call | 356k |
| `pause` | Does a published pause stop scaling, and does a resumed rollout complete? | 2 structures, 2 edits, stale Deployment | 268k |
| `slowstart` | Is `SlowStartBatch` exact, bounded, terminating? | counts 0..9, every failure pattern | 235 |
| `claim` | Does a reconcile adopt, release and count the right Pods, and does it implement `PodOwnership`? | 2 Pods, 2 UIDs, 3 writes by others or failed calls, stale caches | 577k |
| `resize` | Is every field either structural or updated in place, who is replaced, does the budget hold, does an update settle? | 2 replicas, 8 workloads, 2 edits or pauses, 1 fault (failed or refused call, infeasible verdict, eviction), stale ReplicaSet and status | 776k |
| `wakeup` | Does anybody sleep while there is something to report or to wait for, do both statuses catch up, do the controllers come to rest? | 2 Pods, 2 flips of readiness, 1 failed call or restart, all caches stale, two readings of the clock | 342k |
| `metadata` | Do keys come and go correctly, with writes between list and patch? | 3 keys, 2 values | 293k |

Deadlock is checked in all of them but `claim` and `wakeup`: some reconcile can
always run. In `claim` the ReplicaSet may be deleted, and then nothing is left to
do; in `wakeup` everybody sleeps when all Pods are available, which is what
`ComesToRest` asks for. Where a name
for a new Pod is missing, the creation waits for a Pod to go; in `structural` a
fifth name adds no state.

Symmetry (Pods and structures, or revisions) is used in safety runs only, and
not of Pods where `PodRank` tells them apart.

`FloorKept` is relative: it claims that the controllers keep the floor once the
*reported* availability has reached it, so evictions are absent from its run.
`BudgetKept` is a property of the step that takes a Pod: at that moment fewer Pods
than the budget are disturbed.

### Findings

Two runs expect a violation; `PROJECT.json` quotes the documentation each one
contradicts.

| Run | What happens |
|---|---|
| `stuck_rollback` | With `maxUnavailable` 1, a Pod broken by a bad image takes the whole in-place budget, so that the rollback to the good image never reaches it. |
| `recreate_race` | An old ReplicaSet's reconcile that still has Pods to create continues after `oldPodsRunning` found none. |

### Known limits

The passing runs stop short of these cases, which the model also reaches when
the constants are changed as described:

- Double spending: in `structural` with `Revisions` and `Images` of two elements,
  `UnavailableOne` only, no faults and `MaxEdits = 2`, `FloorKept` fails. An
  in-place update in flight on an old ReplicaSet and a structural scale-down
  (`deployment_controller.go:353`) both spend `maxUnavailable`, although
  `DESIGN.md:328` says "RollingUpdate stays within its availability and surge
  fenceposts".
- Missed wake-up: `availableReplicas` reads the clock once for the status
  (`replicaset_controller.go:520`) and once for the requeue (`:134`). A Pod that
  becomes available in between, when the status did not change otherwise, is
  found available by the second call only: no requeue, no event, and its
  availability is not reported until something else happens. `WakeUps` has both
  readings and this behaviour, and a history variable `missed` for it:
  `SafelyReported` asks for the exact counts unless the last reconcile missed that
  moment, and then for no Pod reported available that is not.
- Edits between list and status patch: a reconcile that began before an edit of
  structure *and* replica count takes the ReplicaSet of the old structure to the
  new count (`deployment_controller.go:572`, `:118`). In `structural` with
  `ReplicaChoices = {1, 2}` the floor of the new count then fails. With a lagging
  Deployment cache the next reconcile, if it has no status to write, goes by the
  cached count again and takes the ReplicaSet back.
- Policy of a paused Deployment: without a template the resource policy is written
  all the same (`deployment_controller.go:270`, `:283`). If the opt-in is removed
  while paused, Pods that were not resized match the template and count as updated
  until the Deployment is resumed. No Pod is updated meanwhile, and a Deployment
  resumed without the opt-in has another structure; `MatchIsReplacement` is therefore about a
  ReplicaSet that has a budget.
- Replaced Pods in the status: after a refused resize the local copy of the Pod
  that was deleted keeps the wanted resources (`workload.go:278`), so that
  `calculateProgress` of the same reconcile may count it as updated and ready.
  The next reconcile corrects it, as `UpdateSettles` shows.
- A template with limits and no requests gets its requests defaulted in the Pods
  unless admission has done so in the template; under best-effort such a Pod
  would never match (`podHasResizableResources`). `PodTemplate` supposes that
  templates are admitted.
- `structural` starts from a rolled-out Deployment with one edit. An edit while
  the first ReplicaSet is still being filled (`Spec`), or a structural rollback in
  mid-rollout (`MaxEdits = 2`), breaks the floor: the statuses are behind both.
- `inplace` has no failed calls. With `MaxFaults = 1`, an edit A -> B -> A and a
  stale ReplicaSet cache, a status merge patch sends the new generation and
  revision but omits counts equal to the stale ones; the generation fence then
  accepts counts of B as A's, and `CompleteIsConverged` fails. With
  `maxUnavailable` 2 it fails without a failed call: a status that was read before
  "no Pod ready" became "all Pods ready" of the first edit is the base for the
  patch after the second, whose "no Pod ready" is then not sent.
- The budget of `updatePods` counts the Pods on their way to the template of the
  reconcile that counts. It is therefore no bound on the Pods out of service: in
  `resize` with `MaxEdits = 3` a template that changes and changes back, or a Pod
  that is not ready and whose resize is infeasible, leaves more of them so.
- `PatchesKeepMinimum` supposes that the Pods out of service are so for the
  revision being patched. After a second edit in mid-flight those that still
  wait for a restart of the first are no longer counted as in flight.
- `CompleteIsConverged` is about `deploymentComplete`. The published Progressing
  condition looks at updated and available counts only (`deploymentConditions`), so
  it can say "Deployment rollout is complete" between a Pod patch and the restart.
- `PausedKeepsScale` is about scaling only. A pause sets the parallelism of the
  current ReplicaSet to 0; an old one keeps the budget it had and goes on
  patching its Pods to its last template.
- `metadata` supposes that no template uses the annotation in which the
  controller keeps its record. `podMetadataMatches` compares every key of the
  template, so such a Pod never matches and is patched by every reconcile.

### Fairness

Liveness is stated under `Fairness` in `Churnless`: weak fairness of the
Deployment reconcile (watches, `RequeueAfter` and the resync wake it up), of a
started ReplicaSet reconcile, of the informers and the kubelet, and strong
fairness of `RRead(s)` for each ReplicaSet, since all of them share one worker
whose queue is first in, first out. Nothing is assumed of users, faults and
evictions; they are bounded. No symmetry is used in these runs.

In `claim`, reconciles and informers are weakly fair. An orphan that starts to
match enqueues nobody (`Owns` enqueues controllers), so adoption rests on the
periodic resync there.

In `resize` the reconcile, the informer and the kubelet are weakly fair; users,
faults and evictions are bounded. A resize that stays pending for ever is
excluded, as the code has no timeout for it.

In these modules a reconcile may always run. `WakeUps` drops this: a controller
runs only if its key is queued, and `FairSpec` supposes no more than that a worker
with something to do goes on, that timers fire, that events are delivered and
that time passes. `StatusCatchesUp` is what remains of the assumption, shown
instead of supposed.

## 4. Proofs

All theorems hold for every value of the constants under the named ASSUMEs of
the modules: finite sets of structures and Pods, natural bounds, a percentage or
natural number for each fencepost. Those of `ChurnlessProofs` and
`ScaleProofs` are about `Spec \/ SteadySpec`, whatever the caches show, whichever
calls fail and however often, unless the table says otherwise.

| Theorem | Statement | Argument |
|---|---|---|
| `ChurnlessProofs!TypeCorrect` | `[]TypeOK` | inductive with `Named` (an existing ReplicaSet has a revision), `TargetsNamed` (a reconcile in progress acts on an existing one) and `SourceNamed` (Pods are only created or patched from a template that exists). Needed because a ReplicaSet not yet created has no revision, which a Pod may not get. |
| `ChurnlessProofs!SurgeRespected` | `ScaleUpWithinSurge` | `PlanSafe`: a scale-up about to be sent, applied to the *present* ReplicaSets, stays in the limit of the Deployment that decided it, however often that was edited since the list. It rests on `SpecStands`: the replica counts of the list are still those of the API server, as only the Deployment controller writes them and it has one reconcile at a time. |
| `ChurnlessProofs!RecreateIsExclusive` | `RecreateScalesUpAlone` | the Recreate part of `PlanSafe` |
| `ScaleProofs!PauseIsObeyed` | `PausedKeepsScale` | `PauseInv`: generations only grow from the API server to the cache to the reconcile (`GenerationsOrdered`), a Deployment that is paused, as the reconcile holds it after the status patch, is not rolled out (`NoPausedRollout`), a published generation is in the cache and in the reconcile (`PublishedIsRead`). `Vacant` is needed for the creation of a ReplicaSet, which may not hide a change of `spec.replicas`. |
| `ScaleProofs!IdentityIsKept` | `[][Frozen]_vars => IdentityKept` | `IdentityInv`: all copies aim at the same replica count of one ReplicaSet (`OneTarget`), it has no replicas or all of them (`AllOrNothing`), the Pods there and the ones still to be created fit (`NoneTooMany`). Evictions, edits of the template in place and pauses are allowed. |
| `ScaleProofs!RecreateKeepsApart` | `RecreatePodsExclusive` for `SteadySpec`, `EditedOnce`, `FrozenReplicas` and `NoEviction` | `EditInv`: a reconcile that read the spec before the edit and holds the one after it finds the old ReplicaSet at its count (`RolloutDirected`); after one edit of a Deployment at rest each ReplicaSet goes one way, in the API server, the cache, the Pods and the reconcile in progress (`OneWay`); then no reconcile of an old one has Pods to create (`Exclusive`). |
| `ScaleProofs!AvailableIsThere`, `MinimumIsKept` | `NoPhantomAvailability` and `FloorKept`, for `SteadySpec`, `EditedOnce`, `FrozenReplicas`, `NoEviction` and `NoRestart` | `FloorInv`: a status of a ReplicaSet that grows reports no Pod that is not ready (`NotAhead`), one that shrinks has only ready Pods and reports at least what `spec.replicas` keeps (`AllReady`), what the Deployment reconcile has listed counts no more than there is by now (`ViewBehind`), and a scale-down that is about to be sent leaves the minimum (`ScaleKeepsFloor`) |
| `ScaleProofs!CompletionIsTrue` | `CompleteIsConverged` for `SteadySpec`, `EditedOnce`, `Frozen` and `NoEviction` | `SettledInv`: the new template reaches the ReplicaSet once (`OneSync`), every copy of the ReplicaSet is of the generation at rest, and then no Pod has been patched, or of the new one (`Copies`), a Pod counted as ready and observed stays so (`ReadingStands`), and a report of the new generation with all Pods ready is true (`ReportStands`): a merge patch that leaves out `readyReplicas` leaves out a smaller number than that, or the truth. |
| `ScaleProofs!PatchesAreSafe` | `PatchesKeepMinimum` for `SteadySpec`, `RollingUpdate`, `Frozen`, `FrozenStrategy` and `NoEviction` | `PatchInv`: every copy of the annotation is within the budget (`ParallelismBounded`), all Pods are there and were read (`PodsWhole`), and `inFlight` is at no call less than the Pods on their way to the revision being patched (`FlightCounted`). Any number of edits. |
| `PodResizeProofs!TypeCorrect` | `TypeOK` | part of the invariant of the next row |
| `PodResizeProofs!MatchesAreReplacements`, `EditsAreTold` | `MatchIsReplacement`, `EditsChangeRevision` | `OneStructure`: all copies of the ReplicaSet and all its Pods have the structure that its stamp names, and the policy is that structure's unless a pause has taken the budget away (`InStep`), so that what `updatePods` does not write cannot differ |
| `PodResizeProofs!ReplacementIsJustified` | `ReplacedOnlyIfRefused` | `VerdictsStand` (an infeasible verdict that was listed is still there when the loop comes to the Pod) and `CallsJustified` (a Pod is given up only after a refusal) |
| `PodResizeProofs!BudgetIsKept` | `BudgetKept` | `Counted`: `inFlight`, counted once from the list, is at no later call less than the Pods disturbed by then, unless a pause left no budget |
| `PodMetadataProofs!NoKeyLeftBehind`, `OnePatchSettles`, `ForeignKeysAreKept` | `NothingLeftBehind`, `PatchSettles`, `ForeignKeysKept` | `RecordComplete`: the record names every key of the Pod that nobody else wrote; `ListedBehind`: since the list only other parties have written the Pod, so that the record is the listed one and a key that has appeared is foreign. `OnePatchSettles` assumes that no template uses the controller's own key, which is necessary (see the known limits). |
| `PodClaimProofs!AdoptionIsSafe`, `MembersAreKept`, `ClaimIsComplete` | `AdoptsOrphans`, `KeepsMembers`, `NoneOverlooked` | `SnapshotsFresh` (a candidate whose version is unchanged is as it was read), `AdoptionVerified` (what `canAdopt` saw still holds if the version is unchanged), `SteadySeen` (own Pods are candidates from the live list on) |
| `PodClaimProofs!ClaimImplementsOwnership` | `ImplementsOwnership` | every step of the claim is a step of `PodOwnership` or none; `UidsPast` (no copy and no owner reference is of a ReplicaSet yet to be created) is what a recreation of the ReplicaSet needs |
| `WakeUpsProofs!TypeCorrect`, `ReplicaSetIsAwake`, `DeploymentIsAwake` | `TypeOK`, `NoSleepWhileBehind`, `DeploymentFollows` | `RInv`: from the list to the requeue, either the key is queued, a Pod event or a status is undelivered, or the Pods are as they were listed but for some that have become available, and the status written is that of the list. The requeue then waits for every Pod that is not available, or `missed` records that one became so since. `RBaseCurrent` is the heart of it: a status equal to a stale cached one is not written, and then the cache is still to be refreshed, which queues the key. `DInv` is the same for the Deployment. |
| `SlowStartProofs!CountRespected`, `FailuresAreBounded`, `ResultExact` | `NeverTooMany`, `FailuresBounded`, `ResultIsExact` | invariant `Accounting`: what was done, is running and remains adds up to the count, and the batch is at most what succeeded before it plus the first batch |

**The hypotheses.** They are about the user and the cluster, never about the
controllers, and each is met by the run that checks the property:
- `Frozen`: nobody changes the structure or `spec.replicas`, the premise of the
  promise that Pods keep their identity (`healing`).
- `EditedOnce`: a Deployment at rest is edited once, in any way, as in `structural`.
  A second edit in mid-rollout breaks the floor, and `CompleteIsConverged` (known
  limits).
- `FrozenReplicas`: the edit keeps the replica count, as in `structural`; it may
  change structure, strategy and pause. The floor needs it because of edits between
  list and status patch (known limits). `RecreateKeepsApart` needs it for its
  argument, in which no ReplicaSet goes two ways; `RecreatePodsExclusive` also holds
  in `structural` with `ReplicaChoices = {1, 2}` and `OnlyRecreate`.
- `FrozenStrategy`, `RollingUpdate`: the strategy is a rolling one and stays, as in
  `inplace`. Recreate patches all Pods at once, and a budget handed out under an
  earlier strategy is spent under the next.
- `NoEviction`: an old ReplicaSet that has lost a Pod is about to create another,
  which is the race of `recreate_race`; a status also still counts an evicted Pod.
- `NoRestart`: no Pod is restarted in place; a status still counts a Pod that is
  restarting. With it the theorems are about edits of the structure, the strategy
  or the pause. Restarts in place are the part of the floor that
  fails by double spending (known limits).

`RolloutPolicyProofs` has the lemmas about the operators: the types of limits and
budgets, bounds of `Decrease`, `RollingWithinSurge`, and the arithmetic of sums.
`Total` is the cardinality of a set of slots (`Slots`), one for each unit, so that
no recursion is needed: `TotalSplit`, `TotalSame` and `TotalZero` say how it changes
with one ReplicaSet, `TotalMono`, `TotalFits`, `AvailableSplit` and `AvailableMono`
how sums over all of them compare.

**Only model-checked.** Liveness (fairness and ENABLED are out of the prover's
reach): `RolloutCompletes`, `ClaimSettles`, `Terminates`, `UpdateSettles`, `StatusCatchesUp`,
`ComesToRest`. Every safety property that a run checks is stated by a theorem.
What the runs add is the case outside a theorem's hypotheses: `inplace` has two
edits and `CompleteIsConverged`, which holds there for a budget of one.

## 5. Not modelled

- Filling in a missing `spec.replicas`, removal of shadow objects of earlier
  versions, and `podCandidates` without an owner index (tests only).
- `PodClaim` is not composed with `ReplicaSetController`: there every Pod has the
  owner it was created with.
- `PodResize` and `WakeUps` are not composed with `Churnless` either: the first has
  a constant number of replicas, the second no rollout. The product is out of
  TLC's reach; what they share are the operators of the same names.
- Orphans that start to match wake nobody (`Owns` enqueues controllers); nothing
  but a resync brings them in.
- Hash collisions (a gap `DESIGN.md` names itself).
- Admission webhooks and conversions to native types: stateless adapters to the
  upstream libraries. Manager, benchmark, test helpers, generated code.

## 6. Plan

In order of importance:
1. `SlowStart` composed with `RCreatePod`: concurrent, partly failing creations.
2. The native deletion order in full, checked against its definition.
3. Edits of metadata only (revisions that share an image) in the runs of `Churnless`.
4. An abstract rollout (old and new replica counts under floor and surge) and a
   refinement from `Churnless` to it.
5. `CompleteIsConverged` proved for an edit that changes the structure, where the
   Pods of the new ReplicaSet have one revision from the start.
6. Filling in defaults and removal of shadow objects.
