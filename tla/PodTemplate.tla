---------------------------- MODULE PodTemplate ----------------------------
(***************************************************************************)
(* Which part of a workload is its structure and which part changes in     *)
(* place: mutablePodPolicy and structuralRevision, and what updatePods     *)
(* compares and writes.                                                    *)
(*                                                                         *)
(* A Pod template, and the spec of a Pod made from it, is a record:        *)
(*   meta       labels and annotations of the user                         *)
(*   restarted  the annotation kubectl.kubernetes.io/restartedAt           *)
(*   stamp      the label with the structural revision                     *)
(*   image      the images of all containers                               *)
(*   cpu        CPU and memory of the regular containers                   *)
(*   fixed      everything else: names, commands, extended resources,      *)
(*              resources of init containers, volumes                      *)
(* A workload is a template with the annotations of the Deployment: the    *)
(* resource policy and two restart tokens.  The hashes are taken to be     *)
(* injective: a revision is the data that is hashed.                       *)
(***************************************************************************)
EXTENDS Naturals

CONSTANTS
    Nil,            \* an absent value
    Workloads       \* what a user may write

BestEffort == "best-effort"

ASSUME NilAssumption == Nil # BestEffort

\* A workload is a record, and its user writes no stamp.
ASSUME WorkloadsAssumption ==
    \A w \in Workloads :
        w \in [policy: {w.policy}, redeploy: {w.redeploy}, restart: {w.restart},
              template: [meta: {w.template.meta}, restarted: {w.template.restarted},
                         stamp: {Nil}, image: {w.template.image}, cpu: {w.template.cpu},
                         fixed: {w.template.fixed}]]

-----------------------------------------------------------------------------
\* mutablePodPolicyFor: only the one documented value opts in.
ResizeResources(policy) == policy = BestEffort

\* resourcePolicy: any other value counts as none.
ResourcePolicy(policy) == IF ResizeResources(policy) THEN BestEffort ELSE Nil

CleanTemplate(t) == [t EXCEPT !.stamp = Nil]

ClearImages(t) == [t EXCEPT !.image = Nil]
ClearResizableResources(t) == [t EXCEPT !.cpu = Nil]
ClearMetadata(t) == [t EXCEPT !.meta = Nil, !.restarted = Nil]

\* Mutant: opting in takes all resources out of the structure.
ClearFromStructural_Everything(policy, t) ==
    LET clear == ClearImages(ClearMetadata(t))
    IN  IF ResizeResources(policy)
        THEN [ClearResizableResources(clear) EXCEPT !.fixed = Nil] ELSE clear

ClearFromStructural(policy, t) ==
    LET clear == ClearImages(ClearMetadata(t))
    IN  IF ResizeResources(policy) THEN ClearResizableResources(clear) ELSE clear

StructuralRevision(w) ==
    [template        |-> ClearFromStructural(w.policy, CleanTemplate(w.template)),
     resourcePolicy  |-> ResourcePolicy(w.policy),
     redeploy        |-> w.redeploy,
     workloadRestart |-> w.restart,
     templateRestart |-> w.template.restarted]

\* Mutant: resources that are resized in place are left out.
InPlaceRevision_NoResources(policy, t) ==
    LET clean == CleanTemplate(t)
    IN  [meta |-> <<clean.meta, clean.restarted>>, image |-> clean.image,
         cpu |-> {}]

\* mutablePodPolicy.revision: without the opt-in no resources are hashed.
InPlaceRevision(policy, t) ==
    LET clean == CleanTemplate(t)
    IN  [meta  |-> <<clean.meta, clean.restarted>>,
         image |-> clean.image,
         cpu   |-> IF ResizeResources(policy) THEN {clean.cpu} ELSE {}]

\* The template a ReplicaSet of the workload gets.
StampedTemplate(w) == [w.template EXCEPT !.stamp = StructuralRevision(w)]

-----------------------------------------------------------------------------
\* podHasResizableResources
HasResources(spec, t) == spec.cpu = t.cpu

SpecMatches(policy, spec, t) ==
    /\ spec.meta = t.meta /\ spec.restarted = t.restarted /\ spec.stamp = t.stamp
    /\ spec.image = t.image
    /\ ResizeResources(policy) => HasResources(spec, t)

\* setPodMetadata and setPodImages
WithMetadataAndImages(spec, t) ==
    [spec EXCEPT !.meta = t.meta, !.restarted = t.restarted, !.stamp = t.stamp,
                 !.image = t.image]

\* setPodResizableResources
WithResources(spec, t) == [spec EXCEPT !.cpu = t.cpu]
=============================================================================
