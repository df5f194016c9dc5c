---------------------------- MODULE PodMetadata ----------------------------
(***************************************************************************)
(* How the labels and annotations of a Pod template reach a running Pod    *)
(* and leave it again: setPodMetadata and podMetadataMatches.              *)
(*                                                                         *)
(* One metadata map is modelled.  Beside the ordinary keys it may hold     *)
(* ManagedKey, the annotation in which the controller records the keys     *)
(* that came from the template.  Other parties (admission, other           *)
(* controllers, users) write and remove ordinary keys of the Pod at any    *)
(* time, also keys the template has, and also between the moment at which  *)
(* a reconcile lists the Pod and the moment at which its patch, made       *)
(* against the listed copy, arrives.                                       *)
(***************************************************************************)
EXTENDS FiniteSets

CONSTANTS
    Keys,           \* ordinary keys
    Values,         \* their values
    Empty,          \* the empty string, also what a missing key reads as
    ManagedKey,     \* churnless.io/managed-annotation-keys
    TemplateKeys,   \* keys the user may put into the template
    NoPod           \* no Pod is being updated

ASSUME KeysAssumption     == ManagedKey \notin Keys /\ TemplateKeys \subseteq Keys \cup {ManagedKey}
ASSUME ValuesAssumption   == Empty \in Values

VARIABLES
    template,       \* the metadata of the template the controller's cache holds
    pod,            \* the metadata of the Pod
    listed,         \* what a reconcile in progress has read, or NoPod
    foreign         \* history: keys of the Pod last written by another party

vars == <<template, pod, listed, foreign>>

\* A value is a plain string or the JSON list of a set of keys.
Plain(v)      == [kind |-> "plain", val |-> v]
EncodeKeys(S) == [kind |-> "keys", val |-> S]

PlainValues == [kind: {"plain"}, val: Values]
KeyLists    == [kind: {"keys"}, val: SUBSET Keys]

-----------------------------------------------------------------------------
Lookup(m, k) == IF k \in DOMAIN m THEN m[k] ELSE Plain(Empty)

\* What is not a list of keys decodes to no keys.
DecodeKeys(value) == IF value.kind = "keys" THEN value.val ELSE {}

ManagedTemplateKeys(t) == DOMAIN t \ {ManagedKey}

\* The keys of the Pod that the template no longer has.
DroppedKeys(p, t) == DecodeKeys(Lookup(p, ManagedKey)) \ ManagedTemplateKeys(t)

\* Mutant: keys the template no longer has stay on the Pod.
SetPodMetadata_KeepsDropped(p, t) ==
    [k \in DOMAIN p \cup DOMAIN t \cup {ManagedKey} |->
        IF k = ManagedKey THEN EncodeKeys(ManagedTemplateKeys(t))
        ELSE IF k \in DOMAIN t THEN t[k] ELSE p[k]]

\* Mutant: the record of the managed keys is not brought up to date.
SetPodMetadata_OldRecord(p, t) ==
    [k \in (DOMAIN p \ DroppedKeys(p, t)) \cup DOMAIN t |->
        IF k \in DOMAIN t THEN t[k] ELSE p[k]]

SetPodMetadata(p, t) ==
    [k \in (DOMAIN p \ DroppedKeys(p, t)) \cup DOMAIN t \cup {ManagedKey} |->
        IF k = ManagedKey THEN EncodeKeys(ManagedTemplateKeys(t))
        ELSE IF k \in DOMAIN t THEN t[k] ELSE p[k]]

PodMetadataMatches(p, t) ==
    /\ \A k \in DOMAIN t : Lookup(p, k) = t[k]
    /\ DroppedKeys(p, t) = {}
    /\ Lookup(p, ManagedKey) = EncodeKeys(ManagedTemplateKeys(t))

-----------------------------------------------------------------------------
\* client.MergeFrom: the patch holds the keys whose values differ and, as
\* nulls, the keys that are gone.
Written(before, after) ==
    {k \in DOMAIN after : k \notin DOMAIN before \/ before[k] # after[k]}

Removed(before, after) == DOMAIN before \ DOMAIN after

\* Mutant: the listed copy is sent as a whole.
MergePatch_Overwrites(live, before, after) == after

\* Applied to an object that may have changed since, it touches no other key.
MergePatch(live, before, after) ==
    [k \in (DOMAIN live \ Removed(before, after)) \cup Written(before, after) |->
        IF k \in Written(before, after) THEN after[k] ELSE live[k]]

-----------------------------------------------------------------------------
Templates == UNION {[D -> PlainValues] : D \in SUBSET TemplateKeys}

\* createPod copies the template and applies setPodMetadata to the copy.
Init ==
    /\ template \in Templates
    /\ pod = SetPodMetadata(template, template)
    /\ listed = NoPod
    /\ foreign = {}

EditTemplate ==
    /\ template' \in Templates
    /\ UNCHANGED <<pod, listed, foreign>>

\* A reconcile has the ReplicaSet of its cache and lists the Pod.
ListPod ==
    /\ listed = NoPod
    /\ listed' = [pod |-> pod, template |-> template]
    /\ UNCHANGED <<template, pod, foreign>>

\* updatePods passes the Pod over: it matches, it is not due, or a call fails.
PassPod ==
    /\ listed # NoPod
    /\ listed' = NoPod
    /\ UNCHANGED <<template, pod, foreign>>

\* updatePods patches the Pod, which differs from the template in its metadata
\* or in an image.
PatchPod ==
    /\ listed # NoPod
    /\ LET after == SetPodMetadata(listed.pod, listed.template)
       IN  /\ pod' = MergePatch(pod, listed.pod, after)
           /\ foreign' = foreign \ (Written(listed.pod, after) \cup Removed(listed.pod, after))
    /\ listed' = NoPod
    /\ UNCHANGED template

\* Another party writes or removes an ordinary key of the Pod.
Inject(k, v) ==
    /\ pod' = [j \in DOMAIN pod \cup {k} |-> IF j = k THEN Plain(v) ELSE pod[j]]
    /\ foreign' = foreign \cup {k}
    /\ UNCHANGED <<template, listed>>

RemoveKey(k) ==
    /\ pod' = [j \in DOMAIN pod \ {k} |-> pod[j]]
    /\ foreign' = foreign \ {k}
    /\ UNCHANGED <<template, listed>>

Next ==
    \/ EditTemplate \/ ListPod \/ PassPod \/ PatchPod
    \/ \E k \in Keys : RemoveKey(k) \/ \E v \in Values : Inject(k, v)

Spec == Init /\ [][Next]_vars

-----------------------------------------------------------------------------
\* A patched Pod matches the template it was patched to, so that the next
\* reconcile leaves it alone and its progress is counted; only another party
\* that wrote a key of the template after the Pod was listed prevents it.
PatchSettles ==
    [][PatchPod =>
          \/ PodMetadataMatches(pod', listed.template)
          \/ \E k \in DOMAIN listed.template : Lookup(pod, k) # Lookup(listed.pod, k)]_vars

\* On a Pod that matches, every key that is not in the template was put there
\* by another party: a key that left the template leaves the Pod, whatever
\* templates, patches from stale copies and foreign writes came in between.
NothingLeftBehind ==
    PodMetadataMatches(pod, template)
    => DOMAIN pod \ (DOMAIN template \cup {ManagedKey}) \subseteq foreign

\* A patch preserves what another party has written, before the Pod was listed
\* or after it, under a key that the template neither has nor had when the Pod
\* was last patched.
ForeignKeysKept ==
    [][PatchPod =>
          \A k \in DOMAIN pod \ (DOMAIN listed.template \cup {ManagedKey}) :
             k \notin DecodeKeys(Lookup(pod, ManagedKey))
             => k \in DOMAIN pod' /\ pod'[k] = pod[k]]_vars
=============================================================================
