------------------------- MODULE PodMetadataProofs -------------------------
(***************************************************************************)
(* The bookkeeping of template keys on a Pod, for every set of keys.       *)
(***************************************************************************)
EXTENDS PodMetadata, TLAPS

\* The record on the Pod names every key that is there because of a template.
RecordComplete ==
    DOMAIN pod \ ({ManagedKey} \cup DecodeKeys(Lookup(pod, ManagedKey))) \subseteq foreign

TemplateTyped == DOMAIN template \subseteq TemplateKeys

\* Since the Pod was listed, only other parties have written it: the record is
\* the listed one, and a key that has appeared is foreign.
ListedBehind ==
    listed # NoPod =>
        /\ Lookup(listed.pod, ManagedKey) = Lookup(pod, ManagedKey)
        /\ DOMAIN pod \ DOMAIN listed.pod \subseteq foreign
        /\ DOMAIN listed.template \subseteq TemplateKeys

IInv == RecordComplete /\ TemplateTyped /\ ListedBehind

-----------------------------------------------------------------------------
\* setPodMetadata records exactly the keys of the template.
LEMMA RecordOfPatched ==
    ASSUME NEW p, NEW t
    PROVE  /\ Lookup(SetPodMetadata(p, t), ManagedKey) = EncodeKeys(ManagedTemplateKeys(t))
           /\ DecodeKeys(Lookup(SetPodMetadata(p, t), ManagedKey)) = ManagedTemplateKeys(t)
  BY DEF SetPodMetadata, Lookup, DecodeKeys, EncodeKeys

\* The keys of a Pod after setPodMetadata.
LEMMA KeysOfPatched ==
    ASSUME NEW p, NEW t
    PROVE  DOMAIN SetPodMetadata(p, t)
             = (DOMAIN p \ DroppedKeys(p, t)) \cup DOMAIN t \cup {ManagedKey}
  BY DEF SetPodMetadata

\* setPodMetadata gives a Pod the template's values, and leaves the other keys
\* that it keeps alone.
LEMMA ValuesOfPatched ==
    ASSUME NEW p, NEW t, NEW k \in DOMAIN SetPodMetadata(p, t), k # ManagedKey
    PROVE  SetPodMetadata(p, t)[k] = IF k \in DOMAIN t THEN t[k] ELSE p[k]
  BY DEF SetPodMetadata

\* A Pod to which setPodMetadata was applied passes podMetadataMatches,
\* provided that the template does not use the controller's own key.
LEMMA PatchedMatches ==
    ASSUME NEW p, NEW t, ManagedKey \notin DOMAIN t
    PROVE  PodMetadataMatches(SetPodMetadata(p, t), t)
<1> DEFINE q == SetPodMetadata(p, t)
<1>1. ASSUME NEW k \in DOMAIN t
      PROVE  Lookup(q, k) = t[k]
  <2>1. k \in DOMAIN q /\ k # ManagedKey
    BY KeysOfPatched
  <2>2. q[k] = t[k]
    BY <2>1, ValuesOfPatched
  <2> QED
    BY <2>1, <2>2 DEF Lookup
<1>2. DroppedKeys(q, t) = {}
  BY RecordOfPatched DEF DroppedKeys
<1> QED
  BY <1>1, <1>2, RecordOfPatched DEF PodMetadataMatches

\* The keys a patch made by setPodMetadata writes and removes.
LEMMA KeysOfPatch ==
    ASSUME NEW p, NEW t
    PROVE  LET q == SetPodMetadata(p, t)
           IN  /\ Written(p, q) \subseteq DOMAIN t \cup {ManagedKey}
               /\ Removed(p, q) \subseteq DroppedKeys(p, t)
               /\ DOMAIN p \cap DroppedKeys(p, t) \subseteq Removed(p, q) \cup {ManagedKey}
               /\ Removed(p, q) \cap DOMAIN q = {}
<1> DEFINE q == SetPodMetadata(p, t)
<1>1. ASSUME NEW k \in Written(p, q), k \notin DOMAIN t \cup {ManagedKey}
      PROVE  FALSE
  <2>1. k \in DOMAIN q /\ k \in DOMAIN p
    BY <1>1, KeysOfPatched DEF Written
  <2>2. q[k] = p[k]
    BY <2>1, <1>1, ValuesOfPatched
  <2> QED
    BY <1>1, <2>1, <2>2 DEF Written
<1>2. Removed(p, q) \subseteq DroppedKeys(p, t)
  BY KeysOfPatched DEF Removed
<1>3. DOMAIN p \cap DroppedKeys(p, t) \subseteq Removed(p, q) \cup {ManagedKey}
  BY KeysOfPatched DEF Removed, DroppedKeys, ManagedTemplateKeys
<1>4. Removed(p, q) \cap DOMAIN q = {}
  BY DEF Removed
<1> QED
  BY <1>1, <1>2, <1>3, <1>4

\* A merge patch brings the record up to date, whatever else has changed on the
\* Pod since it was listed.
LEMMA RecordOfMerged ==
    ASSUME NEW live, NEW p, NEW t,
           Lookup(p, ManagedKey) = Lookup(live, ManagedKey)
    PROVE  LET r == MergePatch(live, p, SetPodMetadata(p, t))
           IN  /\ Lookup(r, ManagedKey) = EncodeKeys(ManagedTemplateKeys(t))
               /\ DecodeKeys(Lookup(r, ManagedKey)) = ManagedTemplateKeys(t)
<1> DEFINE q == SetPodMetadata(p, t)
           r == MergePatch(live, p, q)
           record == EncodeKeys(ManagedTemplateKeys(t))
<1>1. ManagedKey \in DOMAIN q /\ q[ManagedKey] = record
  BY DEF SetPodMetadata
<1>2. ManagedKey \notin Removed(p, q)
  BY <1>1 DEF Removed
<1>3. CASE ManagedKey \in Written(p, q)
  BY <1>1, <1>3 DEF MergePatch, Lookup, DecodeKeys, EncodeKeys
<1>4. CASE ManagedKey \notin Written(p, q)
  <2>1. ManagedKey \in DOMAIN p /\ p[ManagedKey] = record
    BY <1>1, <1>4 DEF Written
  <2>2. Lookup(live, ManagedKey) = record
    BY <2>1 DEF Lookup
  <2>3. record # Plain(Empty)
    BY DEF EncodeKeys, Plain
  <2>4. ManagedKey \in DOMAIN live /\ live[ManagedKey] = record
    BY <2>2, <2>3 DEF Lookup
  <2> QED
    BY <2>4, <1>2, <1>4 DEF MergePatch, Lookup, DecodeKeys, EncodeKeys
<1> QED
  BY <1>3, <1>4

-----------------------------------------------------------------------------
\* The record stays complete, whatever templates, patches and foreign writes
\* follow each other.
LEMMA InvariantInductive == Spec => []IInv
<1>1. Init => IInv
  <2> SUFFICES ASSUME Init
               PROVE  IInv
    OBVIOUS
  <2>1. PICK D \in SUBSET TemplateKeys : template \in [D -> PlainValues]
    BY DEF Init, Templates
  <2>2. TemplateTyped
    BY <2>1 DEF TemplateTyped
  <2>3. DOMAIN pod \subseteq DOMAIN template \cup {ManagedKey}
    BY KeysOfPatched DEF Init
  <2>4. DecodeKeys(Lookup(pod, ManagedKey)) = DOMAIN template \ {ManagedKey}
    BY RecordOfPatched DEF Init, ManagedTemplateKeys
  <2> QED
    BY <2>2, <2>3, <2>4 DEF Init, IInv, RecordComplete, ListedBehind
<1>2. IInv /\ [Next]_vars => IInv'
  <2> SUFFICES ASSUME IInv, [Next]_vars
               PROVE  IInv'
    OBVIOUS
  <2>1. CASE EditTemplate
    <3>1. PICK D \in SUBSET TemplateKeys : template' \in [D -> PlainValues]
      BY <2>1 DEF EditTemplate, Templates
    <3>2. TemplateTyped'
      BY <3>1 DEF TemplateTyped
    <3> QED
      BY <2>1, <3>2 DEF EditTemplate, IInv, RecordComplete, ListedBehind
  <2>2. CASE PatchPod
    <3> DEFINE p == listed.pod
               t == listed.template
               q == SetPodMetadata(p, t)
    <3>1. /\ DOMAIN pod' = (DOMAIN pod \ Removed(p, q)) \cup Written(p, q)
          /\ foreign' = foreign \ (Written(p, q) \cup Removed(p, q))
          /\ pod' = MergePatch(pod, p, q)
      BY <2>2 DEF PatchPod, MergePatch
    <3>2. /\ Lookup(p, ManagedKey) = Lookup(pod, ManagedKey)
          /\ DOMAIN pod \ DOMAIN p \subseteq foreign
      BY <2>2 DEF PatchPod, IInv, ListedBehind
    <3>3. DecodeKeys(Lookup(pod', ManagedKey)) = DOMAIN t \ {ManagedKey}
      BY <3>1, <3>2, RecordOfMerged DEF ManagedTemplateKeys
    <3>4. ASSUME NEW k \in DOMAIN pod', k # ManagedKey, k \notin DOMAIN t
          PROVE  k \in foreign'
      <4>1. k \in DOMAIN pod /\ k \notin Removed(p, q) /\ k \notin Written(p, q)
        BY <3>1, <3>4, KeysOfPatch
      <4>2. CASE k \in DroppedKeys(p, t)
        BY <4>1, <4>2, <3>1, <3>2, <3>4, KeysOfPatch
      <4>3. CASE k \notin DroppedKeys(p, t)
        <5>1. k \notin DecodeKeys(Lookup(pod, ManagedKey))
          BY <4>3, <3>2, <3>4 DEF DroppedKeys, ManagedTemplateKeys
        <5> QED
          BY <4>1, <5>1, <3>1, <3>4 DEF IInv, RecordComplete
      <4> QED
        BY <4>2, <4>3
    <3>5. RecordComplete'
      BY <3>3, <3>4 DEF RecordComplete
    <3> QED
      BY <2>2, <3>5 DEF PatchPod, IInv, TemplateTyped, ListedBehind
  <2>3. ASSUME NEW k \in Keys, RemoveKey(k)
        PROVE  IInv'
    <3>1. DOMAIN pod' = DOMAIN pod \ {k} /\ foreign' = foreign \ {k}
      BY <2>3 DEF RemoveKey
    <3>2. Lookup(pod', ManagedKey) = Lookup(pod, ManagedKey)
      BY <2>3, KeysAssumption DEF RemoveKey, Lookup
    <3> QED
      BY <2>3, <3>1, <3>2 DEF RemoveKey, IInv, RecordComplete, TemplateTyped, ListedBehind
  <2>4. ASSUME NEW k \in Keys, NEW v \in Values, Inject(k, v)
        PROVE  IInv'
    <3>1. DOMAIN pod' = DOMAIN pod \cup {k} /\ foreign' = foreign \cup {k}
      BY <2>4 DEF Inject
    <3>2. Lookup(pod', ManagedKey) = Lookup(pod, ManagedKey)
      BY <2>4, KeysAssumption DEF Inject, Lookup
    <3> QED
      BY <2>4, <3>1, <3>2 DEF Inject, IInv, RecordComplete, TemplateTyped, ListedBehind
  <2>5. CASE ListPod
    BY <2>5 DEF ListPod, IInv, RecordComplete, TemplateTyped, ListedBehind
  <2>6. CASE PassPod
    BY <2>6 DEF PassPod, IInv, RecordComplete, TemplateTyped, ListedBehind
  <2>7. CASE UNCHANGED vars
    BY <2>7 DEF vars, IInv, RecordComplete, TemplateTyped, ListedBehind
  <2> QED
    BY <2>1, <2>2, <2>3, <2>4, <2>5, <2>6, <2>7 DEF Next
<1> QED
  BY <1>1, <1>2, PTL DEF Spec

-----------------------------------------------------------------------------
\* Template keys leave a Pod with the template: on a Pod that matches, every
\* other key was put there by another party.
THEOREM NoKeyLeftBehind == Spec => []NothingLeftBehind
<1>1. IInv => NothingLeftBehind
  BY RecordOfPatched
     DEF IInv, RecordComplete, NothingLeftBehind, PodMetadataMatches, DecodeKeys,
         EncodeKeys, ManagedTemplateKeys
<1> QED
  BY <1>1, InvariantInductive, PTL

\* One patch is enough: a patched Pod matches, unless another party wrote a key
\* of the template after the Pod was listed, and if no template uses the key of
\* the record.  Without the assumption such a Pod never matches.
THEOREM OnePatchSettles ==
    ASSUME ManagedKey \notin TemplateKeys
    PROVE  Spec => PatchSettles
<1> DEFINE Settles == PatchPod =>
              \/ PodMetadataMatches(pod', listed.template)
              \/ \E k \in DOMAIN listed.template : Lookup(pod, k) # Lookup(listed.pod, k)
<1>1. ASSUME IInv PROVE Settles
  <2> DEFINE p == listed.pod
             t == listed.template
             q == SetPodMetadata(p, t)
  <2> SUFFICES ASSUME PatchPod,
                      \A k \in DOMAIN t : Lookup(pod, k) = Lookup(p, k)
               PROVE  PodMetadataMatches(pod', t)
    OBVIOUS
  <2>1. /\ Lookup(p, ManagedKey) = Lookup(pod, ManagedKey)
        /\ ManagedKey \notin DOMAIN t
        /\ pod' = MergePatch(pod, p, q)
    BY <1>1 DEF PatchPod, IInv, ListedBehind
  <2>2. ASSUME NEW k \in DOMAIN t
        PROVE  Lookup(pod', k) = t[k]
    <3>1. k \in DOMAIN q /\ q[k] = t[k]
      <4>1. k \in DOMAIN q /\ k # ManagedKey
        BY <2>1, KeysOfPatched
      <4> QED
        BY <4>1, ValuesOfPatched
    <3>2. k \notin Removed(p, q)
      BY <3>1 DEF Removed
    <3>3. CASE k \in Written(p, q)
      BY <2>1, <3>1, <3>3 DEF MergePatch, Lookup
    <3>4. CASE k \notin Written(p, q)
      <4>1. Lookup(pod, k) = t[k]
        BY <3>1, <3>4 DEF Written, Lookup
      <4>2. Lookup(pod', k) = Lookup(pod, k)
        BY <2>1, <3>2, <3>4 DEF MergePatch, Lookup
      <4> QED
        BY <4>1, <4>2
    <3> QED
      BY <3>3, <3>4
  <2>3. /\ Lookup(pod', ManagedKey) = EncodeKeys(ManagedTemplateKeys(t))
        /\ DecodeKeys(Lookup(pod', ManagedKey)) = ManagedTemplateKeys(t)
    BY <2>1, RecordOfMerged
  <2>4. DroppedKeys(pod', t) = {}
    BY <2>3 DEF DroppedKeys
  <2> QED
    BY <2>2, <2>3, <2>4 DEF PodMetadataMatches
<1>2. IInv /\ [Next]_vars => [Settles]_vars
  BY <1>1
<1> QED
  BY <1>2, InvariantInductive, PTL DEF Spec, PatchSettles

\* A patch never touches a key of another party, also one written after the Pod
\* was listed.
THEOREM ForeignKeysAreKept == Spec => ForeignKeysKept
<1> DEFINE Kept == PatchPod =>
                      \A k \in DOMAIN pod \ (DOMAIN listed.template \cup {ManagedKey}) :
                         k \notin DecodeKeys(Lookup(pod, ManagedKey))
                         => k \in DOMAIN pod' /\ pod'[k] = pod[k]
<1>1. ASSUME IInv PROVE Kept
  <2> DEFINE p == listed.pod
             q == SetPodMetadata(p, listed.template)
  <2> SUFFICES ASSUME PatchPod,
                      NEW k \in DOMAIN pod \ (DOMAIN listed.template \cup {ManagedKey}),
                      k \notin DecodeKeys(Lookup(pod, ManagedKey))
               PROVE  k \in DOMAIN pod' /\ pod'[k] = pod[k]
    OBVIOUS
  <2>1. /\ Lookup(p, ManagedKey) = Lookup(pod, ManagedKey)
        /\ pod' = MergePatch(pod, p, q)
    BY <1>1 DEF PatchPod, IInv, ListedBehind
  <2>2. k \notin DroppedKeys(p, listed.template)
    BY <2>1 DEF DroppedKeys
  <2>3. k \notin Written(p, q) /\ k \notin Removed(p, q)
    BY <2>2, KeysOfPatch
  <2> QED
    BY <2>1, <2>3 DEF MergePatch
<1>2. IInv /\ [Next]_vars => [Kept]_vars
  BY <1>1
<1> QED
  BY <1>2, InvariantInductive, PTL DEF Spec, ForeignKeysKept
=============================================================================
