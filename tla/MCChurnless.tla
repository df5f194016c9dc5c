---------------------------- MODULE MCChurnless ----------------------------
(***************************************************************************)
(* Values for the constants of Churnless.                                  *)
(***************************************************************************)
EXTENDS Churnless, TLC

CONSTANTS s1, s2, a, b, c, p1, p2, p3, p4

Nothing == {}
ApiFaults == {"api"}
AnyFault == {"api", "evict"}
OneStructure == {s1}
TwoStructures == {s1, s2}

OneRevision == {a}
TwoRevisions == {a, b}
SecondImage == {b}
ThreeRevisions == {a, b, c}

\* Every revision has an image of its own.
OwnImage == [r \in Revisions |-> r]

TwoPods == {p1, p2}
ThreePods == {p1, p2, p3}
FourPods == {p1, p2, p3, p4}

\* Any order, or the order of the names.
AnyOrder == [p \in PodIds |-> 0]
NameOrder == [p \in PodIds |-> CHOOSE n \in 1..4 : <<p1, p2, p3, p4>>[n] = p]

Single == {1}
NoneOrOne == {0, 1}
Pair == {2}
Running == {FALSE}
MayPause == BOOLEAN

Number(n)  == [pct |-> FALSE, val |-> n]
Percent(n) == [pct |-> TRUE, val |-> n]
Rolling(surge, unavailable) ==
    [recreate |-> FALSE, surge |-> surge, unavailable |-> unavailable]
RecreateStrategy == [Rolling(Percent(25), Percent(25)) EXCEPT !.recreate = TRUE]

\* A surge of one, one unavailable, and the default 25% of both.
SurgeOne       == Rolling(Number(1), Number(0))
UnavailableOne == Rolling(Number(0), Number(1))
Default        == Rolling(Percent(25), Percent(25))

OnlyUnavailable   == {UnavailableOne}
OnlyDefault       == {Default}
OnlyRecreate      == {RecreateStrategy}
ThreeStrategies   == {SurgeOne, UnavailableOne, RecreateStrategy}
EveryStrategy     == {UnavailableOne, Default, RecreateStrategy}

RevisionSymmetry == Permutations(Revisions)
PodSymmetry == Permutations(PodIds)
Symmetry == Permutations(PodIds) \cup Permutations(Structures)
=============================================================================
