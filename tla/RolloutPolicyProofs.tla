------------------------ MODULE RolloutPolicyProofs ------------------------
(***************************************************************************)
(* Facts about the rollout arithmetic, for every set of ReplicaSets, every *)
(* replica count and every pair of fenceposts.                             *)
(***************************************************************************)
EXTENDS RolloutPolicy, FiniteSetTheorems, TLAPS

-----------------------------------------------------------------------------
(***************************************************************************)
(* Sums.                                                                   *)
(***************************************************************************)
\* The slots of a finite set of natural numbers are finitely many.
LEMMA SlotsFinite ==
    ASSUME NEW S, IsFiniteSet(S), NEW f, \A s \in S : f[s] \in Nat
    PROVE  IsFiniteSet(Slots(f, S))
<1> DEFINE g == [s \in S |-> {s} \X (1..f[s])]
           T == {{s} \X (1..f[s]) : s \in S}
<1>1. g \in Surjection(S, T)
  BY DEF Surjection
<1>2. IsFiniteSet(T)
  BY <1>1, FS_Surjection
<1>3. ASSUME NEW X \in T
      PROVE  IsFiniteSet(X)
  <2>1. PICK s \in S : X = {s} \X (1..f[s])
    OBVIOUS
  <2>2. IsFiniteSet({s})
    BY FS_Singleton
  <2>3. f[s] \in Int
    OBVIOUS
  <2>4. IsFiniteSet(1..f[s])
    BY <2>3, FS_Interval
  <2> QED
    BY <2>1, <2>2, <2>4, FS_Product
<1> QED
  BY <1>2, <1>3, FS_UNION DEF Slots

\* A sum is a natural number.
LEMMA TotalType ==
    ASSUME NEW S, IsFiniteSet(S), NEW f, \A s \in S : f[s] \in Nat
    PROVE  Total(f, S) \in Nat
  BY SlotsFinite, FS_CardinalityType DEF Total

\* A sum depends only on the values that are added.
LEMMA TotalSame ==
    ASSUME NEW S, NEW f, NEW g, \A s \in S : f[s] = g[s]
    PROVE  Total(f, S) = Total(g, S)
<1>1. Slots(f, S) = Slots(g, S)
  BY DEF Slots
<1> QED
  BY <1>1 DEF Total

\* One term can be taken out of a sum.
LEMMA TotalSplit ==
    ASSUME NEW S, IsFiniteSet(S), NEW f, \A s \in S : f[s] \in Nat, NEW r \in S
    PROVE  Total(f, S) = f[r] + Total(f, S \ {r})
<1> DEFINE own == {r} \X (1..f[r])
<1>1. Slots(f, S) = own \cup Slots(f, S \ {r})
  BY DEF Slots
<1>2. own \cap Slots(f, S \ {r}) = {}
  BY DEF Slots
<1>3. IsFiniteSet(own) /\ Cardinality(own) = f[r]
  <2>1. IsFiniteSet({r}) /\ Cardinality({r}) = 1
    BY FS_Singleton
  <2>2. IsFiniteSet(1..f[r]) /\ Cardinality(1..f[r]) = f[r]
    BY FS_Interval
  <2> QED
    BY <2>1, <2>2, FS_Product
<1>4. IsFiniteSet(Slots(f, S \ {r}))
  BY SlotsFinite, FS_Difference
<1>5. Cardinality(own \cup Slots(f, S \ {r}))
        = Cardinality(own) + Cardinality(Slots(f, S \ {r}))
          - Cardinality(own \cap Slots(f, S \ {r}))
  BY <1>3, <1>4, FS_Union
<1>6. Cardinality(own \cap Slots(f, S \ {r})) = 0
  BY <1>2, FS_EmptySet
<1>7. Cardinality(Slots(f, S \ {r})) \in Nat
  BY <1>4, FS_CardinalityType
<1> HIDE DEF own
<1> QED
  BY <1>1, <1>3, <1>5, <1>6, <1>7 DEF Total

\* Only zeros add up to zero.
LEMMA TotalZero ==
    ASSUME NEW S, IsFiniteSet(S), NEW f, \A s \in S : f[s] \in Nat,
           Total(f, S) = 0, NEW r \in S
    PROVE  f[r] = 0
<1>1. Total(f, S \ {r}) \in Nat
  BY TotalType, FS_Difference
<1> QED
  BY <1>1, TotalSplit

\* Zeros add up to zero.
LEMMA ZeroTotal ==
    ASSUME NEW S, NEW f, \A s \in S : f[s] = 0
    PROVE  Total(f, S) = 0
<1>1. Slots(f, S) = {}
  BY DEF Slots
<1> QED
  BY <1>1, FS_EmptySet DEF Total

\* Larger terms give a larger sum.
LEMMA TotalMono ==
    ASSUME NEW S, IsFiniteSet(S), NEW f, NEW g,
           \A s \in S : f[s] \in Nat /\ g[s] \in Nat /\ f[s] <= g[s]
    PROVE  Total(f, S) <= Total(g, S)
<1>1. \A s \in S : 1..f[s] \subseteq 1..g[s]
  OBVIOUS
<1>2. Slots(f, S) \subseteq Slots(g, S)
  BY <1>1 DEF Slots
<1>3. IsFiniteSet(Slots(g, S))
  BY SlotsFinite
<1> QED
  BY <1>2, <1>3, FS_Subset DEF Total

\* When every term counts elements of its own, the sum counts elements of the whole.
LEMMA TotalFits ==
    ASSUME NEW S, NEW f, \A s \in S : f[s] \in Nat,
           NEW P, IsFiniteSet(P), NEW R \in [S -> SUBSET P],
           \A s, t \in S : s # t => R[s] \cap R[t] = {},
           \A s \in S : f[s] <= Cardinality(R[s])
    PROVE  Total(f, S) <= Cardinality(P)
<1>1. ASSUME NEW s \in S
      PROVE  \E g \in [1..f[s] -> R[s]] : \A i, j \in 1..f[s] : g[i] = g[j] => i = j
  <2>1. IsFiniteSet(R[s])
    BY FS_Subset
  <2>2. Cardinality(R[s]) \in Nat /\ ExistsBijection(1..Cardinality(R[s]), R[s])
    BY <2>1, FS_CardinalityType
  <2>3. PICK b \in [1..Cardinality(R[s]) -> R[s]] :
           \A i, j \in 1..Cardinality(R[s]) : b[i] = b[j] => i = j
    BY <2>2 DEF ExistsBijection, Bijection, Injection, IsInjective
  <2>4. 1..f[s] \subseteq 1..Cardinality(R[s])
    BY <2>2
  <2> DEFINE g == [i \in 1..f[s] |-> b[i]]
  <2>5. g \in [1..f[s] -> R[s]] /\ \A i, j \in 1..f[s] : g[i] = g[j] => i = j
    BY <2>3, <2>4
  <2> QED
    BY <2>5
<1> DEFINE G(s) == CHOOSE g \in [1..f[s] -> R[s]] : \A i, j \in 1..f[s] : g[i] = g[j] => i = j
           h == [x \in Slots(f, S) |-> G(x[1])[x[2]]]
<1>2. \A s \in S : /\ G(s) \in [1..f[s] -> R[s]]
                   /\ \A i, j \in 1..f[s] : G(s)[i] = G(s)[j] => i = j
  BY <1>1
<1> HIDE DEF G
<1>3. \A x \in Slots(f, S) : /\ x[1] \in S /\ x[2] \in 1..f[x[1]] /\ x = <<x[1], x[2]>>
                             /\ h[x] = G(x[1])[x[2]] /\ h[x] \in R[x[1]]
  BY <1>2 DEF Slots
<1>4. h \in [Slots(f, S) -> P]
  BY <1>3
<1>5. ASSUME NEW x \in Slots(f, S), NEW y \in Slots(f, S), h[x] = h[y]
      PROVE  x = y
  <2>1. x[1] = y[1]
    BY <1>3, <1>5
  <2> QED
    BY <1>2, <1>3, <1>5, <2>1
<1>6. h \in Injection(Slots(f, S), P)
  BY <1>4, <1>5 DEF Injection, IsInjective
<1> QED
  BY <1>6, FS_Injection DEF Total

-----------------------------------------------------------------------------
(***************************************************************************)
(* Fenceposts and budgets.  A view is typed when every counter in it is a  *)
(* natural number.                                                         *)
(***************************************************************************)
ViewOK(view) ==
    \A s \in Structures : view[s].replicas \in Nat /\ view[s].status.available \in Nat

\* Resolved fenceposts are natural numbers, and never both zero.
LEMMA FencepostsType ==
    ASSUME NEW strategy \in Strategy, NEW n \in Nat
    PROVE  LET f == ResolveFenceposts(strategy, n)
           IN  /\ f.surge \in Nat /\ f.unavailable \in Nat
               /\ f.surge + f.unavailable > 0
<1>1. \A v \in Nat : v * n \in Nat
  OBVIOUS
<1>2. \A x \in Nat : x \div 100 \in Nat
  OBVIOUS
<1>3. /\ strategy.surge \in Fencepost
      /\ strategy.unavailable \in Fencepost
  BY DEF Strategy
<1>4. \A v \in Fencepost : RoundUp(v, n) \in Nat /\ RoundDown(v, n) \in Nat
  <2> SUFFICES ASSUME NEW v \in Fencepost
               PROVE  RoundUp(v, n) \in Nat /\ RoundDown(v, n) \in Nat
    OBVIOUS
  <2>1. v.val \in Nat
    BY DEF Fencepost
  <2>2. v.val * n \in Nat /\ v.val * n + 99 \in Nat
    BY <1>1, <2>1
  <2> QED
    BY <1>2, <2>1, <2>2 DEF RoundUp, RoundDown
<1> QED
  BY <1>3, <1>4 DEF ResolveFenceposts

\* The limits of a rolling update are natural numbers.
LEMMA LimitsType ==
    ASSUME NEW strategy \in Strategy, NEW n \in Nat
    PROVE  /\ RollingLimits(strategy, n).surge \in Nat
           /\ RollingLimits(strategy, n).unavailable \in Nat
  BY FencepostsType DEF RollingLimits, Min2

\* The sums over a typed view are natural numbers.
LEMMA SumsType ==
    ASSUME IsFiniteSet(Structures), NEW view, ViewOK(view), NEW cur
    PROVE  /\ TotalReplicaSpec(view) \in Nat
           /\ TotalAvailableReplicas(view) \in Nat
           /\ TotalOldReplicas(cur, view) \in Nat
<1> DEFINE r == [s \in Structures |-> view[s].replicas]
           m == [s \in Structures |-> Min2(view[s].status.available, view[s].replicas)]
<1>1. \A s \in Structures : r[s] \in Nat /\ m[s] \in Nat
  BY DEF ViewOK, Min2
<1>2. IsFiniteSet(Structures \ {cur})
  BY FS_Difference
<1>3. Total(r, Structures) \in Nat /\ Total(m, Structures) \in Nat
  BY <1>1, TotalType
<1>4. Total(r, Structures \ {cur}) \in Nat
  BY <1>1, <1>2, TotalType
<1> QED
  BY <1>3, <1>4 DEF TotalReplicaSpec, TotalAvailableReplicas, TotalOldReplicas

\* The replicas of the current ReplicaSet and of the old ones are all replicas.
LEMMA SpecSplit ==
    ASSUME IsFiniteSet(Structures), NEW view, ViewOK(view), NEW cur \in Structures
    PROVE  TotalReplicaSpec(view) = view[cur].replicas + TotalOldReplicas(cur, view)
<1> DEFINE r == [s \in Structures |-> view[s].replicas]
<1>1. \A s \in Structures : r[s] \in Nat
  BY DEF ViewOK
<1>2. Total(r, Structures) = r[cur] + Total(r, Structures \ {cur})
  BY <1>1, TotalSplit
<1> QED
  BY <1>2 DEF TotalReplicaSpec, TotalOldReplicas

\* Changing one ReplicaSet changes the available replicas by what it counts for.
LEMMA AvailableSplit ==
    ASSUME IsFiniteSet(Structures), NEW view, NEW next, ViewOK(view), ViewOK(next),
           NEW r \in Structures, \A s \in Structures \ {r} : next[s] = view[s]
    PROVE  LET count(v) == Min2(v[r].status.available, v[r].replicas)
           IN  /\ count(view) \in Nat /\ count(view) <= TotalAvailableReplicas(view)
               /\ count(next) \in Nat /\ count(next) <= TotalAvailableReplicas(next)
               /\ TotalAvailableReplicas(next) - count(next)
                    = TotalAvailableReplicas(view) - count(view)
<1> DEFINE f == [s \in Structures |-> Min2(view[s].status.available, view[s].replicas)]
           g == [s \in Structures |-> Min2(next[s].status.available, next[s].replicas)]
           rest == Structures \ {r}
<1>1. \A s \in Structures : f[s] \in Nat /\ g[s] \in Nat
  BY DEF ViewOK, Min2
<1>2. /\ TotalAvailableReplicas(view) = Total(f, Structures)
      /\ TotalAvailableReplicas(next) = Total(g, Structures)
  BY DEF TotalAvailableReplicas
<1>3. \A s \in rest : f[s] = g[s]
  OBVIOUS
<1>4. /\ f[r] = Min2(view[r].status.available, view[r].replicas)
      /\ g[r] = Min2(next[r].status.available, next[r].replicas)
  OBVIOUS
<1> HIDE DEF f, g
<1>5. Total(f, Structures) = f[r] + Total(f, rest) /\ Total(g, Structures) = g[r] + Total(g, rest)
  BY <1>1, TotalSplit
<1>6. Total(f, rest) = Total(g, rest)
  BY <1>3, TotalSame
<1>7. Total(f, rest) \in Nat
  BY <1>1, FS_Difference, TotalType
<1> QED
  BY <1>1, <1>2, <1>4, <1>5, <1>6, <1>7

\* More available and more wanted replicas are not fewer in total.
LEMMA AvailableMono ==
    ASSUME IsFiniteSet(Structures), NEW view, NEW next, ViewOK(view), ViewOK(next),
           \A s \in Structures : Min2(view[s].status.available, view[s].replicas)
                                   <= Min2(next[s].status.available, next[s].replicas)
    PROVE  TotalAvailableReplicas(view) <= TotalAvailableReplicas(next)
<1> DEFINE f == [s \in Structures |-> Min2(view[s].status.available, view[s].replicas)]
           g == [s \in Structures |-> Min2(next[s].status.available, next[s].replicas)]
<1>1. \A s \in Structures : f[s] \in Nat /\ g[s] \in Nat /\ f[s] <= g[s]
  <2>1. \A s \in Structures : f[s] \in Nat /\ g[s] \in Nat
    BY DEF ViewOK, Min2
  <2>2. \A s \in Structures : f[s] <= g[s]
    OBVIOUS
  <2> QED
    BY <2>1, <2>2
<1> HIDE DEF f, g
<1>2. Total(f, Structures) <= Total(g, Structures)
  BY <1>1, TotalMono
<1> QED
  BY <1>2 DEF TotalAvailableReplicas, f, g

\* deploymentParallelism returns no negative budget.
LEMMA ParallelismType ==
    ASSUME IsFiniteSet(Structures), NEW view, ViewOK(view),
           NEW strategy \in Strategy, NEW desired \in Nat
    PROVE  DeploymentParallelism(strategy, desired, view) \in Nat
<1>1. TotalAvailableReplicas(view) \in Nat
  BY SumsType
<1>2. ResolveFenceposts(strategy, desired).unavailable \in Nat
  BY FencepostsType
<1> QED
  BY <1>1, <1>2 DEF DeploymentParallelism, Max2

-----------------------------------------------------------------------------
(***************************************************************************)
(* One rollout decision.                                                   *)
(***************************************************************************)
LimitsOK(lim) == lim.surge \in Nat /\ lim.unavailable \in Nat

\* A decrease takes at most what there is.
LEMMA DecreaseBounds ==
    ASSUME IsFiniteSet(Structures), NEW view, ViewOK(view), NEW desired \in Nat,
           NEW lim, LimitsOK(lim), NEW cur \in Structures, NEW old \in Structures
    PROVE  Decrease(desired, lim, cur, old, view) \in 0..view[old].replicas
<1>1. TotalReplicaSpec(view) \in Nat /\ TotalAvailableReplicas(view) \in Nat
  BY SumsType
<1>2. /\ view[old].replicas \in Nat /\ view[old].status.available \in Nat
      /\ view[cur].replicas \in Nat
  BY DEF ViewOK
<1> QED
  BY <1>1, <1>2 DEF Decrease, LimitsOK, Min2, Max2

\* Every scale patch of the rolling update names an existing ReplicaSet or the
\* current one and a natural number, and one that scales up keeps all replicas
\* together within desired + maxSurge.
LEMMA RollingWithinSurge ==
    ASSUME IsFiniteSet(Structures), NEW view, ViewOK(view), NEW desired \in Nat,
           NEW lim, LimitsOK(lim), NEW cur \in Structures,
           NEW c \in RollingChoices(desired, lim, cur, view)
    PROVE  /\ c.rs \in Structures /\ c.n \in Nat
           /\ c.rs = cur \/ view[c.rs].replicas > 0
           /\ c.n > view[c.rs].replicas
              => c.n + TotalOldReplicas(c.rs, view) <= desired + lim.surge
<1> DEFINE up  == [rs |-> cur, n |-> view[cur].replicas + ScaleUp(desired, lim, cur, view)]
           fit == [rs |-> cur, n |-> desired]
           total == TotalReplicaSpec(view)
           old   == TotalOldReplicas(cur, view)
           mine  == view[cur].replicas
<1>1. /\ total \in Nat /\ old \in Nat /\ mine \in Nat /\ lim.surge \in Nat
      /\ total = mine + old
  BY SumsType, SpecSplit DEF ViewOK, LimitsOK
<1>2. CASE mine < desired /\ total < desired + lim.surge /\ c = up
  <2>1. c.rs = cur /\ c.n = mine + ScaleUp(desired, lim, cur, view)
    BY <1>2
  <2>2. ScaleUp(desired, lim, cur, view) = Min2(desired - mine, desired + lim.surge - total)
    BY DEF ScaleUp
  <2> HIDE DEF up, total, old, mine
  <2>3. c.n \in Nat /\ c.n + old <= desired + lim.surge
    BY <1>1, <1>2, <2>1, <2>2 DEF Min2
  <2> QED
    BY <2>1, <2>3 DEF old
<1>3. CASE c \in ScaleDowns(desired, lim, cur, view)
  <2>1. PICK s \in Structures :
           /\ view[s].replicas > 0
           /\ Decrease(desired, lim, cur, s, view) > 0
           /\ c = [rs |-> s, n |-> view[s].replicas - Decrease(desired, lim, cur, s, view)]
    BY <1>3 DEF ScaleDowns
  <2>2. Decrease(desired, lim, cur, s, view) \in 0..view[s].replicas
    BY DecreaseBounds
  <2>3. view[s].replicas \in Nat
    BY DEF ViewOK
  <2>4. c.rs = s /\ c.n \in Nat /\ c.n < view[s].replicas
    BY <2>1, <2>2, <2>3
  <2> QED
    BY <2>1, <2>3, <2>4
<1>4. CASE old = 0 /\ c = fit
  <2>1. c.rs = cur /\ c.n = desired
    BY <1>4
  <2> QED
    BY <1>1, <1>4, <2>1
<1> QED
  BY <1>2, <1>3, <1>4 DEF RollingChoices

=============================================================================
