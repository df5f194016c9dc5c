-------------------------- MODULE SlowStartProofs --------------------------
(***************************************************************************)
(* SlowStartBatch for every count and every initial batch size.            *)
(***************************************************************************)
EXTENDS SlowStart, TLAPS

(***************************************************************************)
(* The inductive invariant: until an error, remaining and successes add up *)
(* to the count; a batch fits into what remains and is at most as large as *)
(* everything before it plus the initial batch; its calls are accounted    *)
(* for; and a batch is empty only when nothing remains.                    *)
(***************************************************************************)
Accounting ==
    /\ pc \in {"loop", "batch"} => ~err
    /\ ~err => remaining + successes = count
    /\ err => successes <= count
    /\ pc \in {"loop", "batch"} => /\ batchSize <= remaining
                                   /\ batchSize <= successes + InitialBatchSize
    /\ pc = "loop" /\ batchSize = 0 => remaining = 0
    /\ pc = "batch" => batchSize > 0 /\ batchSize = running + good + bad
    /\ pc = "done" /\ ~err => remaining = 0

IInv == TypeOK /\ Accounting

\* The invariant holds initially and is preserved by every step.
LEMMA InvariantInductive == Spec => []IInv
<1>1. Init => IInv
  <2> SUFFICES ASSUME Init
               PROVE  IInv
    OBVIOUS
  <2>1. /\ count \in Nat /\ batchSize \in Nat
        /\ batchSize <= count /\ batchSize <= InitialBatchSize
        /\ batchSize = 0 => count = 0
    BY InitialAssumption, CountAssumption DEF Init, Smaller
  <2>2. ~err /\ err \in BOOLEAN
    BY DEF Init
  <2>3. /\ pc = "loop" /\ remaining = count /\ successes = 0
        /\ running = 0 /\ good = 0 /\ bad = 0
    BY DEF Init
  <2> QED
    BY <2>1, <2>2, <2>3, InitialAssumption DEF IInv, TypeOK, Accounting
<1>2. IInv /\ [Next]_vars => IInv'
  <2> SUFFICES ASSUME IInv, [Next]_vars
               PROVE  IInv'
    OBVIOUS
  <2> USE InitialAssumption DEF IInv, TypeOK, Accounting
  <2>1. CASE StartBatch
    BY <2>1 DEF StartBatch
  <2>2. CASE CallReturns
    BY <2>2 DEF CallReturns
  <2>3. CASE EndBatch
    <3>1. CASE bad > 0
      BY <2>3, <3>1 DEF EndBatch
    <3>2. CASE ~(bad > 0)
      <4>1. ~err'
        BY <2>3, <3>2 DEF EndBatch, AfterGoodBatch
      <4>2. /\ batchSize <= remaining
            /\ batchSize <= successes + InitialBatchSize
            /\ batchSize = good /\ bad = 0 /\ batchSize > 0
            /\ remaining + successes = count
        BY <2>3, <3>2 DEF EndBatch
      <4>3. /\ pc' = "loop" /\ count' = count
            /\ remaining' = remaining - batchSize
            /\ successes' = successes + batchSize
            /\ batchSize' = Smaller(2 * batchSize, remaining - batchSize)
            /\ running' = running /\ good' = good /\ bad' = bad
        BY <2>3, <3>2, <4>2 DEF EndBatch, AfterGoodBatch
      <4>4. err' \in BOOLEAN
        BY <2>3, <3>2 DEF EndBatch, AfterGoodBatch
      <4> QED
        BY <4>1, <4>2, <4>3, <4>4 DEF Smaller
    <3> QED
      BY <3>1, <3>2
  <2>4. CASE Done \/ UNCHANGED vars
    BY <2>4 DEF Done, vars
  <2> QED
    BY <2>1, <2>2, <2>3, <2>4 DEF Next
<1> QED
  BY <1>1, <1>2, PTL DEF Spec

\* Whatever calls fail, SlowStartBatch never makes more Pods than the count it
\* was given, even if every call still running succeeds.
THEOREM CountRespected == Spec => []NeverTooMany
<1>1. IInv => NeverTooMany
  BY DEF IInv, TypeOK, Accounting, NeverTooMany, Pending
<1> QED
  BY <1>1, InvariantInductive, PTL

\* The calls of a batch never outnumber the successful calls before it by more
\* than the initial batch, which bounds the calls that fail.
THEOREM FailuresAreBounded == Spec => []FailuresBounded
<1>1. IInv => FailuresBounded
  BY DEF IInv, TypeOK, Accounting, FailuresBounded
<1> QED
  BY <1>1, InvariantInductive, PTL

\* A return without an error means that exactly count calls succeeded.
THEOREM ResultExact == Spec => []ResultIsExact
<1>1. IInv => ResultIsExact
  BY DEF IInv, TypeOK, Accounting, ResultIsExact
<1> QED
  BY <1>1, InvariantInductive, PTL
=============================================================================
