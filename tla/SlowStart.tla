----------------------------- MODULE SlowStart -----------------------------
(***************************************************************************)
(* SlowStartBatch, with which a ReplicaSet reconcile creates Pods: the     *)
(* calls of a batch run concurrently, the next batch is twice as large,    *)
(* and a batch with a failed call is the last one.                         *)
(***************************************************************************)
EXTENDS Integers

CONSTANTS
    InitialBatchSize,   \* SlowStartInitialBatchSize, 1 in the code
    MaxCount            \* bound: number of calls asked for, BurstReplicas in the code

ASSUME InitialAssumption == InitialBatchSize \in Nat \ {0}
ASSUME CountAssumption   == MaxCount \in Nat

VARIABLES
    pc,         \* "loop": between batches; "batch": calls running; "done"
    count,      \* the argument
    remaining,
    batchSize,
    running,    \* calls of the batch that have not returned
    good, bad,  \* calls of the batch that returned without and with an error
    successes,  \* the first result
    err         \* the second result

vars == <<pc, count, remaining, batchSize, running, good, bad, successes, err>>

Smaller(x, y) == IF x <= y THEN x ELSE y

Init ==
    /\ pc = "loop"
    /\ count \in 0..MaxCount
    /\ remaining = count
    /\ batchSize = Smaller(count, InitialBatchSize)
    /\ running = 0 /\ good = 0 /\ bad = 0
    /\ successes = 0
    /\ err = FALSE

\* Mutant: an empty batch does not end the loop.
StartBatch_Endless ==
    /\ pc = "loop" /\ pc' = "batch"
    /\ running' = batchSize
    /\ good' = 0 /\ bad' = 0
    /\ UNCHANGED <<count, remaining, batchSize, successes, err>>

StartBatch ==
    /\ pc = "loop"
    /\ pc' = IF batchSize > 0 THEN "batch" ELSE "done"
    /\ running' = batchSize
    /\ good' = 0 /\ bad' = 0
    /\ UNCHANGED <<count, remaining, batchSize, successes, err>>

CallReturns ==
    /\ pc = "batch" /\ running > 0
    /\ running' = running - 1
    /\ \/ good' = good + 1 /\ bad' = bad
       \/ bad' = bad + 1 /\ good' = good
    /\ UNCHANGED <<pc, count, remaining, batchSize, successes, err>>

\* The end of a batch without a failed call, up to the size of the next one.
AfterGoodBatch(next) ==
    /\ pc' = "loop" /\ err' = FALSE
    /\ remaining' = remaining - batchSize
    /\ batchSize' = next

\* Mutant: a failed call does not stop the batches from growing.
EndBatch_KeepsGoing ==
    /\ pc = "batch" /\ running = 0
    /\ successes' = successes + good
    /\ pc' = "loop"
    /\ remaining' = remaining - good
    /\ batchSize' = Smaller(2 * batchSize, remaining - good)
    /\ UNCHANGED <<count, running, good, bad, err>>

\* Mutant: the next batch is not cut off at the remaining count.
EndBatch_Overshoots ==
    /\ pc = "batch" /\ running = 0
    /\ successes' = successes + good
    /\ IF bad > 0
       THEN pc' = "done" /\ err' = TRUE /\ UNCHANGED <<remaining, batchSize>>
       ELSE AfterGoodBatch(2 * batchSize)
    /\ UNCHANGED <<count, running, good, bad>>

\* Mutant: the error of a failed call is lost.
EndBatch_SwallowsError ==
    /\ pc = "batch" /\ running = 0
    /\ successes' = successes + good
    /\ IF bad > 0
       THEN pc' = "done" /\ UNCHANGED <<remaining, batchSize, err>>
       ELSE AfterGoodBatch(Smaller(2 * batchSize, remaining - batchSize))
    /\ UNCHANGED <<count, running, good, bad>>

EndBatch ==
    /\ pc = "batch" /\ running = 0
    /\ successes' = successes + good
    /\ IF bad > 0
       THEN pc' = "done" /\ err' = TRUE /\ UNCHANGED <<remaining, batchSize>>
       ELSE AfterGoodBatch(Smaller(2 * batchSize, remaining - batchSize))
    /\ UNCHANGED <<count, running, good, bad>>

Done == pc = "done" /\ UNCHANGED vars

Next == StartBatch \/ CallReturns \/ EndBatch \/ Done

Spec == Init /\ [][Next]_vars /\ WF_vars(StartBatch \/ CallReturns \/ EndBatch)

-----------------------------------------------------------------------------
TypeOK ==
    /\ pc \in {"loop", "batch", "done"}
    /\ count \in Nat /\ remaining \in Nat /\ batchSize \in Nat
    /\ running \in Nat /\ good \in Nat /\ bad \in Nat /\ successes \in Nat
    /\ err \in BOOLEAN

\* Of the current batch: calls the result does not count yet.
Pending == IF pc = "batch" THEN running + good ELSE 0

\* Never more Pods than asked for, even if every running call succeeds.
NeverTooMany == successes + Pending <= count

\* A first failure is paid for with at most as many failed calls as there were
\* successful ones before the batch, plus the initial batch: the point of a
\* slow start.
FailuresBounded ==
    pc = "batch" => running + good + bad <= successes + InitialBatchSize

\* A return without an error means that all calls were made and succeeded, so
\* that reconcileReplicas may report a change without counting.
ResultIsExact == pc = "done" /\ ~err => successes = count

\* The loop ends: the batch size does not stay positive for ever.
Terminates == <>(pc = "done")
=============================================================================
