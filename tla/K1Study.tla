------------------------------- MODULE K1Study -------------------------------
(***************************************************************************)
(* The two K=1 evaluations of one checkpoint, which write their files side *)
(* by side, and the table that is made of them at any time.                *)
(* eval_deepfool_k1.py compares its batches with the masks that            *)
(* eval_cw_survivors.py has left so far.                                   *)
(***************************************************************************)
EXTENDS ExhaustiveEvaluation

CONSTANTS CaptureLimits, MaxCaptures

VARIABLES result, cpc, startBatch, done, attackedBatches, cwMasks, climit,
          summary, captures

C == INSTANCE SurvivorCapture WITH Attackable <- [b \in Batches |-> Clean[b] > 0]

captureOnly == <<result, cpc, startBatch, done, attackedBatches, cwMasks, climit,
                 summary, captures>>

StudyInit == Init /\ C!CaptureInit

\* One script runs at a time, as the study does them.
StudyNext ==
  \/ pc = "idle" /\ C!Capture /\ UNCHANGED vars
  \/ cpc = "idle" /\ Next /\ UNCHANGED <<captureOnly, cw>>

StudySpec == StudyInit /\ [][StudyNext]_<<vars, captureOnly, cw>>

-----------------------------------------------------------------------------
(* consolidated_canonical_table.py.                                        *)

KnownTotal == SumOver(LAMBDA b : Sizes[b], Batches)

\* Mutant: the table divides by what the run has counted so far.
RowOfCounted == [clean |-> <<json.agg.attacked, json.agg.total>>,
                 of_attacked |-> <<json.agg.k1, json.agg.attacked>>,
                 of_total |-> <<json.agg.k1, json.agg.total>>]

\* load_exhaustive takes any file that parses, finished or not; shares are
\* pairs of whole numbers here.
Row == [clean |-> <<json.agg.attacked, KnownTotal>>,
        of_attacked |-> <<json.agg.k1, json.agg.attacked>>,
        of_total |-> <<json.agg.k1, KnownTotal>>]

Correct == SumOver(LAMBDA b : Clean[b], Batches)
Robust  == SumOver(LAMBDA b : Surviving[b], Batches)

AtMost(share, other) == share[1] * other[2] <= other[1] * share[2]

HasRow == json.state \in {"partial", "complete"}

\* The table does not mark the row of an unfinished run.  Its two shares of the
\* test set are never above the true ones; its share of the attacked samples has no
\* more survivors and no more broken samples in it than the test set has, whatever
\* that makes of the quotient; and all three are true if the run was complete.
RowsAreOfTheTestSet ==
  /\ HasRow =>
       /\ AtMost(Row.clean, <<Correct, KnownTotal>>)
       /\ AtMost(Row.of_total, <<Robust, KnownTotal>>)
       /\ LET survivors == Row.of_attacked[1]
              broken == Row.of_attacked[2] - survivors
          IN  survivors <= Robust /\ broken <= Correct - Robust
  /\ json.state = "complete" =>
       Row = [clean |-> <<Correct, KnownTotal>>, of_attacked |-> <<Robust, Correct>>,
              of_total |-> <<Robust, KnownTotal>>]

\* "Denominators: 'of_attacked' = clean-correct": the column shows no more of the
\* correctly classified samples as robust than there are (consolidated_canonical_table.py,
\* where it divides by the samples attacked so far).
AttackedShareIsNotOverstated ==
  HasRow => AtMost(Row.of_attacked, <<Robust, Correct>>)

\* What the capture leaves is right in the study, too.
CaptureIsExact == C!CaptureIsExact

\* "Keep masks for batches already counted in completed_batches"
\* (eval_cw_survivors.py, where the mask file is read again).
RestoredMasksAreCounted == C!RestoredMasksAreCounted
=============================================================================
