--------------------------- MODULE SurvivorCapture ---------------------------
(***************************************************************************)
(* eval_cw_survivors.py: goes through the test batches, and after each one *)
(* saves a result file and then a mask file with one mask per batch it     *)
(* attacked.  A later start continues after the batches the result file    *)
(* counts.  Both files are written in place, and the process can be killed *)
(* anywhere.  A mask is identified with the batch it belongs to.           *)
(***************************************************************************)
EXTENDS Integers, SequencesExt

CONSTANTS Attackable,  \* Attackable[b]: has batch b a clean-correct sample
          CaptureLimits, \* values of --limit-batches in use; more is no limit
          MaxCaptures  \* bound: how often the script is started

VARIABLES
  result,   \* result_file: its state, completed_batches, samples' batches
  cw,       \* masks_file: its state and masks
  cpc,      \* where the process is; "idle" when none runs
  startBatch, done, attackedBatches, cwMasks,  \* the process's own
  climit,   \* args.limit_batches
  summary,  \* the _SUMMARY file: the batches its masks are of, or <<>>
  captures  \* processes started

clocals == <<startBatch, done, attackedBatches, cwMasks, climit>>
cvars == <<result, cw, cpc, clocals, summary, captures>>

NBatches == Len(Attackable)

\* The batches up to n that have a mask, in order.
MasksUpTo(n) ==
  LET masks[b \in 0..NBatches] ==
        IF b = 0 THEN <<>>
        ELSE IF Attackable[b] THEN Append(masks[b - 1], b) ELSE masks[b - 1]
  IN  masks[n]

CaptureInit ==
  /\ result = [state |-> "absent", completed |-> 0, attacked |-> {}]
  /\ cw = [state |-> "absent", masks |-> <<>>]
  /\ cpc = "idle" /\ summary = <<>> /\ captures = 0
  /\ startBatch = 0 /\ done = 0 /\ attackedBatches = {} /\ cwMasks = <<>>
  /\ climit = 0

CaptureBegins(start, attacked, masks) ==
  /\ cpc = "idle" /\ captures < MaxCaptures
  /\ captures' = captures + 1
  /\ cpc' = "loop"
  /\ startBatch' = start /\ done' = 0
  /\ attackedBatches' = attacked /\ cwMasks' = masks
  /\ climit' \in CaptureLimits
  /\ UNCHANGED <<result, cw, summary>>

CaptureFresh ==
  \E fresh \in BOOLEAN : /\ fresh \/ result.state = "absent"
                         /\ CaptureBegins(0, {}, <<>>)

\* Mutant: the mask file is taken whole.
RestoredAll(masks, n) == masks

\* [:start_batch]: the first masks, by number.
Restored(masks, n) == SubSeq(masks, 1, IF n < Len(masks) THEN n ELSE Len(masks))

\* Without a mask file the masks so far are forgotten; with one they have to
\* be as many as the batches, which batches without a mask make impossible.
CaptureResumes ==
  /\ result.state = "whole" /\ cw.state # "torn"
  /\ LET n == result.completed
         masks == IF cw.state = "absent" THEN <<>> ELSE Restored(cw.masks, n)
     IN  /\ cw.state = "whole" => Len(masks) >= n \/ cw.masks = <<>>
         /\ CaptureBegins(n, result.attacked, masks)

\* One batch of the loop; those before startBatch are passed over.
CaptureBatch ==
  /\ cpc = "loop" /\ done < NBatches /\ done < climit
  /\ done' = done + 1
  /\ IF done < startBatch
     THEN UNCHANGED <<cpc, attackedBatches, cwMasks>>
     ELSE /\ cpc' = "flush"
          /\ IF Attackable[done + 1]
             THEN /\ attackedBatches' = attackedBatches \cup {done + 1}
                  /\ cwMasks' = Append(cwMasks, done + 1)
             ELSE UNCHANGED <<attackedBatches, cwMasks>>
  /\ UNCHANGED <<result, cw, startBatch, climit, summary, captures>>

\* open(.., "w") truncates, json.dump writes; torch.save likewise.
Flush ==
  /\ \/ cpc = "flush" /\ cpc' = "dump" /\ UNCHANGED cw
        /\ result' = [result EXCEPT !.state = "torn"]
     \/ cpc = "dump" /\ cpc' = "save" /\ UNCHANGED cw
        /\ result' = [state |-> "whole", completed |-> done,
                      attacked |-> attackedBatches]
     \/ cpc = "save" /\ cpc' = "masks" /\ UNCHANGED result
        /\ cw' = [cw EXCEPT !.state = "torn"]
     \/ cpc = "masks" /\ cpc' = "loop" /\ UNCHANGED result
        /\ cw' = [state |-> "whole", masks |-> cwMasks]
  /\ UNCHANGED <<clocals, summary, captures>>

CaptureEnds ==
  /\ cpc = "loop" /\ (done = NBatches \/ done >= climit)
  /\ cpc' = "idle"
  /\ summary' = IF cwMasks # <<>> THEN cwMasks ELSE summary
  /\ UNCHANGED <<result, cw, clocals, captures>>

CaptureKilled ==
  /\ cpc # "idle" /\ cpc' = "idle"
  /\ UNCHANGED <<result, cw, clocals, summary, captures>>

Capture == \/ CaptureFresh \/ CaptureResumes \/ CaptureBatch \/ Flush
           \/ CaptureEnds \/ CaptureKilled

-----------------------------------------------------------------------------
(* Properties.                                                             *)

\* However often the script is killed and continued, a process that started afresh
\* has the masks of its batches, each once and in order.  So has one that continues,
\* as long as every batch has had a mask, if the masks it restored begin with the
\* first.  (Else they are lost or wrong for good: the file is cut by number, and it
\* can be that of an earlier run, or miss those of before it was there.)
MasksAreExact ==
  cpc # "idle" =>
    LET upto == IF done > startBatch THEN done ELSE startBatch
    IN  /\ startBatch = 0 => cwMasks = MasksUpTo(upto)
        /\ (\A b \in 1..upto : Attackable[b]) /\ cwMasks # <<>> /\ cwMasks[1] = 1 =>
              cwMasks = [b \in 1..upto |-> b]

\* "Keep masks for batches already counted in completed_batches."
RestoredMasksAreCounted ==
  cpc = "loop" /\ done = 0 => ToSet(cwMasks) \subseteq 1..startBatch

\* What the result file counts as attacked is what its batches have, also
\* where the masks are gone.
CapturedCountsAreExact ==
  result.state = "whole" =>
    result.attacked = {b \in 1..result.completed : Attackable[b]}

\* The two files of the capture, saved one after the other and cut on resume.
CaptureIsExact == MasksAreExact /\ CapturedCountsAreExact
=============================================================================
