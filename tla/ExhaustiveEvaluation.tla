------------------------ MODULE ExhaustiveEvaluation ------------------------
(***************************************************************************)
(* One job of the exhaustive K=1 sweeps: eval_deepfool_k1.py goes through  *)
(* the test batches in their fixed order, adds up the survivors, saves a   *)
(* JSON file and a mask file every few batches, and continues from those   *)
(* files when it is started again.  The process can be killed anywhere,    *)
(* also between opening a file for writing and having written it.          *)
(*                                                                         *)
(* A mask is identified with the batch it belongs to.  The survivors of a  *)
(* batch are a constant: exact for --attack deepfool, which has nothing    *)
(* random in it.  pgd40 starts at random points, and a batch that is       *)
(* attacked again may have others; no step depends on how many they are,   *)
(* so that the constant stands for what the attack that counts has found.  *)
(***************************************************************************)
EXTENDS Integers, SequencesExt

CONSTANTS Sizes,     \* samples of each batch, in the loader's order
          Clean,     \* of these, the ones the model classifies correctly
          Surviving, \* of these, the ones that survive every one-hot state
          Every,     \* batches between two saves (25)
          Limits,    \* values of --limit-batches that are used
          MaxRuns    \* bound: how often the script is started

Batches == 1..Len(Sizes)

ASSUME BatchesAssumption ==
  /\ Sizes \in Seq(Nat \ {0}) /\ Clean \in Seq(Nat) /\ Surviving \in Seq(Nat)
  /\ Len(Clean) = Len(Sizes) /\ Len(Surviving) = Len(Sizes)
  /\ \A b \in Batches : Surviving[b] <= Clean[b] /\ Clean[b] <= Sizes[b]
ASSUME BoundsAssumption == Every \in Nat \ {0} /\ Limits \subseteq Nat /\ MaxRuns \in Nat

VARIABLES
  json,      \* out_json: its state and content
  masksFile, \* out_masks: its state and content
  pc,        \* where the process is; "idle" when none runs
  outcome,   \* how the last process ended: "done", "failed", "killed", or
             \* "unreadable" when it could not start; "none" while one runs
  limit,     \* args.limit_batches: {} or a set of one number
  ref,       \* ref_cw: the mask file below as it was at the start
  cw,        \* mask file of eval_cw_survivors.py, which this script only reads
  bi,        \* the next batch of the loop
  agg,       \* counters n_total, attacked and k1_survivors
  startSet,  \* start_idx_set: batches found done
  masks, records, \* the lists of this process
  runs       \* processes started

files  == <<json, masksFile>>
locals == <<limit, ref, bi, agg, startSet, masks, records>>
vars   == <<files, pc, outcome, locals, runs>>

Zero == [total |-> 0, attacked |-> 0, k1 |-> 0]
NoJson == [state |-> "absent", agg |-> Zero, processed |-> {}, records |-> <<>>]
NoMasks == [state |-> "absent", masks |-> <<>>]

SumOver(f(_), S) == MapThenSumSet(f, S)
Attackable == {b \in Batches : Clean[b] > 0}

\* What eval_cw_survivors.py leaves when nothing goes wrong: one mask per batch
\* it attacked, in order.
ReferenceUpTo(n) ==
  LET reference[b \in 0..Len(Sizes)] ==
        IF b = 0 THEN <<>>
        ELSE IF b \in Attackable THEN Append(reference[b - 1], b) ELSE reference[b - 1]
  IN  reference[n]
Reference == ReferenceUpTo(Len(Sizes))

Processed == startSet \cup {records[i].batch : i \in 1..Len(records)}
DoneCount == Cardinality(startSet) + Len(records)
Reached(count) == \E n \in limit : count >= n
LimitReached == Reached(DoneCount)
SaveDue(count) == count % Every = 0 \/ Reached(count)

Init ==
  /\ json = NoJson /\ masksFile = NoMasks
  /\ pc = "idle" /\ outcome = "none"
  /\ limit = {} /\ ref = [state |-> "absent", masks |-> <<>>] /\ bi = 1 /\ agg = Zero
  /\ startSet = {} /\ masks = <<>> /\ records = <<>>
  /\ runs = 0

-----------------------------------------------------------------------------
(* Starting.  A fresh start ignores the files; any other one needs a JSON  *)
(* file it can parse and a mask file it can load.  Either needs reference  *)
(* masks it can load, if there are any.                                    *)

CanResume == json.state \in {"partial", "complete"} /\ masksFile.state = "whole"

\* Whatever was restored, masks and records are emptied before the loop.
Begin(l, done, counters) ==
  /\ pc = "idle" /\ runs < MaxRuns /\ cw.state # "torn"
  /\ runs' = runs + 1
  /\ pc' = "loop" /\ outcome' = "none"
  /\ limit' = l /\ ref' = cw
  /\ bi' = 1
  /\ startSet' = done /\ agg' = counters
  /\ masks' = <<>> /\ records' = <<>>
  /\ UNCHANGED files

Options == {{}} \cup {{n} : n \in Limits}

StartFresh ==
  \E l \in Options, fresh \in BOOLEAN :
    /\ fresh \/ json.state = "absent"
    /\ Begin(l, {}, Zero)

\* Mutant: the counters start from nothing although the batches are skipped.
StartResumedFromZero ==
  \E l \in Options : CanResume /\ Begin(l, json.processed, Zero)

StartResumed ==
  \E l \in Options : CanResume /\ Begin(l, json.processed, json.agg)

\* json.load or torch.load raises, or masks is not bound when it is printed.
StartFails ==
  /\ pc = "idle" /\ runs < MaxRuns
  /\ \/ json.state # "absent" /\ ~CanResume
     \/ cw.state = "torn"
  /\ runs' = runs + 1
  /\ outcome' = "unreadable"
  /\ UNCHANGED <<files, pc, locals>>

-----------------------------------------------------------------------------
(* The loop.                                                               *)

CountBatch(counters) ==
  IF bi \in startSet THEN counters
  ELSE [counters EXCEPT !.total = @ + Sizes[bi]]

AddBatch(counters) ==
  [counters EXCEPT !.attacked = @ + Clean[bi], !.k1 = @ + Surviving[bi]]

InLoop == pc = "loop" /\ bi \in Batches /\ ~LimitReached

\* Nothing to attack, or done by an earlier process: the batch is not listed, but
\* one with nothing to attack has been counted.
SkipBatch ==
  /\ InLoop
  /\ bi \in startSet \/ Clean[bi] = 0
  /\ agg' = CountBatch(agg)
  /\ bi' = bi + 1
  /\ UNCHANGED <<files, pc, outcome, limit, ref, startSet, masks, records, runs>>

\* Mutant: the reference mask is taken by the number of the batch.
RefByNumber == ref.masks[IF bi <= Len(ref.masks) THEN bi ELSE Len(ref.masks)]

\* The reference mask is taken by position; there may be none left.  Comparing
\* masks of different lengths raises, unless one of them has a single entry.
RefBatch == ref.masks[Len(masks) + 1]
Comparable ==
  ref.state = "whole" =>
    /\ Len(masks) < Len(ref.masks)
    /\ \/ Clean[bi] = Clean[RefBatch]
       \/ 1 \in {Clean[bi], Clean[RefBatch]}

AttackBatch ==
  /\ InLoop /\ bi \notin startSet /\ Clean[bi] > 0 /\ Comparable
  /\ agg' = AddBatch(CountBatch(agg))
  /\ records' = Append(records, [batch |-> bi,
                                 ref |-> IF ref.state = "whole" THEN RefBatch ELSE 0])
  /\ masks' = Append(masks, bi)
  /\ bi' = bi + 1
  /\ pc' = IF SaveDue(DoneCount + 1) THEN "dump" ELSE "loop"
  /\ UNCHANGED <<files, outcome, limit, ref, startSet, runs>>

\* The process ends with a traceback.
Fail == pc' = "idle" /\ outcome' = "failed" /\ UNCHANGED <<files, locals, runs>>

CompareFails ==
  /\ InLoop /\ bi \notin startSet /\ Clean[bi] > 0 /\ ~Comparable
  /\ Fail

-----------------------------------------------------------------------------
(* Saving.  json.dump writes into the file it has just truncated; only the *)
(* periodic mask file is replaced atomically.                              *)

Truncate(from, to) ==
  /\ pc = from
  /\ pc' = to
  /\ json' = [NoJson EXCEPT !.state = "torn"]
  /\ UNCHANGED <<masksFile, outcome, locals, runs>>

WriteJson(from, to, state) ==
  /\ pc = from
  /\ pc' = to
  /\ json' = [state |-> state, agg |-> agg, processed |-> Processed, records |-> records]
  /\ UNCHANGED <<masksFile, outcome, locals, runs>>

SavePartial == Truncate("dump", "dumping") \/ WriteJson("dumping", "replace", "partial")

ReplaceMasks ==
  /\ pc = "replace"
  /\ pc' = "loop"
  /\ masksFile' = [state |-> "whole", masks |-> masks]
  /\ UNCHANGED <<json, outcome, locals, runs>>

\* Mutant: the regression gate is gone.
LeaveLoopUnchecked ==
  /\ pc = "loop" /\ (bi \notin Batches \/ LimitReached)
  /\ pc' = "final"
  /\ UNCHANGED <<files, outcome, locals, runs>>

\* The regression gate: a run without a limit accounts for the whole test set.
LeaveLoop ==
  /\ pc = "loop" /\ (bi \notin Batches \/ LimitReached)
  /\ IF limit = {} /\ agg.total # SumOver(LAMBDA b : Sizes[b], Batches)
     THEN Fail
     ELSE pc' = "final" /\ UNCHANGED <<files, outcome, locals, runs>>

SaveFinal ==
  \/ Truncate("final", "finalDumping")
  \/ WriteJson("finalDumping", "finalMasks", IF limit = {} THEN "complete" ELSE "partial")

SaveFinalMasks ==
  /\ \/ /\ pc = "finalMasks" /\ pc' = "finalSaving"
        /\ masksFile' = [state |-> "torn", masks |-> <<>>]
        /\ UNCHANGED outcome
     \/ /\ pc = "finalSaving" /\ pc' = "idle"
        /\ masksFile' = [state |-> "whole", masks |-> masks]
        /\ outcome' = "done"
  /\ UNCHANGED <<json, locals, runs>>

Killed ==
  /\ pc # "idle"
  /\ pc' = "idle" /\ outcome' = "killed"
  /\ UNCHANGED <<files, locals, runs>>

-----------------------------------------------------------------------------
Run == \/ SkipBatch \/ AttackBatch \/ CompareFails \/ SavePartial \/ ReplaceMasks
       \/ LeaveLoop \/ SaveFinal \/ SaveFinalMasks

\* `cw' is the other script's: the specification is that of K1Study.
Next == StartFresh \/ StartResumed \/ StartFails \/ Run \/ Killed

-----------------------------------------------------------------------------
(* Properties.                                                             *)

Counters == [total : Nat, attacked : Nat, k1 : Nat]
RecordList == Seq([batch : Batches, ref : 0..Len(Sizes)])

\* Files, counters and lists have their types, whatever was left behind by the
\* processes before.
TypeOK ==
  /\ json \in [state : {"absent", "torn", "partial", "complete"}, agg : Counters,
               processed : SUBSET Batches, records : RecordList]
  /\ masksFile \in [state : {"absent", "torn", "whole"}, masks : Seq(Batches)]
  /\ pc \in {"idle", "loop", "dump", "dumping", "replace", "final", "finalDumping",
             "finalMasks", "finalSaving"}
  /\ outcome \in {"none", "done", "failed", "unreadable", "killed"}
  /\ limit \in Options /\ ref.masks \in Seq(Batches)
  /\ bi \in 1..(Len(Sizes) + 1)
  /\ agg \in Counters /\ startSet \subseteq Attackable
  /\ masks \in Seq(Batches) /\ records \in RecordList
  /\ runs \in 0..MaxRuns

\* Whatever was killed and resumed, a JSON file that can be read counts the attacked
\* samples and the survivors of its processed batches, each once, and misses no sample.
SavedCountsAreExact ==
  json.state \in {"partial", "complete"} =>
    /\ json.agg.attacked = SumOver(LAMBDA b : Clean[b], json.processed)
    /\ json.agg.k1 = SumOver(LAMBDA b : Surviving[b], json.processed)
    /\ json.agg.total >= SumOver(LAMBDA b : Sizes[b], json.processed)

\* "partial": false is what the sweep scripts take for success: such a file covers
\* every batch there is to attack and counts every sample of the test set once.
CompleteCoversTestSet ==
  json.state = "complete" =>
    /\ json.processed = Attackable
    /\ json.agg.total = SumOver(LAMBDA b : Sizes[b], Batches)

\* A process that found nothing done, and the reference masks of a script that was
\* not interrupted, compares each batch with its own reference and never fails:
\* only resumed ones do.  (There has to be something to attack: else a complete run
\* that is resumed counts every sample twice, and fails at the gate.)
FreshReferencesMatch ==
  Attackable # {} /\ startSet = {} /\ IsPrefix(ref.masks, Reference) =>
    /\ \A i \in 1..Len(records) : records[i].ref \in {0, records[i].batch}
    /\ outcome = "failed" => ref.state = "whole" /\ Len(ref.masks) < Len(Reference)

\* The artifacts of a complete run account for the full test set ("A COMPLETE run must
\* account for the full test set exactly"), records and masks included.
CompleteRunIsComplete ==
  json.state = "complete" /\ outcome = "done" /\ pc = "idle" =>
    ToSet(masksFile.masks) = Attackable
=============================================================================
