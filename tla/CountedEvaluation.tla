-------------------------- MODULE CountedEvaluation -------------------------
(***************************************************************************)
(* The evaluators that keep running counters in one JSON file: eval_cw.py, *)
(* eval_mixed_norm.py and eval_foolbox.py.  Each goes through the test     *)
(* batches, counts every batch and, for each task (an attack, or a K of    *)
(* --Ks), the batches it was attacked on, and saves the counters after     *)
(* each batch.  Started again, it continues behind the saved batches,      *)
(* perhaps with other tasks or another limit.  It can be killed anywhere.  *)
(*                                                                         *)
(* A counter of samples is the sequence of the batches it adds up.         *)
(***************************************************************************)
EXTENDS Integers, SequencesExt

CONSTANTS NumBatches, \* batches of the test set
          Tasks,      \* attacks of eval_foolbox.py, Ks of the other two
          Limits,     \* values of --limit-batches that are used (eval_foolbox.py)
          MaxRuns     \* bound of the model: how often the script is started

ASSUME CountedAssumption ==
  NumBatches \in Nat \ {0} /\ Limits \subseteq Nat /\ Tasks # {} /\ MaxRuns \in Nat

Scripts == {"cw", "mixed", "foolbox"}
Batches == 1..NumBatches

VARIABLES
  script,    \* the script, the same in all runs
  streaming, \* the test set is a Parquet file: len(loader) is its rows, not its batches
  file,      \* the result file: its state and content
  mem,       \* the same counters in the process
  pc,        \* where the process is; "idle" when none runs
  outcome,   \* how the last one ended: "done", "skipped", "failed", "killed"; "none"
             \* while one runs
  asked,     \* args.attacks or args.Ks
  limit,     \* args.limit_batches
  start, bi, \* start_batch and the next batch, counted from 1
  runs       \* processes started

process == <<asked, limit, start>>
countedVars == <<script, streaming, file, mem, pc, outcome, process, bi, runs>>

FreshDoc(tasks) ==
  [completed |-> 0, total |-> <<>>, correct |-> [t \in tasks |-> <<>>], records |-> <<>>]

Absent == [state |-> "absent", doc |-> FreshDoc({})]

CountedInit ==
  /\ script \in Scripts /\ streaming \in BOOLEAN
  /\ file = Absent /\ mem = FreshDoc({})
  /\ pc = "idle" /\ outcome = "none"
  /\ asked = {} /\ limit = 0 /\ start = 0 /\ bi = 1
  /\ runs = 0

-----------------------------------------------------------------------------
(* Starting.                                                               *)

\* eval_mixed_norm.py always runs the same Ks, and only eval_foolbox.py has a limit
\* that matters here: with one, eval_cw.py touches no file.
TaskChoices == IF script = "mixed" THEN {Tasks} ELSE SUBSET Tasks \ {{}}
LimitChoices == IF script = "foolbox" THEN Limits ELSE {0}

Known(tasks) == tasks \subseteq DOMAIN file.doc.correct

NothingLeft(tasks, l) ==
  IF script = "foolbox"
  THEN Known(tasks) /\ \A t \in tasks : Len(file.doc.correct[t]) >= l
  ELSE ~streaming /\ file.doc.completed = NumBatches

CanStart == pc = "idle" /\ runs < MaxRuns

\* Mutant: the batches that are done are not passed over.
BeginAtFirst(tasks, l, doc) ==
  /\ CanStart
  /\ runs' = runs + 1 /\ pc' = "loop" /\ outcome' = "none"
  /\ asked' = tasks /\ limit' = l
  /\ mem' = doc /\ start' = doc.completed /\ bi' = 1
  /\ UNCHANGED <<script, streaming, file>>

Begin(tasks, l, doc) ==
  /\ CanStart
  /\ runs' = runs + 1 /\ pc' = "loop" /\ outcome' = "none"
  /\ asked' = tasks /\ limit' = l
  /\ mem' = doc /\ start' = doc.completed /\ bi' = doc.completed + 1
  /\ UNCHANGED <<script, streaming, file>>

\* Only eval_mixed_norm.py has no --overwrite.
StartFresh ==
  \E tasks \in TaskChoices, l \in LimitChoices :
    /\ file.state = "absent" \/ script # "mixed"
    /\ Begin(tasks, l, FreshDoc(tasks))

StartResumed ==
  \E tasks \in TaskChoices, l \in LimitChoices :
    /\ file.state = "whole" /\ Known(tasks) /\ ~NothingLeft(tasks, l)
    /\ Begin(tasks, l, file.doc)

\* A process that ends without having saved anything.
EndAtOnce(how) ==
  /\ CanStart
  /\ runs' = runs + 1 /\ outcome' = how
  /\ UNCHANGED <<script, streaming, file, mem, pc, process, bi>>

Skip ==
  \E tasks \in TaskChoices, l \in LimitChoices :
    file.state = "whole" /\ NothingLeft(tasks, l) /\ EndAtOnce("skipped")

\* The JSON cannot be parsed, or it has no counter for a task: a KeyError, at the
\* latest when the first batch is counted, and before that batch is saved.
StartFails ==
  \E tasks \in TaskChoices, l \in LimitChoices :
    /\ \/ file.state = "torn"
       \/ file.state = "whole" /\ ~Known(tasks) /\ ~NothingLeft(tasks, l)
    /\ EndAtOnce("failed")

-----------------------------------------------------------------------------
(* The loop.                                                               *)

\* Mutant: a limited run stops one batch early.
EndsEarly == IF script = "foolbox" THEN bi >= start + limit \/ bi > NumBatches
             ELSE bi > NumBatches

AtEnd == bi > NumBatches \/ (script = "foolbox" /\ bi > start + limit)

Counts(t) == t \in asked /\ (script = "foolbox" => Len(mem.correct[t]) < limit)

\* Only eval_cw.py keeps a record of each batch.
RecordOf == [batch |-> bi, tasks |-> asked]

EvaluateBatch ==
  /\ pc = "loop" /\ ~AtEnd
  /\ mem' = [completed |-> mem.completed + 1,
             total |-> Append(mem.total, bi),
             correct |-> [t \in DOMAIN mem.correct |->
                IF Counts(t) THEN Append(mem.correct[t], bi) ELSE mem.correct[t]],
             records |-> IF script = "cw" THEN Append(mem.records, RecordOf)
                         ELSE mem.records]
  /\ bi' = bi + 1
  /\ pc' = "save"
  /\ UNCHANGED <<script, streaming, file, outcome, process, runs>>

\* open(..., "w") empties the file that json.dump then fills.
Save ==
  /\ \/ pc = "save" /\ pc' = "saving" /\ file' = [Absent EXCEPT !.state = "torn"]
     \/ pc = "saving" /\ pc' = "loop" /\ file' = [state |-> "whole", doc |-> mem]
  /\ UNCHANGED <<script, streaming, mem, outcome, process, bi, runs>>

\* The accuracies are printed from mem.
Finish ==
  /\ pc = "loop" /\ AtEnd
  /\ pc' = "idle" /\ outcome' = "done"
  /\ UNCHANGED <<script, streaming, file, mem, process, bi, runs>>

\* A kill, or an exception of the attack itself.
Killed ==
  /\ pc # "idle"
  /\ pc' = "idle" /\ outcome' = "killed"
  /\ UNCHANGED <<script, streaming, file, mem, process, bi, runs>>

-----------------------------------------------------------------------------
CountedNext ==
  \/ StartFresh \/ StartResumed \/ Skip \/ StartFails
  \/ EvaluateBatch \/ Save \/ Finish \/ Killed

CountedSpec == CountedInit /\ [][CountedNext]_countedVars

-----------------------------------------------------------------------------
(* Properties.                                                             *)

IsDoc(doc) ==
  /\ DOMAIN doc = {"completed", "total", "correct", "records"}
  /\ doc.completed \in 0..NumBatches /\ doc.total \in Seq(Batches)
  /\ DOMAIN doc.correct \subseteq Tasks
  /\ \A t \in DOMAIN doc.correct : doc.correct[t] \in Seq(Batches)
  /\ doc.records \in Seq([batch : Batches, tasks : SUBSET Tasks])

\* The counters on disk and in memory have their types, and no more batches are counted
\* than there are, whatever the processes before have left.
CountedTypeOK ==
  /\ script \in Scripts /\ streaming \in BOOLEAN
  /\ file.state \in {"absent", "torn", "whole"} /\ IsDoc(file.doc) /\ IsDoc(mem)
  /\ pc \in {"idle", "loop", "save", "saving"}
  /\ outcome \in {"none", "done", "skipped", "failed", "killed"}
  /\ asked \subseteq Tasks /\ limit \in Limits \cup {0}
  /\ start \in 0..NumBatches /\ bi \in 1..(NumBatches + 1)
  /\ runs \in 0..MaxRuns

Increasing(s) == \A i \in 1..(Len(s) - 1) : s[i] < s[i + 1]

\* Through all kills and restarts, a file that can be read has counted exactly the first
\* completed_batches batches, each once, and no task has counted a batch twice.
BatchesCountedOnce ==
  file.state = "whole" =>
    /\ file.doc.total = [b \in 1..file.doc.completed |-> b]
    /\ \A t \in DOMAIN file.doc.correct :
         /\ Increasing(file.doc.correct[t])
         /\ ToSet(file.doc.correct[t]) \subseteq ToSet(file.doc.total)

\* The batches whose record names a task.
RecordedFor(doc, t) == {r.batch : r \in {r \in ToSet(doc.records) : t \in r.tasks}}

\* eval_cw.py has one record of each batch it counts, and its counters are what the
\* records add up to, also when runs with different --Ks have worked on the file; with
\* eval_mixed_norm.py every K has seen every batch.
CountersMatchBatches ==
  file.state = "whole" =>
    /\ script = "cw" =>
         [i \in DOMAIN file.doc.records |-> file.doc.records[i].batch] = file.doc.total
    /\ \A t \in DOMAIN file.doc.correct :
         /\ script = "cw" => ToSet(file.doc.correct[t]) = RecordedFor(file.doc, t)
         /\ script = "mixed" => file.doc.correct[t] = file.doc.total

\* The file of any sequence of runs, killed or not, with whatever options.
CountersAreExact == BatchesCountedOnce /\ CountersMatchBatches

\* A run that ends in the regular way has left nothing to do: the saved counters cover
\* the test set, or with eval_foolbox.py each attack has had its limit of batches unless
\* the test set is used up.
FinishedRunIsComplete ==
  outcome = "done" =>
    IF script = "foolbox"
    THEN \A t \in asked : mem.completed = NumBatches \/ Len(mem.correct[t]) >= limit
    ELSE file = [state |-> "whole", doc |-> mem] /\ file.doc.completed = NumBatches

\* "Number of test batches to attack": the batches eval_foolbox.py takes for its robust
\* accuracy, the quotient of correct and total, are those it has attacked.
AccuracyIsOverAttackedBatches ==
  script = "foolbox" /\ outcome = "done" =>
    \A t \in asked : mem.correct[t] = mem.total
=============================================================================
