----------------------------- MODULE ModelFiles -----------------------------
(***************************************************************************)
(* The model files in models/ and who writes them: app/ml/training/        *)
(* trainer.py, scripts/train_ensemble.py and scripts/train_pgd_robust.py,  *)
(* by hand or from scripts/run_all_training.sh, and the job train.ensemble *)
(* of app/worker.py, which serves what it loaded at its start.  Scripts    *)
(* run one at a time, beside the worker.  A kill during torch.save leaves  *)
(* a torn file.  Training is abstract: a file is known by the data it was  *)
(* trained on and the base model it started from.  models/model.pth, which *)
(* none of them writes, is there.                                          *)
(***************************************************************************)
EXTENDS Naturals, Sequences

CONSTANTS
    Datasets, Nsl,  \* Nsl: the dataset the worker serves
    AllTraining,    \* the datasets of run_all_training.sh, in its order
    Members,        \* members of an ensemble
    Starts, Kills   \* bounds: scripts started, processes killed

ASSUME FilesAssumption ==
    /\ Nsl \in Datasets
    /\ AllTraining \in Seq(Datasets) \ {<<>>}
    /\ \A i, j \in DOMAIN AllTraining : AllTraining[i] = AllTraining[j] => i = j
    /\ Members \in Nat \ {0} /\ Starts \in Nat /\ Kills \in Nat

VARIABLES
    file,       \* what each file holds
    trained,    \* trainings of each dataset's base model, to tell them apart
    python,     \* the training script that runs: data, files left, step
    line,       \* of run_all_training.sh: 0 while it does not run
    worker,     \* what it does, "down" too
    task,       \* what is left of the job it does
    job,        \* members asked for by the unacknowledged train.ensemble job
    members,    \* of the ensemble, those the worker loaded
    served,     \* the worker has been up (history)
    starts, kills

vars == <<file, trained, python, line, worker, task, job, members, served, starts, kills>>

Absent == [is |-> "absent", ds |-> Nsl, base |-> 0]
Torn   == [Absent EXCEPT !.is = "torn"]
Whole(ds, base) == [is |-> "whole", ds |-> ds, base |-> base]

\* A dataset is not part of the name of an ensemble's member.
Member(i)   == <<"member", i>>
Base(d)     == <<"base", d>>
Hardened(d) == <<"hardened", d>>
Curriculum(d) == <<"curriculum", d>>
MemberFiles == {Member(i) : i \in 1..Members}
Files == MemberFiles \cup {Base(d) : d \in Datasets}
            \cup {Hardened(d) : d \in Datasets} \cup {Curriculum(d) : d \in Datasets}

Content == [is : {"absent", "torn", "whole"}, ds : Datasets, base : Nat]

\* What a script or a job does: files to train in order, what it does about
\* the first of them, the base model at hand (0: fresh weights).
Work == [ds : Datasets, files : Seq(Files), step : {"look", "train", "save"}, base : Nat]
Nothing == [ds |-> Nsl, files |-> <<>>, step |-> "look", base |-> 0]
WorkOn(d, files) == [Nothing EXCEPT !.ds = d, !.files = files]

Ensemble(n) == [i \in 1..n |-> Member(i)]
Trainer(d) == WorkOn(d, Ensemble(Members) \o <<Base(d), Hardened(d)>>)
TrainEnsemble == WorkOn(Nsl, Ensemble(Members))
TrainCurriculum(d) == WorkOn(d, <<Curriculum(d)>>)

\* The lines of run_all_training.sh.
Lines == [i \in 1..Len(AllTraining) |-> Trainer(AllTraining[i])]
            \o [i \in 1..Len(AllTraining) |-> TrainCurriculum(AllTraining[i])]
Completed == Len(Lines) + 1
Ended(n) == n \in {0, Completed}

Init ==
    /\ \E there \in SUBSET MemberFiles :
          file = [f \in Files |-> IF f \in there THEN Whole(Nsl, 0) ELSE Absent]
    /\ trained = [d \in Datasets |-> 0]
    /\ python = Nothing /\ line = 0
    /\ worker = "down" /\ task = Nothing /\ job = 0 /\ members = {} /\ served = FALSE
    /\ starts = 0 /\ kills = 0

-----------------------------------------------------------------------------
(* Training, by a script or by the job: w is its work, w2 after a step.    *)

Is(f, what) == file[f].is = what
Skip(w) == [w EXCEPT !.files = Tail(@)]

\* train_multiple_models skips a file that is there, whatever is in it.
LookAtMemberAgain(w, w2) ==                                  \* mutant
    /\ w.step = "look" /\ Head(w.files) \in MemberFiles
    /\ w2 = [w EXCEPT !.step = "train"]
    /\ UNCHANGED <<file, trained>>

LookAtMember(w, w2) ==
    /\ w.step = "look" /\ Head(w.files) \in MemberFiles
    /\ w2 = IF Is(Head(w.files), "absent") THEN [w EXCEPT !.step = "train"] ELSE Skip(w)
    /\ UNCHANGED <<file, trained>>

\* train_model and adversarial_train load a file that is there instead.
LookAtModelAgain(w, w2) ==                                   \* mutant
    LET f == Head(w.files)
    IN  /\ w.step = "look" /\ f \in {Base(w.ds), Hardened(w.ds)}
        /\ w2 = IF f = Base(w.ds) \/ Is(f, "absent") THEN [w EXCEPT !.step = "train"] ELSE Skip(w)
        /\ UNCHANGED <<file, trained>>

LookAtModel(w, w2) ==
    LET f == Head(w.files)
    IN  /\ w.step = "look" /\ f \in {Base(w.ds), Hardened(w.ds)}
        /\ \/ /\ Is(f, "absent")
              /\ w2 = [w EXCEPT !.step = "train"]
           \/ /\ Is(f, "whole")
              /\ w2 = IF f = Base(w.ds) THEN [Skip(w) EXCEPT !.base = file[f].base] ELSE Skip(w)
        /\ UNCHANGED <<file, trained>>

\* train_pgd_robust.py starts from the base model, if there is one, and
\* trains anew whatever there was.
LookAtCurriculum(w, w2) ==
    LET base == file[Base(w.ds)]
    IN  /\ w.step = "look" /\ Head(w.files) = Curriculum(w.ds)
        /\ base.is # "torn"
        /\ w2 = [w EXCEPT !.step = "train", !.base = base.base]
        /\ UNCHANGED <<file, trained>>

\* torch.save opens the file when the training is over.
OpenFile(w, w2) ==
    LET f == Head(w.files)
    IN  /\ w.step = "train"
        /\ file' = [file EXCEPT ![f] = Torn]
        /\ trained' = IF f = Base(w.ds) THEN [trained EXCEPT ![w.ds] = @ + 1] ELSE trained
        /\ w2 = [w EXCEPT !.step = "save", !.base = IF f = Base(w.ds) THEN trained'[w.ds] ELSE @]

WriteFile(w, w2) ==
    LET f == Head(w.files)
    IN  /\ w.step = "save"
        /\ file' = [file EXCEPT ![f] = Whole(w.ds, w.base)]
        /\ w2 = [Skip(w) EXCEPT !.step = "look"]
        /\ UNCHANGED trained

Train(w, w2) ==
    /\ w.files # <<>>
    /\ \/ LookAtMember(w, w2) \/ LookAtModel(w, w2) \/ LookAtCurriculum(w, w2)
       \/ OpenFile(w, w2) \/ WriteFile(w, w2)

-----------------------------------------------------------------------------
(* The scripts.                                                            *)

NoScript == python.files = <<>>

\* One script by hand.
StartScript ==
    /\ NoScript /\ Ended(line) /\ starts < Starts
    /\ python' \in {TrainEnsemble} \cup {Trainer(d) : d \in Datasets}
                    \cup {TrainCurriculum(d) : d \in Datasets}
    /\ line' = 0 /\ starts' = starts + 1
    /\ UNCHANGED <<file, trained, worker, task, job, members, served, kills>>

\* run_all_training.sh: the lines one after the other, and no further than
\* the first that fails (set -e).
StartAll ==
    /\ NoScript /\ Ended(line) /\ starts < Starts
    /\ python' = Lines[1] /\ line' = 1 /\ starts' = starts + 1
    /\ UNCHANGED <<file, trained, worker, task, job, members, served, kills>>

LineEnds ==
    /\ NoScript /\ ~Ended(line)
    /\ line' = line + 1
    /\ python' = IF line' = Completed THEN Nothing ELSE Lines[line']
    /\ UNCHANGED <<file, trained, worker, task, job, members, served, starts, kills>>

ScriptStep ==
    /\ ~NoScript
    /\ Train(python, python')
    /\ UNCHANGED <<line, worker, task, job, members, served, starts, kills>>

\* A script ends with an exception at a torn file it wants to load: its own
\* or, for the curriculum, that of the base model.
ScriptFailsAndGoesOn ==                                      \* mutant
    /\ ~NoScript /\ python.step = "look"
    /\ \E d \in Datasets :
          \/ Head(python.files) \in {Base(d), Hardened(d)} /\ Is(Head(python.files), "torn")
          \/ Head(python.files) = Curriculum(d) /\ Is(Base(d), "torn")
    /\ python' = Nothing
    /\ UNCHANGED <<file, trained, line, worker, task, job, members, served, starts, kills>>

ScriptFails ==
    /\ ~NoScript /\ python.step = "look"
    /\ \E d \in Datasets :
          \/ Head(python.files) \in {Base(d), Hardened(d)} /\ Is(Head(python.files), "torn")
          \/ Head(python.files) = Curriculum(d) /\ Is(Base(d), "torn")
    /\ python' = Nothing /\ line' = 0
    /\ UNCHANGED <<file, trained, worker, task, job, members, served, starts, kills>>

ScriptKilled ==
    /\ ~NoScript /\ kills < Kills
    /\ python' = Nothing /\ line' = 0 /\ kills' = kills + 1
    /\ UNCHANGED <<file, trained, worker, task, job, members, served, starts>>

\* The remedy for a torn file, while nobody writes.
RemoveTorn(f) ==
    /\ NoScript /\ Ended(line) /\ worker # "trains" /\ Is(f, "torn")
    /\ file' = [file EXCEPT ![f] = Absent]
    /\ line' = 0
    /\ UNCHANGED <<trained, python, worker, task, job, members, served, starts, kills>>

-----------------------------------------------------------------------------
(* The worker, whose only job that writes is train.ensemble.               *)

\* A member loads if its file is whole and made for the features of Nsl.
Loadable == {f \in MemberFiles : Is(f, "whole") /\ file[f].ds = Nsl}

\* EnsembleModel takes the members that load, and one is enough.
Boot ==
    /\ worker = "down" /\ Loadable # {}
    /\ worker' = "up" /\ members' = Loadable /\ served' = TRUE
    /\ UNCHANGED <<file, trained, python, line, task, job, starts, kills>>

Submit ==
    /\ job = 0
    /\ job' \in 1..Members
    /\ UNCHANGED <<file, trained, python, line, worker, task, members, served, starts, kills>>

TakeJob ==
    /\ worker = "up" /\ job # 0
    /\ worker' = "trains" /\ task' = WorkOn(Nsl, Ensemble(job))
    /\ UNCHANGED <<file, trained, python, line, job, members, served, starts, kills>>

JobStep ==
    /\ worker = "trains"
    /\ Train(task, task')
    /\ UNCHANGED <<python, line, worker, job, members, served, starts, kills>>

\* The answer and the acknowledgement; the models served are those of before.
JobEnds ==
    /\ worker = "trains" /\ task.files = <<>>
    /\ worker' = "up" /\ task' = Nothing /\ job' = 0
    /\ UNCHANGED <<file, trained, python, line, members, served, starts, kills>>

\* The job is delivered again to the next worker.
WorkerKilled ==
    /\ worker # "down" /\ kills < Kills
    /\ worker' = "down" /\ task' = Nothing /\ members' = {} /\ kills' = kills + 1
    /\ UNCHANGED <<file, trained, python, line, job, served, starts>>

Next ==
    \/ StartScript \/ StartAll \/ LineEnds \/ ScriptStep \/ ScriptFails \/ ScriptKilled
    \/ (\E f \in Files : RemoveTorn(f))
    \/ Boot \/ Submit \/ TakeJob \/ JobStep \/ JobEnds \/ WorkerKilled

Spec == Init /\ [][Next]_vars

-----------------------------------------------------------------------------
(* Correctness.                                                            *)

TypeOK ==
    /\ file \in [Files -> Content]
    /\ trained \in [Datasets -> Nat]
    /\ {python, task} \subseteq Work
    /\ line \in 0..Completed
    /\ worker \in {"down", "up", "trains"} /\ job \in 0..Members
    /\ members \subseteq MemberFiles /\ served \in BOOLEAN
    /\ starts \in 0..Starts /\ kills \in 0..Kills

\* Files are loaded instead of trained again, one by one: still the hardened
\* model that is there was trained from the base model that is there, whatever
\* was killed, removed and started again in between.
HardenedFitsItsBase ==
    \A d \in Datasets : Is(Hardened(d), "whole") =>
        /\ Is(Base(d), "whole")
        /\ file[Hardened(d)].base = file[Base(d)].base

\* "All training completed!" is said with all models of all datasets there and
\* whole, the curriculum's started from the base model of its dataset.
CompletedIsTrained ==
    line = Completed => \A i \in DOMAIN AllTraining :
        LET d == AllTraining[i] IN
        /\ \A f \in {Base(d), Hardened(d), Curriculum(d)} : Is(f, "whole") /\ file[f].ds = d
        /\ file[Curriculum(d)].base = file[Base(d)].base /\ file[Base(d)].base # 0

\* A worker that started once can start again: no job and no training of
\* another dataset, which names its ensemble's files the same, takes the last
\* member it can load.
BootableStays == served => Loadable # {}

=============================================================================
