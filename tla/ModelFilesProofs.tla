-------------------------- MODULE ModelFilesProofs --------------------------
(***************************************************************************)
(* Proofs about the model files, for any datasets, any size of the         *)
(* ensemble and any number of scripts, jobs and kills.                     *)
(***************************************************************************)
EXTENDS ModelFiles, DataFacts

Half == Len(AllTraining)

\* The file a script or a job trains.
Busy(w) == IF w.files # <<>> /\ w.step # "look" THEN {Head(w.files)} ELSE {}

\* What a script may have before it: members, and the models of its dataset,
\* the base model right before the hardened one.
ScriptShape ==
    \A i \in DOMAIN python.files :
        /\ python.files[i] \in MemberFiles \cup {Base(python.ds), Hardened(python.ds),
                                                 Curriculum(python.ds)}
        /\ python.files[i] = Hardened(python.ds) /\ i > 1 =>
              python.files[i - 1] = Base(python.ds)

\* The job has members only.
TaskShape == \A i \in DOMAIN task.files : task.files[i] \in MemberFiles

\* A hardened model, and one that is being written, has its base model.
ModelsFit ==
    \A d \in Datasets :
        /\ ~Is(Hardened(d), "absent") => Is(Base(d), "whole")
        /\ Is(Base(d), "whole") => file[Base(d)].base # 0
        /\ Is(Hardened(d), "whole") => file[Hardened(d)].base = file[Base(d)].base
        /\ \A f \in {Base(d), Hardened(d), Curriculum(d)} : Is(f, "whole") => file[f].ds = d

\* The script has at hand the base model of the file, and trains what is not there.
ScriptFits ==
    LET f == Head(python.files)
        d == python.ds
    IN  python.files # <<>> =>
        /\ f = Hardened(d) => Is(Base(d), "whole") /\ file[Base(d)].base = python.base
        /\ python.step = "train" /\ f \in {Base(d), Hardened(d)} => Is(f, "absent")
        /\ python.step = "save" /\ f = Base(d) => Is(f, "torn") /\ python.base # 0

\* A member that can be loaded and that nobody is about to write.
SafeMember ==
    /\ served => \E f \in Loadable : f \notin Busy(python) \cup Busy(task)
    /\ ~served => /\ worker = "down" /\ task.files = <<>>
                  /\ Busy(python) \cap Loadable = {}

\* A line of run_all_training.sh has its dataset and its files.
LineShape ==
    /\ line \in 1..Half =>
          /\ python.ds = AllTraining[line]
          /\ \A k \in DOMAIN python.files : python.files[k] # Curriculum(python.ds)
    /\ line \in (Half + 1)..(2 * Half) =>
          /\ python.ds = AllTraining[line - Half]
          /\ \A k \in DOMAIN python.files : python.files[k] = Curriculum(python.ds)
          /\ Busy(python) # {} => python.base = file[Base(python.ds)].base
    /\ line = Completed => python.files = <<>>

Left(f) == \E k \in DOMAIN python.files : python.files[k] = f

\* The lines that are over, and the part of this one that is, have left their files.
LinesDone ==
    line # 0 => \A i \in 1..Half :
        LET d == AllTraining[i] IN
        /\ \A f \in {Base(d), Hardened(d)} :
              line > i \/ (line = i /\ ~Left(f)) => Is(f, "whole")
        /\ line > Half + i \/ (line = Half + i /\ ~Left(Curriculum(d))) =>
              Is(Curriculum(d), "whole") /\ file[Curriculum(d)].base = file[Base(d)].base

IInv ==
    /\ TypeOK /\ ScriptShape /\ TaskShape
    /\ ModelsFit /\ ScriptFits /\ SafeMember /\ LineShape /\ LinesDone

-----------------------------------------------------------------------------
(* The files and what is done with them.                                   *)

LEMMA FileNames ==
    ASSUME NEW d \in Datasets, NEW e \in Datasets
    PROVE  /\ Base(d) \in Files /\ Hardened(d) \in Files /\ Curriculum(d) \in Files
           /\ Base(d) \notin MemberFiles /\ Hardened(d) \notin MemberFiles
           /\ Curriculum(d) \notin MemberFiles /\ MemberFiles \subseteq Files
           /\ Base(d) # Hardened(e) /\ Base(d) # Curriculum(e) /\ Hardened(d) # Curriculum(e)
           /\ Base(d) = Base(e) \/ Hardened(d) = Hardened(e) \/ Curriculum(d) = Curriculum(e)
                => d = e
<1>1. /\ Base(d) \in Files /\ Hardened(d) \in Files /\ Curriculum(d) \in Files
      /\ MemberFiles \subseteq Files
  BY DEF Files
<1>2. /\ Base(d) \notin MemberFiles /\ Hardened(d) \notin MemberFiles
      /\ Curriculum(d) \notin MemberFiles
  BY DEF MemberFiles, Member, Base, Hardened, Curriculum
<1>3. Base(d) # Hardened(e) /\ Base(d) # Curriculum(e) /\ Hardened(d) # Curriculum(e)
  BY DEF Base, Hardened, Curriculum
<1>4. Base(d) = Base(e) \/ Hardened(d) = Hardened(e) \/ Curriculum(d) = Curriculum(e)
        => d = e
  BY DEF Base, Hardened, Curriculum
<1> QED BY <1>1, <1>2, <1>3, <1>4

LEMMA ContentFacts ==
    /\ Absent \in Content /\ Absent.is = "absent" /\ Absent.base = 0
    /\ Torn \in Content /\ Torn.is = "torn"
    /\ \A d \in Datasets, b \in Nat :
          /\ Whole(d, b) \in Content /\ Whole(d, b).is = "whole"
          /\ Whole(d, b).ds = d /\ Whole(d, b).base = b
  BY FilesAssumption DEF Absent, Torn, Whole, Content

LEMMA SeqParts ==
    ASSUME NEW S, NEW s \in Seq(S)
    PROVE  /\ DOMAIN s = 1..Len(s) /\ Len(s) \in Nat
           /\ s = <<>> <=> Len(s) = 0
           /\ s # <<>> => /\ 1 \in DOMAIN s /\ Head(s) = s[1] /\ Head(s) \in S
                          /\ Tail(s) \in Seq(S) /\ Len(Tail(s)) = Len(s) - 1
                          /\ DOMAIN Tail(s) = 1..(Len(s) - 1)
                          /\ \A i \in 1..(Len(s) - 1) : Tail(s)[i] = s[i + 1]
  OBVIOUS

\* What a step of the training does to its work and to the files.
LEMMA TrainStep ==
    ASSUME TypeOK, NEW w \in Work, NEW w2, Train(w, w2)
    PROVE  LET f == Head(w.files) IN
           /\ w2 \in Work /\ w2.ds = w.ds /\ w.files # <<>> /\ f \in Files
           /\ \/ /\ w.step = "look" /\ w2.step = "train" /\ w2.files = w.files
                 /\ UNCHANGED <<file, trained>>
                 /\ f \in MemberFiles \cup {Base(w.ds), Hardened(w.ds)} =>
                       Is(f, "absent") /\ w2.base = w.base
                 /\ f \notin MemberFiles \cup {Base(w.ds), Hardened(w.ds)} =>
                       f = Curriculum(w.ds) /\ w2.base = file[Base(w.ds)].base
              \/ /\ w.step = "look" /\ w2.step = "look" /\ w2.files = Tail(w.files)
                 /\ UNCHANGED <<file, trained>>
                 /\ f \in MemberFiles \/ (Is(f, "whole") /\ f \in {Base(w.ds), Hardened(w.ds)})
                 /\ w2.base = IF f = Base(w.ds) THEN file[f].base ELSE w.base
              \/ /\ w.step = "train" /\ w2.step = "save" /\ w2.files = w.files
                 /\ file' = [file EXCEPT ![f] = Torn] /\ trained' \in [Datasets -> Nat]
                 /\ IF f = Base(w.ds) THEN w2.base # 0 ELSE w2.base = w.base
              \/ /\ w.step = "save" /\ w2.step = "look" /\ w2.files = Tail(w.files)
                 /\ file' = [file EXCEPT ![f] = Whole(w.ds, w.base)] /\ trained' = trained
                 /\ w2.base = w.base
<1> DEFINE f == Head(w.files)
<1>1. /\ w = [ds |-> w.ds, files |-> w.files, step |-> w.step, base |-> w.base]
      /\ w.ds \in Datasets /\ w.files \in Seq(Files) /\ w.base \in Nat
      /\ w.step \in {"look", "train", "save"}
  BY DEF Work
<1>2. w.files # <<>> /\ f \in Files /\ Tail(w.files) \in Seq(Files)
  BY <1>1, SeqParts DEF Train
<1>3. file \in [Files -> Content] /\ trained \in [Datasets -> Nat]
  BY DEF TypeOK
<1>4. Base(w.ds) \in Files /\ Base(w.ds) \notin MemberFiles /\ Hardened(w.ds) \notin MemberFiles
      /\ Curriculum(w.ds) \notin MemberFiles /\ Base(w.ds) # Hardened(w.ds)
      /\ Base(w.ds) # Curriculum(w.ds) /\ Hardened(w.ds) # Curriculum(w.ds)
  BY <1>1, FileNames
<1>5. \A g \in Files : file[g].base \in Nat
  BY <1>3 DEF Content
<1> HIDE DEF f
<1>6. CASE LookAtMember(w, w2)
  BY <1>1, <1>2, <1>3, <1>4, <1>6 DEF LookAtMember, Skip, Work, f
<1>7. CASE LookAtModel(w, w2)
  BY <1>1, <1>2, <1>3, <1>4, <1>5, <1>7 DEF LookAtModel, Skip, Work, f, Is
<1>8. CASE LookAtCurriculum(w, w2)
  BY <1>1, <1>2, <1>3, <1>4, <1>5, <1>8 DEF LookAtCurriculum, Work, f
<1>9. CASE OpenFile(w, w2)
  <2>1. trained' \in [Datasets -> Nat]
    BY <1>1, <1>3, <1>9 DEF OpenFile
  <2>2. f = Base(w.ds) => trained'[w.ds] \in Nat \ {0}
    BY <1>1, <1>3, <1>9 DEF OpenFile, f
  <2> QED BY <1>1, <1>2, <1>9, <2>1, <2>2 DEF OpenFile, Work, f
<1>10. CASE WriteFile(w, w2)
  BY <1>1, <1>2, <1>10 DEF WriteFile, Skip, Work, f
<1> QED BY <1>6, <1>7, <1>8, <1>9, <1>10 DEF Train, f

LEMMA EnsembleFacts ==
    ASSUME NEW n \in 0..Members
    PROVE  /\ Ensemble(n) \in Seq(Files) /\ Len(Ensemble(n)) = n
           /\ \A i \in 1..n : Ensemble(n)[i] \in MemberFiles
<1>1. n \in Nat /\ \A i \in 1..n : Member(i) \in MemberFiles
  BY FilesAssumption DEF MemberFiles
<1> QED BY <1>1 DEF Ensemble, Files

\* What the scripts have before them.
LEMMA ScriptWork ==
    ASSUME NEW d \in Datasets
    PROVE  /\ TrainEnsemble \in Work /\ Trainer(d) \in Work /\ TrainCurriculum(d) \in Work
           /\ TrainEnsemble.step = "look" /\ TrainEnsemble.ds = Nsl
           /\ \A i \in DOMAIN TrainEnsemble.files : TrainEnsemble.files[i] \in MemberFiles
           /\ Trainer(d).step = "look" /\ Trainer(d).ds = d
           /\ DOMAIN Trainer(d).files = 1..(Members + 2)
           /\ \A i \in 1..Members : Trainer(d).files[i] \in MemberFiles
           /\ Trainer(d).files[Members + 1] = Base(d)
           /\ Trainer(d).files[Members + 2] = Hardened(d)
           /\ TrainCurriculum(d).step = "look" /\ TrainCurriculum(d).ds = d
           /\ TrainCurriculum(d).files = <<Curriculum(d)>>
<1>1. /\ Ensemble(Members) \in Seq(Files) /\ Len(Ensemble(Members)) = Members
      /\ \A i \in 1..Members : Ensemble(Members)[i] \in MemberFiles
      /\ Members \in Nat \ {0} /\ Nsl \in Datasets
  BY EnsembleFacts, FilesAssumption
<1>2. <<Base(d), Hardened(d)>> \in Seq(Files) /\ <<Curriculum(d)>> \in Seq(Files)
  BY FileNames
<1> DEFINE models == <<Base(d), Hardened(d)>>
           all == Ensemble(Members) \o models
<1>3. /\ all \in Seq(Files) /\ Len(all) = Members + 2
      /\ \A i \in 1..(Members + 2) :
           all[i] = IF i <= Members THEN Ensemble(Members)[i] ELSE models[i - Members]
  <2>1. Len(models) = 2 /\ models \in Seq(Files)
    BY <1>2
  <2> HIDE DEF models
  <2>2. /\ all \in Seq(Files) /\ Len(all) = Len(Ensemble(Members)) + Len(models)
        /\ \A i \in 1..(Len(Ensemble(Members)) + Len(models)) :
             all[i] = IF i <= Len(Ensemble(Members)) THEN Ensemble(Members)[i]
                      ELSE models[i - Len(Ensemble(Members))]
    BY <1>1, <2>1, ConcatFacts
  <2> QED BY <1>1, <2>1, <2>2
<1>4. /\ DOMAIN all = 1..(Members + 2)
      /\ \A i \in 1..Members : all[i] \in MemberFiles
      /\ all[Members + 1] = Base(d) /\ all[Members + 2] = Hardened(d)
  <2>1. models[1] = Base(d) /\ models[2] = Hardened(d)
    OBVIOUS
  <2>2. /\ Members + 1 - Members = 1 /\ Members + 2 - Members = 2
        /\ ~(Members + 1 <= Members) /\ ~(Members + 2 <= Members)
        /\ Members + 1 \in 1..(Members + 2) /\ Members + 2 \in 1..(Members + 2)
        /\ \A i \in 1..Members : i <= Members /\ i \in 1..(Members + 2)
    BY <1>1
  <2> HIDE DEF models, all
  <2>3. DOMAIN all = 1..(Members + 2)
    BY <1>1, <1>3, SeqParts
  <2> QED BY <1>1, <1>3, <2>1, <2>2, <2>3
<1>5. \A fs \in Seq(Files), e \in Datasets :
        /\ WorkOn(e, fs) \in Work /\ WorkOn(e, fs).files = fs
        /\ WorkOn(e, fs).step = "look" /\ WorkOn(e, fs).ds = e
  BY DEF WorkOn, Nothing, Work
<1>6. /\ Trainer(d) = WorkOn(d, all) /\ TrainEnsemble = WorkOn(Nsl, Ensemble(Members))
      /\ TrainCurriculum(d) = WorkOn(d, <<Curriculum(d)>>)
  BY DEF Trainer, TrainEnsemble, TrainCurriculum
<1>7. DOMAIN Ensemble(Members) = 1..Members
  BY <1>1, SeqParts
<1> HIDE DEF all
<1>8. /\ Trainer(d) \in Work /\ Trainer(d).step = "look" /\ Trainer(d).ds = d
      /\ Trainer(d).files = all
  BY <1>3, <1>5, <1>6
<1>9. /\ TrainEnsemble \in Work /\ TrainEnsemble.step = "look" /\ TrainEnsemble.ds = Nsl
      /\ TrainEnsemble.files = Ensemble(Members)
  <2>1. Ensemble(Members) \in Seq(Files) /\ Nsl \in Datasets
    BY <1>1
  <2> QED BY <1>5, <1>6, <2>1
<1>10. /\ TrainCurriculum(d) \in Work /\ TrainCurriculum(d).step = "look"
       /\ TrainCurriculum(d).ds = d /\ TrainCurriculum(d).files = <<Curriculum(d)>>
  <2>1. <<Curriculum(d)>> \in Seq(Files)
    BY <1>2
  <2> DEFINE own == <<Curriculum(d)>>
  <2> HIDE DEF own
  <2>2. own \in Seq(Files) /\ TrainCurriculum(d) = WorkOn(d, own)
    BY <1>6, <2>1 DEF own
  <2>3. /\ TrainCurriculum(d) \in Work /\ TrainCurriculum(d).step = "look"
        /\ TrainCurriculum(d).ds = d /\ TrainCurriculum(d).files = own
    BY <1>5, <2>2
  <2> QED BY <2>3 DEF own
<1> QED BY <1>1, <1>4, <1>7, <1>8, <1>9, <1>10

LEMMA LinesFacts ==
    /\ Half \in Nat \ {0} /\ Len(Lines) = 2 * Half /\ Completed = 2 * Half + 1
    /\ \A i \in 1..Half : AllTraining[i] \in Datasets
    /\ \A k \in 1..Half : Lines[k] = Trainer(AllTraining[k])
    /\ \A k \in (Half + 1)..(2 * Half) : Lines[k] = TrainCurriculum(AllTraining[k - Half])
<1>1. Half \in Nat \ {0} /\ \A i \in 1..Half : AllTraining[i] \in Datasets
  BY FilesAssumption, SeqParts DEF Half
<1> DEFINE a == [i \in 1..Half |-> Trainer(AllTraining[i])]
           b == [i \in 1..Half |-> TrainCurriculum(AllTraining[i])]
<1>2. Lines = a \o b
  BY DEF Lines, Half
<1>3. a \in Seq(Work) /\ b \in Seq(Work) /\ Len(a) = Half /\ Len(b) = Half
  BY <1>1, ScriptWork
<1>4. \A i \in 1..Half : a[i] = Trainer(AllTraining[i]) /\ b[i] = TrainCurriculum(AllTraining[i])
  OBVIOUS
<1> HIDE DEF a, b
<1>5. /\ Len(a \o b) = Half + Half
      /\ \A k \in 1..(Half + Half) : (a \o b)[k] = IF k <= Half THEN a[k] ELSE b[k - Half]
  BY <1>1, <1>3
<1>6. \A k \in (Half + 1)..(2 * Half) : /\ k - Half \in 1..Half /\ ~(k <= Half)
                                        /\ k \in 1..(Half + Half)
  BY <1>1
<1>7. \A k \in 1..Half : k <= Half /\ k \in 1..(Half + Half)
  BY <1>1
<1>8. Half + Half = 2 * Half
  BY <1>1
<1> HIDE DEF Half
<1> QED BY <1>1, <1>2, <1>4, <1>5, <1>6, <1>7, <1>8 DEF Completed

-----------------------------------------------------------------------------
(* Types and shapes.                                                       *)

LEMMA NothingFacts ==
    Nothing \in Work /\ Nothing.files = <<>> /\ Nothing.step = "look" /\ Nothing.ds = Nsl
  BY FilesAssumption DEF Nothing, Work

\* What a script that is started, or that is over, has before it.
StartWork ==
    {Nothing, TrainEnsemble} \cup {Trainer(d) : d \in Datasets}
        \cup {TrainCurriculum(d) : d \in Datasets}

LEMMA StartWorkFacts ==
    ASSUME NEW w \in StartWork
    PROVE  /\ w \in Work /\ w.step = "look"
           /\ w.files # <<>> => Head(w.files) # Hardened(w.ds)
           /\ \A i \in DOMAIN w.files :
                 /\ w.files[i] \in MemberFiles \cup {Base(w.ds), Hardened(w.ds),
                                                     Curriculum(w.ds)}
                 /\ w.files[i] = Hardened(w.ds) /\ i > 1 => w.files[i - 1] = Base(w.ds)
<1>1. CASE w = Nothing
  BY <1>1, NothingFacts
<1>2. CASE w = TrainEnsemble
  <2>1. /\ w \in Work /\ w.step = "look" /\ w.ds \in Datasets /\ w.files \in Seq(Files)
        /\ \A i \in DOMAIN w.files : w.files[i] \in MemberFiles
    BY <1>2, ScriptWork, FilesAssumption DEF Work
  <2>2. Hardened(w.ds) \notin MemberFiles
    BY <2>1, FileNames
  <2>3. w.files # <<>> => 1 \in DOMAIN w.files /\ Head(w.files) = w.files[1]
    BY <2>1, SeqParts
  <2> QED BY <2>1, <2>2, <2>3
<1>3. ASSUME NEW d \in Datasets, w = Trainer(d)
      PROVE  /\ w \in Work /\ w.step = "look"
             /\ w.files # <<>> => Head(w.files) # Hardened(w.ds)
             /\ \A i \in DOMAIN w.files :
                   /\ w.files[i] \in MemberFiles \cup {Base(w.ds), Hardened(w.ds),
                                                       Curriculum(w.ds)}
                   /\ w.files[i] = Hardened(w.ds) /\ i > 1 => w.files[i - 1] = Base(w.ds)
  <2>1. /\ w \in Work /\ w.step = "look" /\ w.ds = d /\ w.files \in Seq(Files)
        /\ DOMAIN w.files = 1..(Members + 2)
        /\ \A i \in 1..Members : w.files[i] \in MemberFiles
        /\ w.files[Members + 1] = Base(d) /\ w.files[Members + 2] = Hardened(d)
    BY <1>3, ScriptWork DEF Work
  <2>2. Hardened(d) \notin MemberFiles /\ Base(d) # Hardened(d)
    BY FileNames
  <2>3. w.files # <<>> => Head(w.files) = w.files[1]
    BY <2>1, SeqParts
  <2>4. 1 \in 1..Members /\ Members \in Nat
    BY FilesAssumption
  <2>5. \A i \in 1..(Members + 2) : i \in 1..Members \/ i = Members + 1 \/ i = Members + 2
    BY <2>4
  <2>6. Members + 2 - 1 = Members + 1
    BY <2>4
  <2> QED BY <2>1, <2>2, <2>3, <2>4, <2>5, <2>6
<1>4. ASSUME NEW d \in Datasets, w = TrainCurriculum(d)
      PROVE  /\ w \in Work /\ w.step = "look"
             /\ w.files # <<>> => Head(w.files) # Hardened(w.ds)
             /\ \A i \in DOMAIN w.files :
                   /\ w.files[i] \in MemberFiles \cup {Base(w.ds), Hardened(w.ds),
                                                       Curriculum(w.ds)}
                   /\ w.files[i] = Hardened(w.ds) /\ i > 1 => w.files[i - 1] = Base(w.ds)
  <2>1. /\ w \in Work /\ w.step = "look" /\ w.ds = d /\ w.files = <<Curriculum(d)>>
    BY <1>4, ScriptWork
  <2>2. Hardened(d) # Curriculum(d)
    BY FileNames
  <2> QED BY <2>1, <2>2
<1> QED BY <1>1, <1>2, <1>3, <1>4 DEF StartWork

\* Scripts start and end with such work, and while they do no file changes.
LEMMA ScriptStarts ==
    ASSUME TypeOK, StartScript \/ StartAll \/ LineEnds \/ ScriptFails \/ ScriptKilled
    PROVE  /\ python' \in StartWork
           /\ UNCHANGED <<file, trained, worker, task, job, members, served>>
           /\ line' \in 0..Completed /\ starts' \in 0..Starts /\ kills' \in 0..Kills
<1>1. /\ Half \in Nat \ {0} /\ Completed = 2 * Half + 1 /\ Len(Lines) = 2 * Half
      /\ \A i \in 1..Half : AllTraining[i] \in Datasets
      /\ \A k \in 1..Half : Lines[k] = Trainer(AllTraining[k])
      /\ \A k \in (Half + 1)..(2 * Half) : Lines[k] = TrainCurriculum(AllTraining[k - Half])
  BY LinesFacts
<1>2. \A k \in 1..(2 * Half) : Lines[k] \in StartWork
  <2>1. SUFFICES ASSUME NEW k \in 1..(2 * Half) PROVE Lines[k] \in StartWork
    OBVIOUS
  <2>2. CASE k \in 1..Half
    BY <1>1, <2>2 DEF StartWork
  <2>3. CASE k \in (Half + 1)..(2 * Half)
    <3>1. k - Half \in 1..Half
      BY <1>1, <2>3
    <3> QED BY <1>1, <2>3, <3>1 DEF StartWork
  <2>4. k \in 1..Half \/ k \in (Half + 1)..(2 * Half)
    BY <1>1
  <2> QED BY <2>2, <2>3, <2>4
<1>3. line \in 0..Completed /\ starts \in 0..Starts /\ kills \in 0..Kills
  BY DEF TypeOK
<1>4. CASE StartScript
  BY <1>1, <1>3, <1>4, FilesAssumption DEF StartScript, StartWork
<1>5. CASE StartAll
  <2>1. 1 \in 1..(2 * Half) /\ 1 \in 0..Completed
    BY <1>1
  <2> QED BY <1>2, <1>3, <1>5, <2>1, FilesAssumption DEF StartAll
<1>6. CASE LineEnds
  <2>1. line' \in 0..Completed /\ (line' # Completed => line' \in 1..(2 * Half))
    BY <1>1, <1>3, <1>6 DEF LineEnds, Ended
  <2> QED BY <1>2, <1>3, <1>6, <2>1 DEF LineEnds, StartWork
<1>7. CASE ScriptFails
  BY <1>1, <1>3, <1>7 DEF ScriptFails, StartWork
<1>8. CASE ScriptKilled
  BY <1>1, <1>3, <1>8, FilesAssumption DEF ScriptKilled, StartWork
<1> QED BY <1>4, <1>5, <1>6, <1>7, <1>8

\* The job of the worker.
LEMMA WorkerSteps ==
    ASSUME TypeOK, TaskShape, Boot \/ Submit \/ TakeJob \/ JobEnds \/ WorkerKilled
    PROVE  /\ UNCHANGED <<file, trained, python, line, starts>>
           /\ task' \in Work
           /\ task' = task \/ (task'.step = "look"
                 /\ \A i \in DOMAIN task'.files : task'.files[i] \in MemberFiles)
           /\ worker' \in {"down", "up", "trains"} /\ job' \in 0..Members
           /\ members' \subseteq MemberFiles /\ served' \in BOOLEAN /\ kills' \in 0..Kills
<1>1. /\ task \in Work /\ job \in 0..Members /\ members \subseteq MemberFiles
      /\ served \in BOOLEAN /\ kills \in 0..Kills /\ worker \in {"down", "up", "trains"}
  BY DEF TypeOK
<1>2. /\ Members \in Nat \ {0} /\ Kills \in Nat /\ Nsl \in Datasets
  BY FilesAssumption
<1>3. CASE Boot
  BY <1>1, <1>2, <1>3 DEF Boot, Loadable
<1>4. CASE Submit
  BY <1>1, <1>2, <1>4 DEF Submit
<1>5. CASE TakeJob
  <2> DEFINE own == Ensemble(job)
  <2>1. /\ own \in Seq(Files) /\ Len(own) = job /\ \A i \in 1..job : own[i] \in MemberFiles
    BY <1>1, EnsembleFacts
  <2>2. DOMAIN own = 1..job
    BY <2>1, SeqParts
  <2>3. task' = WorkOn(Nsl, own)
    BY <1>5 DEF TakeJob
  <2> HIDE DEF own
  <2>4. task' \in Work /\ task'.step = "look" /\ task'.files = own
    BY <1>2, <2>1, <2>3 DEF WorkOn, Nothing, Work
  <2>5. \A i \in DOMAIN task'.files : task'.files[i] \in MemberFiles
    BY <2>1, <2>2, <2>4
  <2> QED BY <1>1, <1>5, <2>4, <2>5 DEF TakeJob
<1>6. CASE JobEnds
  BY <1>1, <1>2, <1>6, NothingFacts DEF JobEnds
<1>7. CASE WorkerKilled
  BY <1>1, <1>2, <1>7, NothingFacts DEF WorkerKilled
<1> QED BY <1>3, <1>4, <1>5, <1>6, <1>7

\* Next by what it does to the files.
LEMMA NextCases ==
    Next <=> \/ StartScript \/ StartAll \/ LineEnds \/ ScriptFails \/ ScriptKilled
             \/ ScriptStep \/ JobStep \/ (\E f \in Files : RemoveTorn(f))
             \/ Boot \/ Submit \/ TakeJob \/ JobEnds \/ WorkerKilled
  BY DEF Next

LEMMA TypeStep ==
    ASSUME TypeOK, TaskShape, Next
    PROVE  TypeOK'
<1>1. file \in [Files -> Content] /\ python \in Work /\ task \in Work
  BY DEF TypeOK
<1>2. CASE StartScript \/ StartAll \/ LineEnds \/ ScriptFails \/ ScriptKilled
  <2>1. python' \in Work
    BY <1>2, ScriptStarts, StartWorkFacts
  <2> QED BY <1>2, <2>1, ScriptStarts DEF TypeOK
<1>3. ASSUME NEW w \in Work, NEW w2, Train(w, w2)
      PROVE  w2 \in Work /\ file' \in [Files -> Content] /\ trained' \in [Datasets -> Nat]
  <2>1. w.ds \in Datasets /\ w.base \in Nat
    BY DEF Work
  <2>2. Whole(w.ds, w.base) \in Content /\ Torn \in Content
    BY <2>1, ContentFacts
  <2> QED BY <1>1, <1>3, <2>2, TrainStep DEF TypeOK
<1>4. CASE ScriptStep
  <2>1. Train(python, python')
    BY <1>4 DEF ScriptStep
  <2> QED BY <1>1, <1>3, <1>4, <2>1 DEF ScriptStep, TypeOK
<1>5. CASE JobStep
  <2>1. Train(task, task')
    BY <1>5 DEF JobStep
  <2> QED BY <1>1, <1>3, <1>5, <2>1 DEF JobStep, TypeOK
<1>6. ASSUME NEW f \in Files, RemoveTorn(f) PROVE TypeOK'
  <2>1. file' \in [Files -> Content]
    BY <1>1, <1>6, ContentFacts DEF RemoveTorn
  <2>2. line' \in 0..Completed
    BY <1>6, LinesFacts DEF RemoveTorn
  <2> QED BY <1>6, <2>1, <2>2 DEF RemoveTorn, TypeOK
<1>7. CASE Boot \/ Submit \/ TakeJob \/ JobEnds \/ WorkerKilled
  BY <1>7, WorkerSteps DEF TypeOK
<1> QED BY <1>2, <1>4, <1>5, <1>6, <1>7, NextCases

\* The rest of a sequence of files of this shape has it too.
LEMMA ShapeStep ==
    ASSUME TypeOK, ScriptShape, TaskShape, Next
    PROVE  ScriptShape' /\ TaskShape'
<1>1. /\ python \in Work /\ python.files \in Seq(Files)
      /\ task \in Work /\ task.files \in Seq(Files)
  BY DEF TypeOK, Work
<1>2. CASE StartScript \/ StartAll \/ LineEnds \/ ScriptFails \/ ScriptKilled
  <2>1. python' \in StartWork /\ task' = task
    BY <1>2, ScriptStarts
  <2> QED BY <2>1, StartWorkFacts DEF ScriptShape, TaskShape
<1>3. CASE ScriptStep
  <2>1. Train(python, python') /\ task' = task
    BY <1>3 DEF ScriptStep
  <2>2. /\ python'.ds = python.ds /\ python.files # <<>>
        /\ python'.files = python.files \/ python'.files = Tail(python.files)
    BY <1>1, <2>1, TrainStep
  <2>3. /\ DOMAIN python.files = 1..Len(python.files) /\ Len(python.files) \in Nat
        /\ DOMAIN Tail(python.files) = 1..(Len(python.files) - 1)
        /\ \A i \in 1..(Len(python.files) - 1) : Tail(python.files)[i] = python.files[i + 1]
    BY <1>1, <2>2, SeqParts
  <2>4. CASE python'.files = python.files
    BY <2>1, <2>2, <2>4 DEF ScriptShape, TaskShape
  <2>5. CASE python'.files = Tail(python.files)
    <3> SUFFICES ASSUME NEW i \in DOMAIN python'.files
        PROVE  /\ python'.files[i] \in MemberFiles \cup {Base(python.ds), Hardened(python.ds),
                                                         Curriculum(python.ds)}
               /\ python'.files[i] = Hardened(python.ds) /\ i > 1 =>
                     python'.files[i - 1] = Base(python.ds)
      BY <2>1, <2>2 DEF ScriptShape, TaskShape
    <3>1. /\ i \in 1..(Len(python.files) - 1) /\ i + 1 \in DOMAIN python.files
          /\ i + 1 > 1 /\ i + 1 - 1 = i
          /\ i > 1 => i - 1 \in 1..(Len(python.files) - 1) /\ i - 1 + 1 = i
      BY <2>3, <2>5
    <3>2. /\ python'.files[i] = python.files[i + 1]
          /\ i > 1 => python'.files[i - 1] = python.files[i]
      BY <2>3, <2>5, <3>1
    <3>3. /\ python.files[i + 1] \in MemberFiles \cup {Base(python.ds), Hardened(python.ds),
                                                       Curriculum(python.ds)}
          /\ python.files[i + 1] = Hardened(python.ds) => python.files[i] = Base(python.ds)
      BY <3>1 DEF ScriptShape
    <3> QED BY <3>2, <3>3
  <2> QED BY <2>2, <2>4, <2>5
<1>4. CASE JobStep
  <2>1. Train(task, task') /\ python' = python
    BY <1>4 DEF JobStep
  <2>2. /\ task.files # <<>>
        /\ task'.files = task.files \/ task'.files = Tail(task.files)
    BY <1>1, <2>1, TrainStep
  <2>3. \A i \in DOMAIN Tail(task.files) :
           i + 1 \in DOMAIN task.files /\ Tail(task.files)[i] = task.files[i + 1]
    BY <1>1, <2>2, SeqParts
  <2> QED BY <2>1, <2>2, <2>3 DEF ScriptShape, TaskShape
<1>5. ASSUME NEW f \in Files, RemoveTorn(f) PROVE ScriptShape' /\ TaskShape'
  BY <1>5 DEF RemoveTorn, ScriptShape, TaskShape
<1>6. CASE Boot \/ Submit \/ TakeJob \/ JobEnds \/ WorkerKilled
  BY <1>6, WorkerSteps DEF ScriptShape, TaskShape
<1> QED BY <1>2, <1>3, <1>4, <1>5, <1>6, NextCases

\* The first file of the work, and the one after it.
LEMMA HeadShape ==
    ASSUME TypeOK, ScriptShape, python.files # <<>>
    PROVE  /\ Head(python.files) \in MemberFiles \cup {Base(python.ds), Hardened(python.ds),
                                                       Curriculum(python.ds)}
           /\ Tail(python.files) # <<>> /\ Head(Tail(python.files)) = Hardened(python.ds) =>
                 Head(python.files) = Base(python.ds)
<1>1. python.files \in Seq(Files)
  BY DEF TypeOK, Work
<1>2. /\ 1 \in DOMAIN python.files /\ Head(python.files) = python.files[1]
      /\ Tail(python.files) \in Seq(Files)
  BY <1>1, SeqParts
<1>3. Tail(python.files) # <<>> => 2 \in DOMAIN python.files
                                   /\ Head(Tail(python.files)) = python.files[2]
  BY <1>1, SeqParts
<1>4. 2 > 1 /\ 2 - 1 = 1
  OBVIOUS
<1> QED BY <1>2, <1>3, <1>4 DEF ScriptShape

LEMMA TaskHead ==
    ASSUME TypeOK, TaskShape, task.files # <<>>
    PROVE  Head(task.files) \in MemberFiles
<1>1. task.files \in Seq(Files)
  BY DEF TypeOK, Work
<1> QED BY <1>1, SeqParts DEF TaskShape

-----------------------------------------------------------------------------
(* Hardened models and their base models.                                  *)

\* A step that changes members only.
LEMMA OtherFilesFit ==
    ASSUME TypeOK, ModelsFit, ScriptFits, ScriptShape, python' = python,
           NEW f \in MemberFiles, NEW content, file' = [file EXCEPT ![f] = content]
    PROVE  ModelsFit' /\ ScriptFits'
<1>1. file \in [Files -> Content] /\ python.ds \in Datasets
  BY DEF TypeOK, Work
<1>2. \A d \in Datasets : /\ file'[Base(d)] = file[Base(d)]
                          /\ file'[Hardened(d)] = file[Hardened(d)]
                          /\ file'[Curriculum(d)] = file[Curriculum(d)]
  BY <1>1, FileNames
<1>3. ModelsFit'
  BY <1>2 DEF ModelsFit, Is
<1>4. ScriptFits'
  BY <1>1, <1>2 DEF ScriptFits, Is
<1> QED BY <1>3, <1>4

LEMMA FitStep ==
    ASSUME TypeOK, ScriptShape, TaskShape, ModelsFit, ScriptFits, Next
    PROVE  ModelsFit' /\ ScriptFits'
<1>1. /\ file \in [Files -> Content] /\ python \in Work /\ python.ds \in Datasets
      /\ python.base \in Nat /\ task \in Work
  BY DEF TypeOK, Work
<1>2. CASE StartScript \/ StartAll \/ LineEnds \/ ScriptFails \/ ScriptKilled
  <2>1. python' \in StartWork /\ file' = file
    BY <1>2, ScriptStarts
  <2>2. ModelsFit'
    BY <2>1 DEF ModelsFit, Is
  <2>3. python'.step = "look" /\ (python'.files # <<>> =>
          Head(python'.files) # Hardened(python'.ds))
    BY <2>1, StartWorkFacts
  <2> QED BY <2>2, <2>3 DEF ScriptFits
<1>3. CASE ScriptStep
  <2>1. Train(python, python')
    BY <1>3 DEF ScriptStep
  <2>0. PICK d \in Datasets, f \in Files : d = python.ds /\ f = Head(python.files)
    BY <1>1, <2>1, TrainStep
  <2>2. python'.ds = d /\ python.files # <<>> /\ f \in Files
    BY <1>1, <2>0, <2>1, TrainStep
  <2>3. f \in MemberFiles \cup {Base(d), Hardened(d), Curriculum(d)}
    BY <2>0, <2>2, HeadShape
  <2>4. /\ Base(d) \in Files /\ Hardened(d) \in Files /\ Curriculum(d) \in Files
        /\ Base(d) \notin MemberFiles /\ Hardened(d) \notin MemberFiles
        /\ Curriculum(d) \notin MemberFiles
        /\ Base(d) # Hardened(d) /\ Base(d) # Curriculum(d) /\ Hardened(d) # Curriculum(d)
    BY <1>1, FileNames
  <2>5. /\ f = Hardened(d) => Is(Base(d), "whole") /\ file[Base(d)].base = python.base
        /\ python.step = "train" /\ f \in {Base(d), Hardened(d)} => Is(f, "absent")
        /\ python.step = "save" /\ f = Base(d) => Is(f, "torn") /\ python.base # 0
    BY <2>0, <2>2 DEF ScriptFits
  <2>6. /\ ~Is(Hardened(d), "absent") => Is(Base(d), "whole")
        /\ Is(Base(d), "whole") => file[Base(d)].base # 0
        /\ Is(Hardened(d), "whole") => file[Hardened(d)].base = file[Base(d)].base
        /\ \A h \in {Base(d), Hardened(d), Curriculum(d)} : Is(h, "whole") => file[h].ds = d
    BY <1>1 DEF ModelsFit
  <2>7. \A e \in Datasets \ {d} : f \notin {Base(e), Hardened(e), Curriculum(e)}
    BY <1>1, <2>3, FileNames
  <2>8. ASSUME NEW content, file' = [file EXCEPT ![f] = content],
               /\ ~Is(Hardened(d), "absent")' => Is(Base(d), "whole")'
               /\ Is(Base(d), "whole")' => file'[Base(d)].base # 0
               /\ Is(Hardened(d), "whole")' => file'[Hardened(d)].base = file'[Base(d)].base
               /\ \A h \in {Base(d), Hardened(d), Curriculum(d)} :
                     Is(h, "whole")' => file'[h].ds = d
        PROVE  ModelsFit'
    <3>1. \A e \in Datasets \ {d} : /\ file'[Base(e)] = file[Base(e)]
                                    /\ file'[Hardened(e)] = file[Hardened(e)]
                                    /\ file'[Curriculum(e)] = file[Curriculum(e)]
      BY <1>1, <2>7, <2>8, FileNames
    <3> QED BY <2>8, <3>1 DEF ModelsFit, Is
  <2>9. CASE python.step = "look" /\ python'.step = "train"
    <3>1. /\ python'.files = python.files /\ file' = file
          /\ f \in MemberFiles \cup {Base(d), Hardened(d)} =>
                Is(f, "absent") /\ python'.base = python.base
      BY <1>1, <2>1, <2>9, <2>0, TrainStep
    <3>2. ModelsFit'
      BY <3>1 DEF ModelsFit, Is
    <3>3. ScriptFits'
      BY <2>0, <2>2, <2>4, <2>5, <2>9, <3>1 DEF ScriptFits, Is
    <3> QED BY <3>2, <3>3
  <2>10. CASE python.step = "look" /\ python'.step = "look"
    <3>1. /\ python'.files = Tail(python.files) /\ file' = file
          /\ f \in MemberFiles \/ (Is(f, "whole") /\ f \in {Base(d), Hardened(d)})
          /\ python'.base = IF f = Base(d) THEN file[f].base ELSE python.base
      BY <1>1, <2>1, <2>10, <2>0, TrainStep
    <3>2. ModelsFit'
      BY <3>1 DEF ModelsFit, Is
    <3>3. python'.files # <<>> /\ Head(python'.files) = Hardened(d) => f = Base(d)
      BY <2>2, <3>1, <2>0, HeadShape
    <3>4. ScriptFits'
      BY <2>0, <2>2, <2>4, <2>10, <3>1, <3>3 DEF ScriptFits, Is
    <3> QED BY <3>2, <3>4
  <2>11. CASE python.step = "train"
    <3>1. /\ python'.files = python.files /\ python'.step = "save"
          /\ file' = [file EXCEPT ![f] = Torn]
          /\ IF f = Base(d) THEN python'.base # 0 ELSE python'.base = python.base
      BY <1>1, <2>1, <2>11, <2>0, TrainStep
    <3>2. /\ file'[f] = Torn /\ Torn.is = "torn"
          /\ \A h \in Files \ {f} : file'[h] = file[h]
      BY <1>1, <2>2, <3>1, ContentFacts
    <3>3. ModelsFit'
      <4>1. /\ ~Is(Hardened(d), "absent")' => Is(Base(d), "whole")'
            /\ Is(Base(d), "whole")' => file'[Base(d)].base # 0
            /\ Is(Hardened(d), "whole")' => file'[Hardened(d)].base = file'[Base(d)].base
        BY <2>2, <2>3, <2>4, <2>5, <2>6, <2>11, <3>2 DEF Is
      <4>2. \A h \in {Base(d), Hardened(d), Curriculum(d)} :
               Is(h, "whole")' => file'[h].ds = d
        BY <2>2, <2>3, <2>4, <2>5, <2>6, <2>11, <3>2 DEF Is
      <4> QED BY <2>8, <3>1, <4>1, <4>2
    <3>4. ScriptFits'
      BY <2>0, <2>2, <2>4, <2>5, <3>1, <3>2 DEF ScriptFits, Is
    <3> QED BY <3>3, <3>4
  <2>12. CASE python.step = "save"
    <3>1. /\ python'.files = Tail(python.files) /\ python'.step = "look"
          /\ file' = [file EXCEPT ![f] = Whole(d, python.base)]
          /\ python'.base = python.base
      BY <1>1, <2>1, <2>12, <2>0, TrainStep
    <3>2. /\ file'[f].is = "whole" /\ file'[f].ds = d /\ file'[f].base = python.base
          /\ \A h \in Files \ {f} : file'[h] = file[h]
      BY <1>1, <2>2, <3>1, ContentFacts
    <3>3. ModelsFit'
      <4>1. /\ ~Is(Hardened(d), "absent")' => Is(Base(d), "whole")'
            /\ Is(Base(d), "whole")' => file'[Base(d)].base # 0
            /\ Is(Hardened(d), "whole")' => file'[Hardened(d)].base = file'[Base(d)].base
        BY <2>2, <2>3, <2>4, <2>5, <2>6, <2>12, <3>2 DEF Is
      <4>2. \A h \in {Base(d), Hardened(d), Curriculum(d)} :
               Is(h, "whole")' => file'[h].ds = d
        BY <2>2, <2>3, <2>4, <2>5, <2>6, <2>12, <3>2 DEF Is
      <4> QED BY <2>8, <3>1, <4>1, <4>2
    <3>4. python'.files # <<>> /\ Head(python'.files) = Hardened(d) => f = Base(d)
      BY <2>2, <3>1, <2>0, HeadShape
    <3>5. ScriptFits'
      BY <2>0, <2>2, <2>4, <3>1, <3>2, <3>4 DEF ScriptFits, Is
    <3> QED BY <3>3, <3>5
  <2>13. python.step \in {"look", "train", "save"} /\ (python.step = "look" =>
            python'.step \in {"look", "train"})
    BY <1>1, <2>1, TrainStep DEF Work
  <2> QED BY <2>9, <2>10, <2>11, <2>12, <2>13
<1>4. CASE JobStep
  <2>1. Train(task, task') /\ python' = python
    BY <1>4 DEF JobStep
  <2>2. task.files # <<>> /\ (file' = file \/ \E content :
          file' = [file EXCEPT ![Head(task.files)] = content])
    BY <1>1, <2>1, TrainStep
  <2>3. Head(task.files) \in MemberFiles
    BY <2>2, TaskHead
  <2>4. CASE file' = file
    BY <2>1, <2>4 DEF ModelsFit, ScriptFits, Is
  <2> QED BY <2>1, <2>2, <2>3, <2>4, OtherFilesFit
<1>5. ASSUME NEW f \in Files, RemoveTorn(f) PROVE ModelsFit' /\ ScriptFits'
  <2>1. /\ file' = [file EXCEPT ![f] = Absent] /\ Is(f, "torn")
        /\ python' = python /\ python.files = <<>>
    BY <1>5 DEF RemoveTorn, NoScript
  <2>2. ScriptFits'
    BY <2>1 DEF ScriptFits
  <2>3. /\ file'[f] = Absent /\ Absent.is = "absent"
        /\ \A h \in Files \ {f} : file'[h] = file[h]
    BY <1>1, <2>1, ContentFacts
  <2>4. ASSUME NEW d \in Datasets
        PROVE  /\ ~Is(Hardened(d), "absent")' => Is(Base(d), "whole")'
               /\ Is(Base(d), "whole")' => file'[Base(d)].base # 0
               /\ Is(Hardened(d), "whole")' => file'[Hardened(d)].base = file'[Base(d)].base
               /\ \A h \in {Base(d), Hardened(d), Curriculum(d)} :
                     Is(h, "whole")' => file'[h].ds = d
    <3>1. Base(d) \in Files /\ Hardened(d) \in Files /\ Curriculum(d) \in Files
      BY FileNames
    <3>2. /\ ~Is(Hardened(d), "absent") => Is(Base(d), "whole")
          /\ Is(Base(d), "whole") => file[Base(d)].base # 0
          /\ Is(Hardened(d), "whole") => file[Hardened(d)].base = file[Base(d)].base
          /\ \A h \in {Base(d), Hardened(d), Curriculum(d)} : Is(h, "whole") => file[h].ds = d
      BY DEF ModelsFit
    <3> QED BY <2>1, <2>3, <3>1, <3>2 DEF Is
  <2> QED BY <2>2, <2>4 DEF ModelsFit
<1>6. CASE Boot \/ Submit \/ TakeJob \/ JobEnds \/ WorkerKilled
  BY <1>6, WorkerSteps DEF ModelsFit, ScriptFits, Is
<1> QED BY <1>2, <1>3, <1>4, <1>5, <1>6, NextCases

-----------------------------------------------------------------------------
(* The member the worker can start with.                                   *)

\* Training takes no member that can be loaded, unless it already trains it, and
\* what it trains, if nobody else writes it, cannot be loaded.
LEMMA TrainKeepsMembers ==
    ASSUME TypeOK, NEW w \in Work, NEW w2, Train(w, w2)
    PROVE  /\ \A g \in Loadable : g \notin Busy(w) => g \in Loadable' /\ g \notin Busy(w2)
           /\ Busy(w) \cap Loadable = {} => (Busy(w2) \cap Loadable')  = {}
<1>1. /\ file \in [Files -> Content] /\ w.ds \in Datasets /\ w.base \in Nat
      /\ w.step \in {"look", "train", "save"}
  BY DEF TypeOK, Work
<1>2. PICK f \in Files, d \in Datasets : f = Head(w.files) /\ d = w.ds
  BY <1>1, TrainStep
<1>3. /\ w.files # <<>>
      /\ Busy(w) = IF w.step # "look" THEN {f} ELSE {}
      /\ Busy(w2) = IF w2.files # <<>> /\ w2.step # "look" THEN {Head(w2.files)} ELSE {}
  BY <1>2, TrainStep DEF Busy
<1>4. /\ \A g \in Loadable : g \in Files /\ file[g].is = "whole"
      /\ Curriculum(d) \notin MemberFiles
  BY FileNames DEF Loadable, Is
<1>5. CASE w.step = "look" /\ w2.step = "train"
  <2>1. /\ file' = file /\ w2.files = w.files
        /\ Is(f, "absent") \/ f \notin MemberFiles
    BY <1>2, <1>4, <1>5, TrainStep
  <2>2. Loadable' = Loadable /\ Busy(w2) = {f} /\ f \notin Loadable
    BY <1>2, <1>3, <1>4, <1>5, <2>1 DEF Loadable, Is
  <2> QED BY <2>2
<1>6. CASE w.step = "look" /\ w2.step = "look"
  <2>1. file' = file
    BY <1>6, TrainStep
  <2>2. Loadable' = Loadable /\ Busy(w2) = {}
    BY <1>3, <1>6, <2>1 DEF Loadable, Is
  <2> QED BY <2>2
<1>7. CASE w.step = "train"
  <2>1. file' = [file EXCEPT ![f] = Torn] /\ w2.files = w.files /\ w2.step = "save"
    BY <1>2, <1>7, TrainStep
  <2>2. /\ file'[f].is = "torn" /\ \A g \in Files \ {f} : file'[g] = file[g]
    BY <1>1, <2>1, ContentFacts
  <2>3. Busy(w) = {f} /\ Busy(w2) = {f} /\ f \notin Loadable'
    BY <1>2, <1>3, <1>7, <2>1, <2>2 DEF Loadable, Is
  <2>4. \A g \in Loadable \ {f} : g \in Loadable'
    BY <1>4, <2>2 DEF Loadable, Is
  <2> QED BY <2>3, <2>4
<1>8. CASE w.step = "save"
  <2>1. file' = [file EXCEPT ![f] = Whole(d, w.base)] /\ w2.step = "look"
    BY <1>2, <1>8, TrainStep
  <2>2. \A g \in Files \ {f} : file'[g] = file[g]
    BY <1>1, <2>1
  <2>3. Busy(w) = {f} /\ Busy(w2) = {}
    BY <1>3, <1>8, <2>1
  <2>4. \A g \in Loadable \ {f} : g \in Loadable'
    BY <1>4, <2>2 DEF Loadable, Is
  <2> QED BY <2>3, <2>4
<1>9. w.step = "look" => w2.step \in {"look", "train"}
  BY TrainStep
<1> QED BY <1>1, <1>5, <1>6, <1>7, <1>8, <1>9

LEMMA SafeStep ==
    ASSUME TypeOK, SafeMember, Next
    PROVE  SafeMember'
<1>1. file \in [Files -> Content] /\ python \in Work /\ task \in Work /\ served \in BOOLEAN
  BY DEF TypeOK
<1>2. CASE StartScript \/ StartAll \/ LineEnds \/ ScriptFails \/ ScriptKilled
  <2>1. python' \in StartWork /\ UNCHANGED <<file, worker, task, served>>
    BY <1>2, ScriptStarts
  <2>2. Busy(python') = {} /\ Loadable' = Loadable
    BY <2>1, StartWorkFacts DEF Busy, Loadable, Is
  <2> QED BY <2>1, <2>2 DEF SafeMember
<1>3. CASE ScriptStep
  <2>1. Train(python, python') /\ UNCHANGED <<worker, task, served>>
    BY <1>3 DEF ScriptStep
  <2>2. /\ \A g \in Loadable : g \notin Busy(python) =>
                                  g \in Loadable' /\ g \notin Busy(python')
        /\ Busy(python) \cap Loadable = {} => (Busy(python') \cap Loadable') = {}
    BY <1>1, <2>1, TrainKeepsMembers
  <2> QED BY <2>1, <2>2 DEF SafeMember
<1>4. CASE JobStep
  <2>1. Train(task, task') /\ UNCHANGED <<worker, python, served>> /\ worker = "trains"
    BY <1>4 DEF JobStep
  <2>2. \A g \in Loadable : g \notin Busy(task) => g \in Loadable' /\ g \notin Busy(task')
    BY <1>1, <2>1, TrainKeepsMembers
  <2> QED BY <1>1, <2>1, <2>2 DEF SafeMember
<1>5. ASSUME NEW f \in Files, RemoveTorn(f) PROVE SafeMember'
  <2>1. /\ file' = [file EXCEPT ![f] = Absent] /\ file[f].is = "torn"
        /\ UNCHANGED <<python, worker, task, served>> /\ Busy(python) = {}
    BY <1>5 DEF RemoveTorn, Is, NoScript, Busy
  <2>2. \A g \in Loadable : g \in Loadable'
    BY <1>1, <2>1 DEF Loadable, Is, Files
  <2> QED BY <2>1, <2>2 DEF SafeMember
<1>6. CASE Boot
  <2>1. /\ worker = "down" /\ Loadable # {} /\ served' = TRUE
        /\ UNCHANGED <<file, python, task>>
    BY <1>6 DEF Boot
  <2>2. Loadable' = Loadable
    BY <2>1 DEF Loadable, Is
  <2>3. ~served => Busy(task) = {}
    BY DEF SafeMember, Busy
  <2> QED BY <1>1, <2>1, <2>2, <2>3 DEF SafeMember
<1>7. CASE Submit \/ WorkerKilled
  <2>1. /\ UNCHANGED <<file, python, served>>
        /\ worker' = worker \/ worker' = "down"
        /\ task' = task \/ task'.files = <<>>
    BY <1>7, NothingFacts DEF Submit, WorkerKilled
  <2>2. Loadable' = Loadable /\ (Busy(task') = Busy(task) \/ Busy(task') = {})
    BY <2>1 DEF Loadable, Is, Busy
  <2> QED BY <2>1, <2>2 DEF SafeMember
<1>8. CASE TakeJob \/ JobEnds
  <2>1. UNCHANGED <<file, python, served>> /\ worker # "down" /\ task'.step = "look"
    BY <1>8, NothingFacts DEF TakeJob, JobEnds, WorkOn, Nothing
  <2>2. Loadable' = Loadable /\ Busy(task') = {}
    BY <2>1 DEF Loadable, Is, Busy
  <2> QED BY <1>1, <2>1, <2>2 DEF SafeMember
<1> QED BY <1>2, <1>3, <1>4, <1>5, <1>6, <1>7, <1>8, NextCases

-----------------------------------------------------------------------------
(* The lines of run_all_training.sh.                                       *)

\* The line that is next has its dataset and its files.
LEMMA LineStarts ==
    ASSUME NEW k \in 1..(2 * Half), python' = Lines[k], line' = k
    PROVE  LineShape' /\ (k <= Half => \A f \in {Base(AllTraining[k]), Hardened(AllTraining[k])} :
                                          Left(f)')
           /\ (k > Half => Left(Curriculum(AllTraining[k - Half]))')
<1>1. /\ Half \in Nat \ {0} /\ Completed = 2 * Half + 1
      /\ \A i \in 1..Half : AllTraining[i] \in Datasets
      /\ \A i \in 1..Half : Lines[i] = Trainer(AllTraining[i])
      /\ \A i \in (Half + 1)..(2 * Half) : Lines[i] = TrainCurriculum(AllTraining[i - Half])
  BY LinesFacts
<1>2. CASE k \in 1..Half
  <2>1. PICK d \in Datasets : d = AllTraining[k]
    BY <1>1, <1>2
  <2>2. python' = Trainer(d)
    BY <1>1, <1>2, <2>1
  <2>3. /\ python'.ds = d /\ DOMAIN python'.files = 1..(Members + 2)
        /\ \A i \in 1..Members : python'.files[i] \in MemberFiles
        /\ python'.files[Members + 1] = Base(d) /\ python'.files[Members + 2] = Hardened(d)
    BY <2>2, ScriptWork
  <2>4. /\ Members + 1 \in 1..(Members + 2) /\ Members + 2 \in 1..(Members + 2)
        /\ \A i \in 1..(Members + 2) : i \in 1..Members \/ i = Members + 1 \/ i = Members + 2
    BY FilesAssumption
  <2>5. Curriculum(d) \notin MemberFiles /\ Base(d) # Curriculum(d) /\ Hardened(d) # Curriculum(d)
    BY FileNames
  <2>6. \A i \in DOMAIN python'.files : python'.files[i] # Curriculum(d)
    BY <2>3, <2>4, <2>5
  <2>7. k \notin (Half + 1)..(2 * Half) /\ k # Completed /\ ~(k > Half)
    BY <1>1, <1>2
  <2>8. LineShape'
    BY <2>1, <2>3, <2>6, <2>7 DEF LineShape, Half, Completed, Lines
  <2>9. Left(Base(d))' /\ Left(Hardened(d))'
    BY <2>3, <2>4 DEF Left
  <2> QED BY <2>1, <2>7, <2>8, <2>9
<1>3. CASE k \in (Half + 1)..(2 * Half)
  <2>1. PICK d \in Datasets : d = AllTraining[k - Half]
    <3>1. k - Half \in 1..Half
      BY <1>1, <1>3
    <3> QED BY <1>1, <3>1
  <2>2. python' = TrainCurriculum(d)
    BY <1>1, <1>3, <2>1
  <2>3. python'.ds = d /\ python'.step = "look" /\ python'.files = <<Curriculum(d)>>
    BY <2>2, ScriptWork
  <2>4. /\ \A i \in DOMAIN python'.files : python'.files[i] = Curriculum(d)
        /\ 1 \in DOMAIN python'.files /\ Busy(python') = {}
    BY <2>3 DEF Busy
  <2>5. k \notin 1..Half /\ k # Completed /\ ~(k <= Half)
    BY <1>1, <1>3
  <2>6. LineShape'
    BY <2>1, <2>3, <2>4, <2>5 DEF LineShape
  <2>7. Left(Curriculum(d))'
    BY <2>4 DEF Left
  <2> QED BY <2>1, <2>5, <2>6, <2>7
<1>4. k \in 1..Half \/ k \in (Half + 1)..(2 * Half)
  BY <1>1
<1> QED BY <1>2, <1>3, <1>4

\* The files a step of the script leaves: base and hardened models that are whole stay
\* so, the base models as they are, and curriculum models but its own.
LEMMA ScriptKeeps ==
    ASSUME TypeOK, ScriptShape, ScriptFits, Train(python, python')
    PROVE  \A e \in Datasets :
              /\ Is(Base(e), "whole") =>
                    Is(Base(e), "whole")' /\ file'[Base(e)].base = file[Base(e)].base
              /\ Is(Hardened(e), "whole") => Is(Hardened(e), "whole")'
              /\ Curriculum(e) # Head(python.files) =>
                    file'[Curriculum(e)] = file[Curriculum(e)]
<1>1. /\ file \in [Files -> Content] /\ python \in Work /\ python.ds \in Datasets
      /\ python.base \in Nat
  BY DEF TypeOK, Work
<1>2. PICK f \in Files, d \in Datasets : f = Head(python.files) /\ d = python.ds
  BY <1>1, TrainStep
<1>3. python.files # <<>> /\ f \in MemberFiles \cup {Base(d), Hardened(d), Curriculum(d)}
  BY <1>1, <1>2, TrainStep, HeadShape
<1> SUFFICES ASSUME NEW e \in Datasets
    PROVE  /\ Is(Base(e), "whole") =>
                 Is(Base(e), "whole")' /\ file'[Base(e)].base = file[Base(e)].base
           /\ Is(Hardened(e), "whole") => Is(Hardened(e), "whole")'
           /\ Curriculum(e) # f => file'[Curriculum(e)] = file[Curriculum(e)]
  BY <1>2
<1>4. /\ Base(e) \in Files /\ Hardened(e) \in Files /\ Curriculum(e) \in Files
      /\ f = Base(e) => f = Base(d)
      /\ f = Hardened(e) => f = Hardened(d)
  BY <1>3, FileNames
<1>5. /\ python.step = "train" /\ f \in {Base(d), Hardened(d)} => file[f].is = "absent"
      /\ python.step = "save" /\ f = Base(d) => file[f].is = "torn"
  BY <1>2, <1>3 DEF ScriptFits, Is
<1>6. CASE file' = file
  BY <1>6 DEF Is
<1>7. CASE python.step = "train" /\ file' = [file EXCEPT ![f] = Torn]
  <2>1. \A g \in Files \ {f} : file'[g] = file[g]
    BY <1>1, <1>7
  <2> QED BY <1>4, <1>5, <1>7, <2>1 DEF Is
<1>8. CASE python.step = "save" /\ file' = [file EXCEPT ![f] = Whole(d, python.base)]
  <2>1. file'[f].is = "whole" /\ \A g \in Files \ {f} : file'[g] = file[g]
    BY <1>1, <1>8, ContentFacts
  <2> QED BY <1>4, <1>5, <1>8, <2>1 DEF Is
<1> QED BY <1>1, <1>2, <1>6, <1>7, <1>8, TrainStep

\* What the script is done with is there.
LEMMA ScriptLeaves ==
    ASSUME TypeOK, ScriptShape, Train(python, python'), NEW g, Left(g), ~Left(g)'
    PROVE  /\ python'.files = Tail(python.files) /\ g = Head(python.files)
           /\ g \notin MemberFiles => Is(g, "whole")'
           /\ python.step \in {"look", "save"} /\ python'.ds = python.ds
           /\ python.step = "look" /\ g \notin MemberFiles => g # Curriculum(python.ds)
           /\ python.step = "save" => file'[g] = Whole(python.ds, python.base)
<1>1. /\ file \in [Files -> Content] /\ python \in Work /\ python.ds \in Datasets
      /\ python.base \in Nat /\ python.files \in Seq(Files)
      /\ python.step \in {"look", "train", "save"}
  BY DEF TypeOK, Work
<1>2. python.files # <<>> /\ python'.ds = python.ds /\ Head(python.files) \in Files
  BY <1>1, TrainStep
<1>3. python'.files # python.files
  BY DEF Left
<1>4. python'.files = Tail(python.files)
  BY <1>1, <1>3, TrainStep
<1>5. /\ DOMAIN python.files = 1..Len(python.files) /\ Len(python.files) \in Nat
      /\ Head(python.files) = python.files[1]
      /\ DOMAIN Tail(python.files) = 1..(Len(python.files) - 1)
      /\ \A i \in 1..(Len(python.files) - 1) : Tail(python.files)[i] = python.files[i + 1]
  BY <1>1, <1>2, SeqParts
<1>6. g = Head(python.files)
  <2>1. PICK k \in 1..Len(python.files) : python.files[k] = g
    BY <1>5 DEF Left
  <2>2. CASE k = 1
    BY <1>5, <2>1, <2>2
  <2>3. CASE k # 1
    <3>1. k - 1 \in 1..(Len(python.files) - 1) /\ k - 1 + 1 = k
      BY <1>5, <2>3
    <3>2. Tail(python.files)[k - 1] = g
      BY <1>5, <2>1, <3>1
    <3> QED BY <1>4, <1>5, <3>1, <3>2 DEF Left
  <2> QED BY <2>2, <2>3
<1>7. CASE python.step = "look"
  <2>1. /\ file' = file
        /\ g \in MemberFiles \/ (Is(g, "whole") /\ g \in {Base(python.ds), Hardened(python.ds)})
    BY <1>1, <1>3, <1>6, <1>7, TrainStep
  <2>2. Curriculum(python.ds) \notin {Base(python.ds), Hardened(python.ds)}
    BY <1>1, FileNames
  <2> QED BY <1>2, <1>4, <1>6, <1>7, <2>1, <2>2 DEF Is
<1>8. CASE python.step = "save"
  <2>1. file' = [file EXCEPT ![g] = Whole(python.ds, python.base)]
    BY <1>1, <1>6, <1>8, TrainStep
  <2>2. file'[g] = Whole(python.ds, python.base) /\ Is(g, "whole")'
    BY <1>1, <1>2, <1>6, <2>1, ContentFacts DEF Is
  <2> QED BY <1>2, <1>4, <1>6, <1>8, <2>2
<1>9. python.step # "train"
  BY <1>1, <1>3, TrainStep
<1> QED BY <1>1, <1>7, <1>8, <1>9

LEMMA LineShapeStep ==
    ASSUME TypeOK, ScriptShape, TaskShape, ScriptFits, LineShape, Next
    PROVE  LineShape'
<1>1. /\ Half \in Nat \ {0} /\ Completed = 2 * Half + 1 /\ line \in 0..Completed
      /\ Half' = Half /\ Completed' = Completed
      /\ file \in [Files -> Content] /\ python \in Work /\ task \in Work
      /\ python.files \in Seq(Files) /\ python.ds \in Datasets
  BY LinesFacts DEF TypeOK, Half, Completed, Lines, Work
<1>2. /\ 0 \notin 1..Half /\ 0 \notin (Half + 1)..(2 * Half) /\ 0 # Completed
      /\ Completed \notin 1..Half /\ Completed \notin (Half + 1)..(2 * Half)
  BY <1>1
<1>3. CASE StartScript \/ ScriptFails \/ ScriptKilled \/ (\E f \in Files : RemoveTorn(f))
  <2>1. line' = 0
    BY <1>3 DEF StartScript, ScriptFails, ScriptKilled, RemoveTorn
  <2> QED BY <1>1, <1>2, <2>1 DEF LineShape
<1>4. CASE StartAll
  <2>1. 1 \in 1..(2 * Half) /\ python' = Lines[1] /\ line' = 1
    BY <1>1, <1>4 DEF StartAll
  <2> QED BY <2>1, LineStarts
<1>5. CASE LineEnds
  <2>1. CASE line' = Completed
    <3>1. python'.files = <<>>
      BY <1>5, <2>1, NothingFacts DEF LineEnds
    <3> QED BY <1>1, <1>2, <2>1, <3>1 DEF LineShape
  <2>2. CASE line' # Completed
    <3>1. line' = line + 1 /\ line # 0 /\ line # Completed /\ python' = Lines[line']
      BY <1>5, <2>2 DEF LineEnds, Ended
    <3>2. PICK k \in 1..(2 * Half) : k = line'
      BY <1>1, <2>2, <3>1
    <3> QED BY <3>1, <3>2, LineStarts
  <2> QED BY <2>1, <2>2
<1>6. CASE ScriptStep
  <2>1. Train(python, python') /\ line' = line /\ python.files # <<>>
    BY <1>6 DEF ScriptStep, NoScript
  <2>2. python'.ds = python.ds
    BY <1>1, <2>1, TrainStep
  <2>3. \A k \in DOMAIN python'.files : \E j \in DOMAIN python.files :
           python'.files[k] = python.files[j]
    <3>1. python'.files = python.files \/ python'.files = Tail(python.files)
      BY <1>1, <2>1, TrainStep
    <3>2. \A k \in DOMAIN Tail(python.files) :
             k + 1 \in DOMAIN python.files /\ Tail(python.files)[k] = python.files[k + 1]
      BY <1>1, <2>1, SeqParts
    <3> QED BY <3>1, <3>2
  <2>4. ASSUME line \in (Half + 1)..(2 * Half), Busy(python') # {}
        PROVE  python'.base = file'[Base(python'.ds)].base
    <3>1. PICK d \in Datasets : d = python.ds /\ d = python'.ds
      BY <1>1, <2>2
    <3>2. Head(python.files) = Curriculum(d)
      BY <1>1, <2>1, <2>4, <3>1, SeqParts DEF LineShape
    <3>3. /\ Curriculum(d) \notin MemberFiles /\ Base(d) # Curriculum(d)
          /\ Hardened(d) # Curriculum(d) /\ Base(d) \in Files
      BY FileNames
    <3>4. python'.step # "look"
      BY <2>4 DEF Busy
    <3>5. CASE python.step = "look"
      BY <1>1, <2>1, <3>1, <3>2, <3>3, <3>4, <3>5, TrainStep
    <3>6. CASE python.step = "train"
      <4>1. Busy(python) # {}
        BY <2>1, <3>6 DEF Busy
      <4>2. python.base = file[Base(d)].base
        BY <2>4, <3>1, <4>1 DEF LineShape
      <4>3. python'.base = python.base /\ file' = [file EXCEPT ![Curriculum(d)] = Torn]
        BY <1>1, <2>1, <3>1, <3>2, <3>3, <3>6, TrainStep
      <4> QED BY <1>1, <2>2, <3>1, <3>3, <4>2, <4>3
    <3>7. CASE python.step = "save"
      BY <1>1, <2>1, <3>4, <3>7, TrainStep
    <3>8. python.step \in {"look", "train", "save"}
      BY <1>1 DEF Work
    <3> QED BY <3>5, <3>6, <3>7, <3>8
  <2>5. line # Completed
    BY <2>1 DEF LineShape
  <2>6. CASE line \in 1..Half
    <3>1. line \notin (Half + 1)..(2 * Half)
      BY <1>1, <2>6
    <3>2. /\ python'.ds = AllTraining[line]
          /\ \A k \in DOMAIN python'.files : python'.files[k] # Curriculum(python'.ds)
      BY <2>2, <2>3, <2>6 DEF LineShape
    <3> QED BY <1>1, <2>1, <2>5, <3>1, <3>2 DEF LineShape
  <2>7. CASE line \in (Half + 1)..(2 * Half)
    <3>1. line \notin 1..Half
      BY <1>1, <2>7
    <3>2. /\ python'.ds = AllTraining[line - Half]
          /\ \A k \in DOMAIN python'.files : python'.files[k] = Curriculum(python'.ds)
      BY <2>2, <2>3, <2>7 DEF LineShape
    <3>3. Busy(python') # {} => python'.base = file'[Base(python'.ds)].base
      BY <2>2, <2>4, <2>7
    <3> QED BY <1>1, <2>1, <2>5, <3>1, <3>2, <3>3 DEF LineShape
  <2>8. CASE line = 0
    BY <1>1, <1>2, <2>1, <2>8 DEF LineShape
  <2>9. line \in 1..Half \/ line \in (Half + 1)..(2 * Half) \/ line = 0
    BY <1>1, <2>5
  <2> QED BY <2>6, <2>7, <2>8, <2>9
<1>7. CASE JobStep
  <2>1. Train(task, task') /\ UNCHANGED <<python, line>>
    BY <1>7 DEF JobStep
  <2>2. task.files # <<>> /\ Head(task.files) \in MemberFiles
    BY <1>1, <2>1, TrainStep, TaskHead
  <2>3. file'[Base(python.ds)] = file[Base(python.ds)]
    <3>1. Base(python.ds) \notin MemberFiles /\ Base(python.ds) \in Files
      BY <1>1, FileNames
    <3> QED BY <1>1, <2>1, <2>2, <3>1, TrainStep
  <2> QED BY <1>1, <2>1, <2>3 DEF LineShape
<1>8. CASE Boot \/ Submit \/ TakeJob \/ JobEnds \/ WorkerKilled
  <2>1. UNCHANGED <<file, python, line>>
    BY <1>8, WorkerSteps
  <2> QED BY <1>1, <2>1 DEF LineShape
<1> QED BY <1>3, <1>4, <1>5, <1>6, <1>7, <1>8, NextCases

LEMMA DoneStep ==
    ASSUME TypeOK, ScriptShape, TaskShape, ScriptFits, LineShape, LinesDone, Next
    PROVE  LinesDone'
<1>1. /\ Half \in Nat \ {0} /\ Completed = 2 * Half + 1 /\ line \in 0..Completed
      /\ Half' = Half /\ file \in [Files -> Content] /\ python \in Work /\ task \in Work
      /\ python.files \in Seq(Files) /\ python.ds \in Datasets
      /\ \A i \in 1..Half : AllTraining[i] \in Datasets
      /\ \A i, j \in 1..Half : AllTraining[i] = AllTraining[j] => i = j
  BY LinesFacts, FilesAssumption, SeqParts, SMTT(40) DEF TypeOK, Half, Work
<1>2. CASE StartScript \/ ScriptFails \/ ScriptKilled \/ (\E f \in Files : RemoveTorn(f))
  <2>1. line' = 0
    BY <1>2 DEF StartScript, ScriptFails, ScriptKilled, RemoveTorn
  <2> QED BY <2>1 DEF LinesDone
<1>3. CASE StartAll
  <2>1. 1 \in 1..(2 * Half) /\ 1 <= Half /\ python' = Lines[1] /\ line' = 1
    BY <1>1, <1>3 DEF StartAll
  <2>2. \A f \in {Base(AllTraining[1]), Hardened(AllTraining[1])} : Left(f)'
    BY <2>1, LineStarts
  <2>3. \A i \in 1..Half : ~(1 > i) /\ ~(1 > Half + i) /\ 1 # Half + i
    BY <1>1
  <2> QED BY <1>1, <2>1, <2>2, <2>3 DEF LinesDone
<1>4. CASE LineEnds
  <2>1. /\ line' = line + 1 /\ line # 0 /\ line # Completed /\ python.files = <<>>
        /\ file' = file
    BY <1>4 DEF LineEnds, Ended, NoScript
  <2>2. \A f : ~Left(f)
    BY <2>1 DEF Left
  <2>3. ASSUME NEW i \in 1..Half
        PROVE  /\ line' > i => line > i \/ line = i
               /\ line' > Half + i => line > Half + i \/ line = Half + i
    BY <1>1, <2>1, <2>3
  <2>4. ASSUME NEW i \in 1..Half
        PROVE  /\ line' = i => \A f \in {Base(AllTraining[i]), Hardened(AllTraining[i])} :
                                  Left(f)'
               /\ line' = Half + i => Left(Curriculum(AllTraining[i]))'
    <3>1. CASE line' = Completed
      <4>1. line' # i /\ line' # Half + i
        BY <1>1, <2>4, <3>1
      <4> QED BY <4>1
    <3>2. CASE line' # Completed
      <4>1. PICK k \in 1..(2 * Half) : k = line'
        BY <1>1, <2>1, <3>2
      <4>2. python' = Lines[k]
        BY <1>4, <3>2, <4>1 DEF LineEnds
      <4>3. /\ k <= Half => \A f \in {Base(AllTraining[k]), Hardened(AllTraining[k])} : Left(f)'
            /\ k > Half => Left(Curriculum(AllTraining[k - Half]))'
        BY <4>1, <4>2, LineStarts
      <4>4. /\ k = i => k <= Half
            /\ k = Half + i => k > Half /\ k - Half = i
        BY <1>1
      <4> QED BY <4>1, <4>3, <4>4
    <3> QED BY <3>1, <3>2
  <2>5. ASSUME NEW i \in 1..Half, NEW d, d = AllTraining[i]
        PROVE  /\ \A f \in {Base(d), Hardened(d)} :
                     line' > i \/ (line' = i /\ ~Left(f)') => Is(f, "whole")
               /\ line' > Half + i \/ (line' = Half + i /\ ~Left(Curriculum(d))') =>
                     Is(Curriculum(d), "whole") /\ file[Curriculum(d)].base = file[Base(d)].base
    BY <2>1, <2>2, <2>3, <2>4, <2>5 DEF LinesDone
  <2> QED BY <1>1, <2>1, <2>5 DEF LinesDone, Is
<1>5. CASE ScriptStep
  <2>1. Train(python, python') /\ line' = line /\ python.files # <<>>
    BY <1>5 DEF ScriptStep, NoScript
  <2>2. python'.ds = python.ds
    BY <1>1, <2>1, TrainStep
  <2> SUFFICES ASSUME line # 0, NEW i \in 1..Half, NEW d \in Datasets, d = AllTraining[i]
      PROVE  /\ \A f \in {Base(d), Hardened(d)} :
                   line > i \/ (line = i /\ ~Left(f)') => Is(f, "whole")'
             /\ line > Half + i \/ (line = Half + i /\ ~Left(Curriculum(d))') =>
                   /\ Is(Curriculum(d), "whole")'
                   /\ file'[Curriculum(d)].base = file'[Base(d)].base
    BY <1>1, <2>1 DEF LinesDone
  <2>3. /\ \A f \in {Base(d), Hardened(d)} :
              line > i \/ (line = i /\ ~Left(f)) => Is(f, "whole")
        /\ line > Half + i \/ (line = Half + i /\ ~Left(Curriculum(d))) =>
              Is(Curriculum(d), "whole") /\ file[Curriculum(d)].base = file[Base(d)].base
    BY DEF LinesDone
  <2>4. /\ Is(Base(d), "whole") =>
              Is(Base(d), "whole")' /\ file'[Base(d)].base = file[Base(d)].base
        /\ Is(Hardened(d), "whole") => Is(Hardened(d), "whole")'
        /\ Curriculum(d) # Head(python.files) => file'[Curriculum(d)] = file[Curriculum(d)]
    BY <2>1, ScriptKeeps
  <2>5. Base(d) \notin MemberFiles /\ Hardened(d) \notin MemberFiles
        /\ Curriculum(d) \notin MemberFiles /\ Base(d) \in Files /\ Base(d) # Curriculum(d)
    BY FileNames
  <2>6. ASSUME NEW f \in {Base(d), Hardened(d)}, line > i \/ (line = i /\ ~Left(f)')
        PROVE  Is(f, "whole")'
    <3>1. CASE line > i \/ ~Left(f)
      BY <2>3, <2>4, <2>6, <3>1
    <3>2. CASE Left(f) /\ ~Left(f)'
      BY <2>1, <2>5, <3>2, ScriptLeaves
    <3> QED BY <2>6, <3>1, <3>2
  <2>7. ASSUME line > Half + i
        PROVE  /\ Is(Curriculum(d), "whole")'
               /\ file'[Curriculum(d)].base = file'[Base(d)].base
    <3>1. line > i
      BY <1>1, <2>7
    <3>2. line # Completed
      BY <2>1 DEF LineShape
    <3>3. line \in (Half + 1)..(2 * Half) /\ line - Half \in 1..Half /\ line - Half # i
      BY <1>1, <2>7, <3>2
    <3>4. Head(python.files) = Curriculum(AllTraining[line - Half])
      BY <1>1, <2>1, <3>3, SeqParts DEF LineShape
    <3>5. Curriculum(AllTraining[line - Half]) # Curriculum(d)
      BY <1>1, <3>3, FileNames
    <3> QED BY <2>3, <2>4, <2>7, <3>1, <3>4, <3>5 DEF Is
  <2>8. ASSUME line = Half + i, ~Left(Curriculum(d))'
        PROVE  /\ Is(Curriculum(d), "whole")'
               /\ file'[Curriculum(d)].base = file'[Base(d)].base
    <3>1. line > i /\ line \in (Half + 1)..(2 * Half) /\ line - Half = i
      BY <1>1, <2>8
    <3>2. python.ds = d /\ (Busy(python) # {} => python.base = file[Base(d)].base)
      BY <3>1 DEF LineShape
    <3>3. Left(Curriculum(d))
      BY <1>1, <2>1, <3>1, <3>2, SeqParts DEF LineShape, Left
    <3>4. /\ Is(Curriculum(d), "whole")' /\ python.step = "save"
          /\ file'[Curriculum(d)] = Whole(d, python.base)
      BY <2>1, <2>5, <2>8, <3>2, <3>3, ScriptLeaves
    <3>5. file'[Curriculum(d)].base = python.base /\ python.base = file[Base(d)].base
      BY <1>1, <2>1, <3>2, <3>4, ContentFacts DEF Busy, Work
    <3> QED BY <2>3, <2>4, <3>1, <3>4, <3>5
  <2> QED BY <2>6, <2>7, <2>8
<1>6. CASE JobStep
  <2>1. Train(task, task') /\ UNCHANGED <<python, line>>
    BY <1>6 DEF JobStep
  <2>2. task.files # <<>> /\ Head(task.files) \in MemberFiles
    BY <1>1, <2>1, TrainStep, TaskHead
  <2>3. \A g \in Files \ MemberFiles : file'[g] = file[g]
    BY <1>1, <2>1, <2>2, TrainStep
  <2>4. \A d \in Datasets : \A g \in {Base(d), Hardened(d), Curriculum(d)} : file'[g] = file[g]
    BY <2>3, FileNames
  <2>5. \A g : Left(g)' <=> Left(g)
    BY <2>1 DEF Left
  <2> SUFFICES ASSUME line # 0, NEW i \in 1..Half, NEW d \in Datasets, d = AllTraining[i]
      PROVE  /\ \A f \in {Base(d), Hardened(d)} :
                   line > i \/ (line = i /\ ~Left(f)') => Is(f, "whole")'
             /\ line > Half + i \/ (line = Half + i /\ ~Left(Curriculum(d))') =>
                   /\ Is(Curriculum(d), "whole")'
                   /\ file'[Curriculum(d)].base = file'[Base(d)].base
    BY <1>1, <2>1 DEF LinesDone
  <2>6. /\ \A f \in {Base(d), Hardened(d)} :
              line > i \/ (line = i /\ ~Left(f)) => Is(f, "whole")
        /\ line > Half + i \/ (line = Half + i /\ ~Left(Curriculum(d))) =>
              Is(Curriculum(d), "whole") /\ file[Curriculum(d)].base = file[Base(d)].base
    BY DEF LinesDone
  <2> QED BY <2>4, <2>5, <2>6 DEF Is
<1>7. CASE Boot \/ Submit \/ TakeJob \/ JobEnds \/ WorkerKilled
  <2>1. UNCHANGED <<file, python, line>>
    BY <1>7, WorkerSteps
  <2> QED BY <1>1, <2>1 DEF LinesDone, Left, Is
<1> QED BY <1>2, <1>3, <1>4, <1>5, <1>6, <1>7, NextCases

-----------------------------------------------------------------------------
(* The theorems.                                                           *)

LEMMA InitInv == Init => IInv
<1> SUFFICES ASSUME Init PROVE IInv
  OBVIOUS
<1>1. PICK there \in SUBSET MemberFiles :
        file = [f \in Files |-> IF f \in there THEN Whole(Nsl, 0) ELSE Absent]
  BY DEF Init
<1>2. /\ python = Nothing /\ task = Nothing /\ line = 0 /\ job = 0 /\ worker = "down"
      /\ members = {} /\ served = FALSE /\ starts = 0 /\ kills = 0
      /\ trained = [d \in Datasets |-> 0]
  BY DEF Init
<1>3. TypeOK
  <2>1. file \in [Files -> Content]
    BY <1>1, ContentFacts, FilesAssumption
  <2>2. 0 \in 0..Completed /\ 0 \in 0..Members /\ 0 \in 0..Starts /\ 0 \in 0..Kills
    BY LinesFacts, FilesAssumption
  <2> QED BY <1>2, <2>1, <2>2, NothingFacts DEF TypeOK
<1>4. ScriptShape /\ TaskShape /\ ScriptFits /\ SafeMember
  BY <1>2, NothingFacts DEF ScriptShape, TaskShape, ScriptFits, SafeMember, Busy
<1>5. ModelsFit
  <2>1. \A d \in Datasets : \A f \in {Base(d), Hardened(d), Curriculum(d)} :
           file[f].is = "absent"
    BY <1>1, FileNames, ContentFacts
  <2> QED BY <2>1 DEF ModelsFit, Is
<1>6. LineShape
  <2>1. 0 \notin 1..Half /\ 0 \notin (Half + 1)..(2 * Half)
    BY LinesFacts
  <2> QED BY <1>2, <2>1, NothingFacts DEF LineShape
<1>7. LinesDone
  BY <1>2 DEF LinesDone
<1> QED BY <1>3, <1>4, <1>5, <1>6, <1>7 DEF IInv

LEMMA StepInv == IInv /\ [Next]_vars => IInv'
<1>1. ASSUME IInv, Next PROVE IInv'
  <2> USE <1>1
  <2>1. TypeOK /\ ScriptShape /\ TaskShape /\ ModelsFit /\ ScriptFits /\ SafeMember
        /\ LineShape /\ LinesDone
    BY DEF IInv
  <2>2. TypeOK' /\ ScriptShape' /\ TaskShape'
    BY <2>1, TypeStep, ShapeStep
  <2>3. ModelsFit' /\ ScriptFits' /\ SafeMember'
    BY <2>1, FitStep, SafeStep
  <2>4. LineShape' /\ LinesDone'
    BY <2>1, LineShapeStep, DoneStep
  <2> QED BY <2>2, <2>3, <2>4 DEF IInv
<1>2. ASSUME IInv, UNCHANGED vars PROVE IInv'
  <2>1. /\ TypeOK /\ ScriptShape /\ TaskShape /\ ModelsFit /\ ScriptFits /\ SafeMember
        /\ LineShape /\ LinesDone
        /\ UNCHANGED <<file, trained, python, line, worker, task, job, members, served,
                       starts, kills>>
    BY <1>2 DEF IInv, vars
  <2>2. TypeOK' /\ ScriptShape' /\ TaskShape'
    BY <2>1 DEF TypeOK, ScriptShape, TaskShape
  <2>3. ModelsFit' /\ ScriptFits' /\ SafeMember'
    BY <2>1 DEF ModelsFit, ScriptFits, SafeMember, Is, Loadable, Busy
  <2>4. LineShape' /\ LinesDone'
    BY <2>1 DEF LineShape, LinesDone, Left, Is, Busy, Half, Completed, Lines
  <2> QED BY <2>2, <2>3, <2>4 DEF IInv
<1> QED BY <1>1, <1>2

LEMMA Inductive == Spec => []IInv
  BY InitInv, StepInv, PTL DEF Spec

\* Whatever is started, killed, removed and started again, a hardened model that is
\* there was trained from the base model that is there.
THEOREM HardenedFits == Spec => []HardenedFitsItsBase
<1>1. IInv => HardenedFitsItsBase
  BY DEF IInv, ModelsFit, HardenedFitsItsBase, Is
<1> QED BY <1>1, Inductive, PTL

\* A worker that was up once can boot again.
THEOREM BootsAgain == Spec => []BootableStays
<1>1. IInv => BootableStays
  BY DEF IInv, SafeMember, BootableStays
<1> QED BY <1>1, Inductive, PTL

\* When run_all_training.sh says it is completed, all models of its datasets are there.
THEOREM CompletedTrained == Spec => []CompletedIsTrained
<1>1. IInv => CompletedIsTrained
  <2> SUFFICES ASSUME IInv, line = Completed, NEW i \in DOMAIN AllTraining,
                      NEW d \in Datasets, d = AllTraining[i]
      PROVE  /\ \A f \in {Base(d), Hardened(d), Curriculum(d)} :
                   Is(f, "whole") /\ file[f].ds = d
             /\ file[Curriculum(d)].base = file[Base(d)].base /\ file[Base(d)].base # 0
    BY LinesFacts, FilesAssumption, SeqParts DEF CompletedIsTrained, Half
  <2>1. i \in 1..Half /\ Half \in Nat \ {0} /\ line = 2 * Half + 1
    BY LinesFacts, FilesAssumption, SeqParts DEF Half
  <2>2. line # 0 /\ line > i /\ line > Half + i
    BY <2>1
  <2>3. /\ Is(Base(d), "whole") /\ Is(Hardened(d), "whole") /\ Is(Curriculum(d), "whole")
        /\ file[Curriculum(d)].base = file[Base(d)].base
    BY <2>1, <2>2 DEF IInv, LinesDone
  <2> QED BY <2>3 DEF IInv, ModelsFit, Is
<1> QED BY <1>1, Inductive, PTL

=============================================================================
