---------------------------- MODULE ScriptProofs ----------------------------
(***************************************************************************)
(* Proofs about the scripts that keep their results in files that outlive  *)
(* a kill: SeedSweep, for every number of seeds, methods, drivers and      *)
(* faults; below it CountedEvaluation, for every number of batches, tasks, *)
(* limits and runs; and SweepQueue, for any jobs, any number of workers    *)
(* and of saves, and any starts and kills.  Their states are disjoint.     *)
(***************************************************************************)
EXTENDS SeedSweep, CountedEvaluation, SweepQueue, DataFacts

-----------------------------------------------------------------------------
(* SeedSweep.  Proved are its type invariant, that a completed sweep has   *)
(* all its checkpoints, and that checkpoints and scores can be relied on   *)
(* as long as drivers do not run side by side.                             *)

Runs == Seeds \X Methods

-----------------------------------------------------------------------------
(* What a step does to the driver that takes it, and to the others.        *)

Places == {"off", "start", "cuda", "check", "complete", "failed"} \cup Training \cup Evaluating

DriverStates == [at : Places, seed : 1..(NumSeeds + 1), method : 1..(NumMethods + 1),
                 current : BOOLEAN]

\* Where the loops over seeds and methods are when a driver is at work.
AtRealRun(d) ==
  /\ drv[d].at \in Training \cup {"scoring", "writing"} =>
       drv[d].seed \in Seeds /\ drv[d].method \in Methods
  /\ drv[d].at = "evaluating" => drv[d].seed \in Seeds

DriversInv == /\ drv \in [Drivers -> DriverStates]
              /\ \A d \in Drivers : AtRealRun(d)

\* Driver d is at another place of its loops, the others where they were.
Becomes(d, at, seed, method) ==
  /\ drv' \in [Drivers -> DriverStates]
  /\ drv'[d].at = at /\ drv'[d].seed = seed /\ drv'[d].method = method
  /\ \A e \in Drivers \ {d} : /\ drv'[e].at = drv[e].at
                              /\ drv'[e].seed = drv[e].seed
                              /\ drv'[e].method = drv[e].method

LEMMA Ranges ==
  /\ 1 \in Seeds /\ 1 \in Methods /\ 1 \in 1..(NumSeeds + 1) /\ 1 \in 1..(NumMethods + 1)
  /\ \A s \in Seeds : s \in 1..(NumSeeds + 1) /\ s + 1 \in 1..(NumSeeds + 1)
  /\ \A m \in Methods : m \in 1..(NumMethods + 1) /\ m + 1 \in 1..(NumMethods + 1)
  /\ \A s \in 1..(NumSeeds + 1) : s \in Nat /\ (s \notin Seeds => s = NumSeeds + 1)
  /\ \A m \in 1..(NumMethods + 1) : m \in Nat /\ (m \notin Methods => m = NumMethods + 1)
BY SizesAssumption DEF Seeds, Methods

\* A driver's state, field by field.
LEMMA DriverFields ==
  ASSUME DriversInv, NEW d \in Drivers
  PROVE  /\ drv[d] \in DriverStates /\ drv[d].at \in Places /\ drv[d].current \in BOOLEAN
         /\ drv[d].seed \in 1..(NumSeeds + 1) /\ drv[d].method \in 1..(NumMethods + 1)
         /\ drv[d].at \in Training \cup {"scoring", "writing"} => File(d) \in Runs
<1>1. drv[d] \in DriverStates /\ AtRealRun(d)
  BY DEF DriversInv
<1>2. drv[d].at \in Training \cup {"scoring", "writing"} => File(d) \in Runs
  BY <1>1 DEF AtRealRun, File, Runs
<1> QED BY <1>1, <1>2 DEF DriverStates

LEMMA MoveBecomes ==
  ASSUME DriversInv, NEW d \in Drivers, NEW to \in Places, Move(d, to)
  PROVE  /\ Becomes(d, to, drv[d].seed, drv[d].method)
         /\ drv'[d].current = drv[d].current
BY DEF Move, Becomes, DriversInv, DriverStates

LEMMA NextMethodBecomes ==
  ASSUME DriversInv, NEW d \in Drivers, NEW to \in Places, NextMethod(d, to),
         drv[d].method \in Methods
  PROVE  Becomes(d, to, drv[d].seed, drv[d].method + 1)
<1>1. drv[d].method + 1 \in 1..(NumMethods + 1)
  BY Ranges
<1> QED BY <1>1 DEF NextMethod, Becomes, DriversInv, DriverStates

LEMMA OffState ==
  ASSUME NEW at \in Places
  PROVE  Off(at) \in DriverStates /\ Off(at).at = at /\ Off(at).seed = 1 /\ Off(at).method = 1
BY Ranges DEF Off, DriverStates

LEMMA NextSeedBecomes ==
  ASSUME DriversInv, NEW d \in Drivers, NextSeed(d), drv[d].seed \in Seeds
  PROVE  Becomes(d, "check", drv[d].seed + 1, 1)
<1>1. "check" \in Places
  BY DEF Places
<1> DEFINE rec == [Off("check") EXCEPT !.seed = drv[d].seed + 1]
<1>2. rec \in DriverStates /\ rec.at = "check" /\ rec.seed = drv[d].seed + 1 /\ rec.method = 1
  BY <1>1, Ranges DEF Off, DriverStates
<1>3. drv' = [drv EXCEPT ![d] = rec]
  BY DEF NextSeed
<1> HIDE DEF rec
<1> QED BY <1>2, <1>3 DEF Becomes, DriversInv

LEMMA SpawnBecomes ==
  ASSUME DriversInv, NEW d \in Drivers, Spawn(d)
  PROVE  Becomes(d, "start", 1, 1)
<1>1. "start" \in Places
  BY DEF Places
<1>2. drv' = [drv EXCEPT ![d] = Off("start")]
  BY DEF Spawn
<1> QED BY <1>1, <1>2, OffState DEF Becomes, DriversInv

\* Who had loaded a checkpoint learns nothing of its being rewritten.
LEMMA OutdatedStates ==
  ASSUME DriversInv, NEW r
  PROVE  /\ Outdated(r) \in [Drivers -> DriverStates]
         /\ \A e \in Drivers : /\ Outdated(r)[e].at = drv[e].at
                               /\ Outdated(r)[e].seed = drv[e].seed
                               /\ Outdated(r)[e].method = drv[e].method
BY DEF Outdated, DriversInv, DriverStates

\* The steps that rewrite a checkpoint.
LEMMA RewriteBecomes ==
  ASSUME DriversInv, NEW d \in Drivers
  PROVE  /\ OpenCheckpoint(d) => Becomes(d, "saving", drv[d].seed, drv[d].method)
         /\ SaveCheckpoint(d) => Becomes(d, "check", drv[d].seed, drv[d].method + 1)
<1>1. PICK f \in [Drivers -> DriverStates] :
        /\ f = Outdated(File(d))
        /\ \A e \in Drivers : f[e].at = drv[e].at /\ f[e].seed = drv[e].seed /\ f[e].method = drv[e].method
  BY OutdatedStates
<1>2. ASSUME OpenCheckpoint(d) PROVE Becomes(d, "saving", drv[d].seed, drv[d].method)
  <2>1. drv' = [f EXCEPT ![d].at = "saving"] /\ "saving" \in Places
    BY <1>1, <1>2 DEF OpenCheckpoint, Places, Training
  <2> QED BY <1>1, <2>1 DEF Becomes, DriverStates
<1>3. ASSUME SaveCheckpoint(d) PROVE Becomes(d, "check", drv[d].seed, drv[d].method + 1)
  <2>1. drv' = [f EXCEPT ![d].at = "check", ![d].method = @ + 1] /\ "check" \in Places
    BY <1>1, <1>3 DEF SaveCheckpoint, Places
  <2>2. drv[d].method + 1 \in 1..(NumMethods + 1)
    BY <1>3, Ranges DEF SaveCheckpoint, DriversInv, AtRealRun, Training
  <2> QED BY <1>1, <2>1, <2>2 DEF Becomes, DriverStates
<1> QED BY <1>2, <1>3

\* Every action of a driver, as a change of place.
LEMMA WalkBecomes ==
  ASSUME DriversInv, NEW d \in Drivers
  PROVE  /\ CheckCuda(d) => \/ drv[d].at = "start" /\ Becomes(d, "cuda", drv[d].seed, drv[d].method)
                            \/ drv[d].at = "cuda" /\ Becomes(d, "check", drv[d].seed, drv[d].method)
         /\ NoCuda(d) => Becomes(d, "failed", drv[d].seed, drv[d].method)
         /\ SkipRun(d) => Becomes(d, "check", drv[d].seed, drv[d].method + 1)
         /\ TrainRun(d) => Becomes(d, "training", drv[d].seed, drv[d].method)
         /\ AllComplete(d) => Becomes(d, "complete", drv[d].seed, drv[d].method)
         /\ TrainingKilled(d) => Becomes(d, "failed", drv[d].seed, drv[d].method)
<1>1. {"cuda", "check", "failed", "training", "complete"} \subseteq Places
  BY DEF Places, Training
<1>2. SkipRun(d) => Becomes(d, "check", drv[d].seed, drv[d].method + 1)
  BY <1>1, NextMethodBecomes DEF SkipRun, AtRun
<1>3. \A to \in Places : Move(d, to) => Becomes(d, to, drv[d].seed, drv[d].method)
  BY MoveBecomes
<1> QED BY <1>1, <1>2, <1>3 DEF CheckCuda, NoCuda, TrainRun, AllComplete, TrainingKilled

LEMMA EvaluationBecomes ==
  ASSUME DriversInv, NEW d \in Drivers
  PROVE  /\ StartEval(d) => Becomes(d, "evaluating", drv[d].seed, 1)
         /\ SkipEval(d) => Becomes(d, "evaluating", drv[d].seed, drv[d].method + 1)
         /\ LoadModel(d) => /\ Becomes(d, "scoring", drv[d].seed, drv[d].method)
                            /\ drv'[d].current = TRUE
         /\ OpenScore(d) => /\ Becomes(d, "writing", drv[d].seed, drv[d].method)
                            /\ drv'[d].current = drv[d].current
         /\ WriteScore(d) => Becomes(d, "evaluating", drv[d].seed, drv[d].method + 1)
         /\ EndEval(d) => Becomes(d, "check", drv[d].seed + 1, 1)
         /\ EvalKilled(d) => Becomes(d, "check", drv[d].seed + 1, 1)
<1>1. {"evaluating", "scoring", "writing"} \subseteq Places /\ AtRealRun(d)
  BY DEF Places, Evaluating, DriversInv
<1>2. ASSUME StartEval(d) PROVE Becomes(d, "evaluating", drv[d].seed, 1)
  <2>1. drv' = [drv EXCEPT ![d].at = "evaluating", ![d].method = 1]
    BY <1>2 DEF StartEval
  <2> QED BY <1>1, <2>1, Ranges DEF Becomes, DriversInv, DriverStates
<1>3. SkipEval(d) => Becomes(d, "evaluating", drv[d].seed, drv[d].method + 1)
  BY <1>1, NextMethodBecomes DEF SkipEval
<1>4. ASSUME LoadModel(d)
      PROVE  Becomes(d, "scoring", drv[d].seed, drv[d].method) /\ drv'[d].current = TRUE
  <2>1. drv' = [drv EXCEPT ![d].at = "scoring", ![d].current = TRUE]
    BY <1>4 DEF LoadModel
  <2> QED BY <1>1, <2>1 DEF Becomes, DriversInv, DriverStates
<1>5. OpenScore(d) => Becomes(d, "writing", drv[d].seed, drv[d].method) /\ drv'[d].current = drv[d].current
  BY <1>1, MoveBecomes DEF OpenScore
<1>6. ASSUME WriteScore(d) PROVE Becomes(d, "evaluating", drv[d].seed, drv[d].method + 1)
  <2>1. drv[d].method \in Methods /\ NextMethod(d, "evaluating")
    BY <1>1, <1>6 DEF WriteScore, AtRealRun
  <2> QED BY <1>1, <2>1, NextMethodBecomes
<1>7. EndEval(d) => Becomes(d, "check", drv[d].seed + 1, 1)
  BY <1>1, NextSeedBecomes DEF EndEval, ToEvaluate, AtRealRun
<1>8. EvalKilled(d) => Becomes(d, "check", drv[d].seed + 1, 1)
  BY <1>1, NextSeedBecomes DEF EvalKilled, Evaluating, AtRealRun
<1> QED BY <1>2, <1>3, <1>4, <1>5, <1>6, <1>7, <1>8

-----------------------------------------------------------------------------
(* The type invariant.                                                     *)

\* A step to a place where the loops need not be at a real run, or are.
LEMMA DriversKept ==
  ASSUME DriversInv, NEW d \in Drivers, NEW at, NEW seed, NEW method, Becomes(d, at, seed, method),
         at \in Training \cup {"scoring", "writing"} => seed \in Seeds /\ method \in Methods,
         at = "evaluating" => seed \in Seeds
  PROVE  DriversInv'
<1>1. ASSUME NEW e \in Drivers PROVE AtRealRun(e)'
  <2>1. CASE e = d
    BY <2>1 DEF Becomes, AtRealRun
  <2>2. CASE e # d
    BY <2>2 DEF Becomes, AtRealRun, DriversInv
  <2> QED BY <2>1, <2>2
<1> QED BY <1>1 DEF DriversInv, Becomes

LEMMA DriversInit == Init => DriversInv
BY OffState DEF Init, DriversInv, AtRealRun, Off, Places, Training

LEMMA DriversStep == DriversInv /\ [Next]_vars => DriversInv'
<1> SUFFICES ASSUME DriversInv, [Next]_vars PROVE DriversInv'
  OBVIOUS
<1>1. ASSUME NEW d \in Drivers, StartSweep(d) \/ Respawn(d) PROVE DriversInv'
  BY <1>1, SpawnBecomes, DriversKept DEF StartSweep, Respawn, Training
<1>2. ASSUME NEW d \in Drivers,
             CheckCuda(d) \/ NoCuda(d) \/ SkipRun(d) \/ TrainRun(d) \/ AllComplete(d) \/ TrainingKilled(d)
      PROVE  DriversInv'
  <2>1. TrainRun(d) => drv[d].seed \in Seeds /\ drv[d].method \in Methods
    BY DEF TrainRun, AtRun
  <2>2. {"cuda", "check", "failed", "complete"} \cap (Training \cup {"scoring", "writing", "evaluating"}) = {}
    BY DEF Training
  <2> QED BY <1>2, <2>1, <2>2, WalkBecomes, DriversKept
<1>3. ASSUME NEW d \in Drivers, OpenCheckpoint(d) \/ SaveCheckpoint(d) PROVE DriversInv'
  <2>1. OpenCheckpoint(d) => drv[d].seed \in Seeds /\ drv[d].method \in Methods
    BY DEF OpenCheckpoint, DriversInv, AtRealRun, Training
  <2>2. {"check"} \cap (Training \cup {"scoring", "writing", "evaluating"}) = {}
    BY DEF Training
  <2> QED BY <1>3, <2>1, <2>2, RewriteBecomes, DriversKept DEF Training
<1>4. ASSUME NEW d \in Drivers,
             \/ StartEval(d) \/ SkipEval(d) \/ LoadModel(d) \/ OpenScore(d) \/ WriteScore(d)
             \/ EndEval(d) \/ EvalKilled(d)
      PROVE  DriversInv'
  <2>1. /\ StartEval(d) \/ SkipEval(d) \/ WriteScore(d) => drv[d].seed \in Seeds
        /\ LoadModel(d) \/ OpenScore(d) => drv[d].seed \in Seeds /\ drv[d].method \in Methods
    BY DEF StartEval, SkipEval, WriteScore, LoadModel, OpenScore, ToEvaluate, DriversInv, AtRealRun
  <2>2. {"check", "evaluating"} \cap (Training \cup {"scoring", "writing"}) = {}
    BY DEF Training
  <2> QED BY <1>4, <2>1, <2>2, EvaluationBecomes, DriversKept
<1>5. ASSUME Reboot PROVE DriversInv'
  <2>1. Off("off") \in DriverStates /\ Off("off").at = "off"
    BY OffState DEF Places
  <2>2. drv' = [d \in Drivers |-> IF Alive(d) THEN Off("off") ELSE drv[d]]
    BY <1>5 DEF Reboot
  <2> QED BY <2>1, <2>2 DEF DriversInv, AtRealRun, Training
<1>6. ASSUME UNCHANGED drv PROVE DriversInv'
  BY <1>6 DEF DriversInv, AtRealRun
<1>7. StartWatchdog \/ CountCheckpoints \/ LookForWork \/ LeaveAlone => UNCHANGED drv
  BY DEF StartWatchdog, CountCheckpoints, LookForWork, LookFor, LeaveAlone
<1> QED BY <1>1, <1>2, <1>3, <1>4, <1>5, <1>6, <1>7 DEF Next, DriverStep, WatchdogStep, Fault, vars

CkptStates == {"absent", "partial", "contested", "whole"}
JsonStates == {"absent", "torn", "current", "stale"}

FilesInv == /\ ckpt \in [Runs -> CkptStates]
            /\ json \in [Runs -> JsonStates]

\* The steps that touch no file, and what the others write.
LEMMA FilesTouched ==
  ASSUME Next
  PROVE  \/ ckpt' = ckpt /\ json' = json
         \/ \E d \in Drivers : OpenCheckpoint(d) \/ SaveCheckpoint(d) \/ OpenScore(d) \/ WriteScore(d)
BY DEF Next, StartSweep, DriverStep, WatchdogStep, Fault, DriverOnly, CheckCuda, NoCuda, SkipRun,
       TrainRun, StartEval, SkipEval, LoadModel, EndEval, AllComplete, TrainingKilled, EvalKilled,
       StartWatchdog, CountCheckpoints, LookForWork, LookFor, LeaveAlone, Respawn, Reboot

LEMMA RewriteFiles ==
  ASSUME FilesInv, NEW r \in Runs, NEW state \in CkptStates, Rewrite(r, state)
  PROVE  /\ FilesInv'
         /\ ckpt'[r] = state /\ json'[r] # "current"
         /\ \A q \in Runs \ {r} : ckpt'[q] = ckpt[q] /\ json'[q] = json[q]
         /\ json'[r] = "absent" <=> json[r] = "absent"
         /\ json[r] \notin {"current", "stale"} => json'[r] # "stale"
BY DEF FilesInv, Rewrite, CkptStates, JsonStates

\* What the steps of a driver at a run do to the files.
LEMMA FileSteps ==
  ASSUME DriversInv, FilesInv, NEW d \in Drivers
  PROVE  /\ OpenCheckpoint(d) => \E state \in CkptStates \ {"absent"} : Rewrite(File(d), state)
         /\ SaveCheckpoint(d) => \E state \in CkptStates \ {"absent"} : Rewrite(File(d), state)
         /\ OpenCheckpoint(d) \/ SaveCheckpoint(d) \/ OpenScore(d) \/ WriteScore(d) => File(d) \in Runs
<1>1. OpenCheckpoint(d) => \E state \in CkptStates \ {"absent"} : Rewrite(File(d), state)
  BY DEF OpenCheckpoint, CkptStates
<1>2. SaveCheckpoint(d) => \E state \in CkptStates \ {"absent"} : Rewrite(File(d), state)
  BY DEF SaveCheckpoint, CkptStates
<1> QED BY <1>1, <1>2, DriverFields DEF OpenCheckpoint, SaveCheckpoint, OpenScore, WriteScore, Training

LEMMA FilesStep == DriversInv /\ FilesInv /\ [Next]_vars => FilesInv'
<1> SUFFICES ASSUME DriversInv, FilesInv, [Next]_vars PROVE FilesInv'
  OBVIOUS
<1>1. ASSUME NEW d \in Drivers, OpenCheckpoint(d) \/ SaveCheckpoint(d) PROVE FilesInv'
  BY <1>1, FileSteps, RewriteFiles
<1>2. ASSUME NEW d \in Drivers, OpenScore(d) \/ WriteScore(d) PROVE FilesInv'
  BY <1>2, FileSteps DEF OpenScore, WriteScore, FilesInv, JsonStates
<1>3. ASSUME UNCHANGED <<ckpt, json>> PROVE FilesInv'
  BY <1>3 DEF FilesInv
<1> QED BY <1>1, <1>2, <1>3, FilesTouched DEF vars

\* ls counts no more checkpoints than the sweep has runs.
LEMMA PresentBound == Cardinality(Present) \in 0..(NumSeeds * NumMethods)
<1>1. NumSeeds \in Nat /\ NumMethods \in Nat
  BY SizesAssumption
<1>2. IsFiniteSet(Seeds) /\ Cardinality(Seeds) = NumSeeds
  <2>1. IsFiniteSet(1..NumSeeds) /\ Cardinality(1..NumSeeds) = IF 1 > NumSeeds THEN 0 ELSE NumSeeds - 1 + 1
    BY <1>1, FS_Interval
  <2>2. NumSeeds - 1 + 1 = NumSeeds /\ ~(1 > NumSeeds)
    BY SizesAssumption
  <2> QED BY <2>1, <2>2 DEF Seeds
<1>3. IsFiniteSet(Methods) /\ Cardinality(Methods) = NumMethods
  <2>1. IsFiniteSet(1..NumMethods) /\ Cardinality(1..NumMethods) = IF 1 > NumMethods THEN 0 ELSE NumMethods - 1 + 1
    BY <1>1, FS_Interval
  <2>2. NumMethods - 1 + 1 = NumMethods /\ ~(1 > NumMethods)
    BY SizesAssumption
  <2> QED BY <2>1, <2>2 DEF Methods
<1>4. IsFiniteSet(Runs) /\ Cardinality(Runs) = NumSeeds * NumMethods
  BY <1>2, <1>3, FS_Product DEF Runs
<1>5. Present \subseteq Runs
  BY DEF Present, Runs
<1>6. IsFiniteSet(Present) /\ Cardinality(Present) <= NumSeeds * NumMethods
  BY <1>4, <1>5, FS_Subset
<1>7. Cardinality(Present) \in Nat /\ NumSeeds * NumMethods \in Nat
  BY <1>1, <1>4, <1>6, FS_CardinalityType
<1> QED BY <1>6, <1>7

WatchdogInv == /\ poll \in {"off", "sleep", "train", "eval", "decide"}
               /\ counted \in 0..(NumSeeds * NumMethods)
               /\ sawWork \in BOOLEAN

FlagsInv == /\ globWorks \in BOOLEAN /\ completed \in BOOLEAN /\ overlap \in BOOLEAN
            /\ faults \in 0..MaxFaults

LEMMA WatchdogInvStep == WatchdogInv /\ [Next]_vars => WatchdogInv'
<1> SUFFICES ASSUME WatchdogInv, [Next]_vars PROVE WatchdogInv'
  OBVIOUS
<1>1. ASSUME NEW d \in Drivers, DriverStep(d) \/ NoCuda(d) \/ TrainingKilled(d) \/ EvalKilled(d) \/ StartSweep(d)
      PROVE  UNCHANGED watchdogVars
  BY <1>1 DEF DriverStep, DriverOnly, StartSweep, CheckCuda, NoCuda, SkipRun, TrainRun, OpenCheckpoint,
              SaveCheckpoint, StartEval, SkipEval, LoadModel, OpenScore, WriteScore, EndEval,
              AllComplete, TrainingKilled, EvalKilled
<1>2. UNCHANGED watchdogVars => WatchdogInv'
  BY DEF watchdogVars, WatchdogInv
<1>3. CountCheckpoints => WatchdogInv'
  <2> SUFFICES ASSUME CountCheckpoints PROVE WatchdogInv'
    OBVIOUS
  <2>1. NumSeeds * NumMethods \in Nat
    BY SizesAssumption
  <2>2. 0 \in 0..(NumSeeds * NumMethods)
    BY <2>1
  <2>3. counted' \in 0..(NumSeeds * NumMethods)
    BY <2>2, PresentBound, Zenon DEF CountCheckpoints
  <2> QED BY <2>3, Zenon DEF CountCheckpoints, WatchdogInv
<1>4. StartWatchdog \/ LookForWork \/ LeaveAlone \/ Reboot \/ (\E d \in Drivers : Respawn(d)) => WatchdogInv'
  BY DEF StartWatchdog, LookForWork, LookFor, LeaveAlone, Reboot, Respawn, WatchdogInv
<1> QED BY <1>1, <1>2, <1>3, <1>4 DEF Next, WatchdogStep, Fault, vars, watchdogVars

LEMMA FlagsStep == FlagsInv /\ [Next]_vars => FlagsInv'
<1> SUFFICES ASSUME FlagsInv, [Next]_vars PROVE FlagsInv'
  OBVIOUS
<1>1. overlap' \in BOOLEAN /\ completed' \in BOOLEAN /\ globWorks' = globWorks
  BY DEF FlagsInv, Next, StartSweep, DriverStep, WatchdogStep, Fault, DriverOnly, CheckCuda, NoCuda,
         SkipRun, TrainRun, OpenCheckpoint, SaveCheckpoint, StartEval, SkipEval, LoadModel,
         OpenScore, WriteScore, EndEval, AllComplete, TrainingKilled, EvalKilled, Spawn,
         StartWatchdog, CountCheckpoints, LookForWork, LookFor, LeaveAlone, Respawn, Reboot, vars
<1>2. faults' = faults \/ (faults < MaxFaults /\ faults' = faults + 1)
  BY DEF Next, StartSweep, DriverStep, WatchdogStep, Fault, DriverOnly, CheckCuda, NoCuda,
         SkipRun, TrainRun, OpenCheckpoint, SaveCheckpoint, StartEval, SkipEval, LoadModel,
         OpenScore, WriteScore, EndEval, AllComplete, TrainingKilled, EvalKilled,
         StartWatchdog, CountCheckpoints, LookForWork, LookFor, LeaveAlone, Respawn, Reboot, vars
<1>3. faults \in 0..MaxFaults
  BY DEF FlagsInv
<1>4. faults' \in 0..MaxFaults
  BY <1>2, <1>3, BoundsAssumption
<1> QED BY <1>1, <1>4, Zenon DEF FlagsInv

TypeInv == DriversInv /\ FilesInv /\ WatchdogInv /\ FlagsInv

LEMMA TypeInit == Init => TypeInv
<1> SUFFICES ASSUME Init PROVE TypeInv
  OBVIOUS
<1>1. 0 \in 0..(NumSeeds * NumMethods) /\ 0 \in 0..MaxFaults
  <2>1. NumSeeds * NumMethods \in Nat
    BY SizesAssumption
  <2> QED BY <2>1, BoundsAssumption
<1>2. FilesInv
  BY DEF Init, FilesInv, CkptStates, JsonStates, Runs
<1>3. WatchdogInv /\ FlagsInv
  BY <1>1, Zenon DEF Init, WatchdogInv, FlagsInv
<1> QED BY <1>2, <1>3, DriversInit DEF TypeInv

LEMMA TypeStep == TypeInv /\ [Next]_vars => TypeInv'
BY DriversStep, FilesStep, WatchdogInvStep, FlagsStep DEF TypeInv

\* Every variable has its type: the loops of a driver stay within one past their last
\* element, and the watchdog never counts more checkpoints than there are runs.
THEOREM TypeCorrect == Spec => []TypeOK
<1>1. TypeInv => TypeOK
  BY Zenon DEF TypeInv, TypeOK, DriversInv, DriverStates, Places, FilesInv, CkptStates, JsonStates, Runs,
               WatchdogInv, FlagsInv
<1> QED BY <1>1, TypeInit, TypeStep, PTL DEF Spec

-----------------------------------------------------------------------------
(* A driver has the files of every run it has passed.  It may have found   *)
(* them there, so what says it is about the files and not about who wrote  *)
(* them; files are never taken away again, which is why it is kept by the  *)
(* steps of the other drivers, and why a kill and a respawn from the first *)
(* seed do no harm.                                                        *)

\* The runs d has passed: earlier seeds, and the methods of its own that it has been
\* through, or all of them once it evaluates.
Behind(d) == {r \in Runs : \/ r[1] < drv[d].seed
                           \/ /\ r[1] = drv[d].seed
                              /\ drv[d].at \in Evaluating \/ r[2] < drv[d].method}

HasRuns(d) == /\ Alive(d) => Behind(d) \subseteq Present
              /\ drv[d].at = "saving" => File(d) \in Present

ProgressInv == CompleteHasAll /\ \A d \in Drivers : HasRuns(d)

\* A checkpoint file that is there stays there.
LEMMA PresentGrows == DriversInv /\ FilesInv /\ [Next]_vars => Present \subseteq Present'
<1> SUFFICES ASSUME DriversInv, FilesInv, [Next]_vars PROVE Present \subseteq Present'
  OBVIOUS
<1>1. ASSUME NEW d \in Drivers, OpenCheckpoint(d) \/ SaveCheckpoint(d) PROVE Present \subseteq Present'
  <2>1. PICK state \in CkptStates \ {"absent"} : Rewrite(File(d), state) /\ File(d) \in Runs
    BY <1>1, FileSteps
  <2>2. \A q \in Runs : ckpt[q] # "absent" => ckpt'[q] # "absent"
    BY <2>1, RewriteFiles
  <2> QED BY <2>2 DEF Present, Runs
<1>2. ASSUME ckpt' = ckpt PROVE Present \subseteq Present'
  BY <1>2 DEF Present
<1>3. \A d \in Drivers : OpenScore(d) \/ WriteScore(d) => ckpt' = ckpt
  BY DEF OpenScore, WriteScore
<1> QED BY <1>1, <1>2, <1>3, FilesTouched DEF vars

\* The others keep their runs, whatever a driver does.
LEMMA OthersKeepRuns ==
  ASSUME NEW d \in Drivers, NEW at, NEW seed, NEW method, Becomes(d, at, seed, method),
         Present \subseteq Present', ProgressInv, HasRuns(d)'
  PROVE  \A e \in Drivers : HasRuns(e)'
<1> TAKE e \in Drivers
<1>1. CASE e = d
  BY <1>1
<1>2. CASE e # d
  <2>1. drv'[e].at = drv[e].at /\ drv'[e].seed = drv[e].seed /\ drv'[e].method = drv[e].method
    BY <1>2 DEF Becomes
  <2>2. Behind(e)' = Behind(e) /\ File(e)' = File(e) /\ (Alive(e)' <=> Alive(e))
    BY <2>1 DEF Behind, File, Alive
  <2> QED BY <2>1, <2>2 DEF HasRuns, ProgressInv
<1> QED BY <1>1, <1>2

\* Going on where it is, the driver passes nothing new.
LEMMA SamePlaceKeepsRuns ==
  ASSUME NEW d \in Drivers, NEW at, Becomes(d, at, drv[d].seed, drv[d].method),
         at # "saving", at \in Evaluating => drv[d].at \in Evaluating,
         Alive(d)' => Alive(d), Present \subseteq Present', ProgressInv
  PROVE  HasRuns(d)'
BY DEF Becomes, HasRuns, Behind, Alive, ProgressInv

\* The driver goes on to the next method: it has the file of the one it leaves.
LEMMA NextMethodKeepsRuns ==
  ASSUME DriversInv, NEW d \in Drivers, NEW at \in {"check", "evaluating"},
         Becomes(d, at, drv[d].seed, drv[d].method + 1),
         at = "check" => File(d) \in Present', at = "evaluating" => drv[d].at \in Evaluating,
         Alive(d), Present \subseteq Present', ProgressInv
  PROVE  HasRuns(d)'
<1>1. PICK s \in Nat, m \in Nat : s = drv[d].seed /\ m = drv[d].method
  BY DriverFields, Ranges
<1>2. drv'[d].at = at /\ drv'[d].seed = s /\ drv'[d].method = m + 1
  BY <1>1 DEF Becomes
<1>3. ASSUME NEW r \in Runs, r[1] < s \/ (r[1] = s /\ (at \in Evaluating \/ r[2] < m + 1))
      PROVE  r \in Present'
  <2>1. PICK i \in Nat, j \in Nat : r = <<i, j>>
    BY SizesAssumption DEF Runs, Seeds, Methods
  <2>2. r[1] = i /\ r[2] = j
    BY <2>1
  <2>3. CASE i < s \/ (i = s /\ (at \in Evaluating \/ j < m))
    <3>1. at \in Evaluating => drv[d].at \in Evaluating
      BY DEF Evaluating
    <3> QED BY <1>1, <2>2, <2>3, <3>1 DEF ProgressInv, HasRuns, Behind
  <2>4. CASE i = s /\ at \notin Evaluating /\ ~(j < m)
    <3>1. j < m + 1
      BY <1>3, <2>2, <2>4
    <3>2. j = m
      BY <2>4, <3>1
    <3>3. r = File(d)
      BY <1>1, <2>1, <2>4, <3>2 DEF File
    <3> QED BY <2>4, <3>3 DEF Evaluating
  <2> QED BY <1>3, <2>2, <2>3, <2>4
<1> QED BY <1>2, <1>3 DEF HasRuns, Behind, Training

LEMMA StartEvalKeepsRuns ==
  ASSUME DriversInv, NEW d \in Drivers, StartEval(d), Present \subseteq Present', ProgressInv
  PROVE  HasRuns(d)'
<1>1. drv'[d].at = "evaluating" /\ drv'[d].seed = drv[d].seed
  BY EvaluationBecomes DEF Becomes
<1>2. drv[d].method = NumMethods + 1 /\ drv[d].seed \in Nat /\ Alive(d)
  BY DriverFields, Ranges DEF StartEval, Alive
<1>3. \A r \in Runs : r[2] < drv[d].method
  BY <1>2, SizesAssumption DEF Runs, Methods
<1>4. Behind(d)' \subseteq Behind(d)
  BY <1>1, <1>3 DEF Behind
<1> QED BY <1>1, <1>2, <1>4 DEF ProgressInv, HasRuns

\* After the evaluation, however it ended, the whole seed is passed.
LEMMA NextSeedKeepsRuns ==
  ASSUME DriversInv, NEW d \in Drivers, Becomes(d, "check", drv[d].seed + 1, 1),
         drv[d].at \in Evaluating, Present \subseteq Present', ProgressInv
  PROVE  HasRuns(d)'
<1>1. PICK s \in Nat : s = drv[d].seed
  BY DriverFields, Ranges
<1>2. drv'[d].at = "check" /\ drv'[d].seed = s + 1 /\ drv'[d].method = 1 /\ Alive(d)
  BY <1>1 DEF Becomes, Alive
<1>3. \A r \in Runs : r[1] \in Nat /\ ~(r[2] < 1) /\ (r[1] < s + 1 => r[1] < s \/ r[1] = s)
  BY SizesAssumption DEF Runs, Seeds, Methods
<1>4. Behind(d)' \subseteq Behind(d)
  BY <1>1, <1>2, <1>3 DEF Behind, Evaluating
<1> QED BY <1>2, <1>4 DEF ProgressInv, HasRuns

LEMMA SpawnKeepsRuns ==
  ASSUME DriversInv, NEW d \in Drivers, Spawn(d)
  PROVE  HasRuns(d)'
<1>1. drv'[d].at = "start" /\ drv'[d].seed = 1 /\ drv'[d].method = 1
  BY SpawnBecomes DEF Becomes
<1>2. \A r \in Runs : ~(r[1] < 1) /\ ~(r[2] < 1)
  BY SizesAssumption DEF Runs, Seeds, Methods
<1> QED BY <1>1, <1>2 DEF HasRuns, Behind, Evaluating

LEMMA DriverRuns ==
  ASSUME DriversInv, FilesInv, ProgressInv, Present \subseteq Present', NEW d \in Drivers,
         DriverStep(d) \/ NoCuda(d) \/ TrainingKilled(d) \/ EvalKilled(d)
  PROVE  \A e \in Drivers : HasRuns(e)'
<1>1. ASSUME CheckCuda(d) \/ NoCuda(d) \/ TrainRun(d) \/ AllComplete(d) \/ TrainingKilled(d)
      PROVE  \A e \in Drivers : HasRuns(e)'
  <2>1. PICK at \in {"cuda", "check", "failed", "training", "complete"} :
          Becomes(d, at, drv[d].seed, drv[d].method)
    BY <1>1, WalkBecomes
  <2>2. Alive(d)' => Alive(d)
    BY <1>1, <2>1, WalkBecomes
       DEF Alive, CheckCuda, NoCuda, TrainRun, AtRun, AllComplete, TrainingKilled, Training
  <2> QED BY <2>1, <2>2, SamePlaceKeepsRuns, OthersKeepRuns DEF Evaluating
<1>2. ASSUME SkipRun(d) PROVE \A e \in Drivers : HasRuns(e)'
  <2>1. Becomes(d, "check", drv[d].seed, drv[d].method + 1) /\ Alive(d) /\ File(d) \in Present'
    BY <1>2, WalkBecomes DEF SkipRun, AtRun, Alive, Present, File
  <2> QED BY <2>1, NextMethodKeepsRuns, OthersKeepRuns
<1>3. ASSUME OpenCheckpoint(d) PROVE \A e \in Drivers : HasRuns(e)'
  <2>1. Becomes(d, "saving", drv[d].seed, drv[d].method) /\ drv[d].at = "training"
    BY <1>3, RewriteBecomes DEF OpenCheckpoint
  <2>2. File(d) \in Present'
    BY <1>3, FileSteps, RewriteFiles DEF Present, Runs
  <2>3. Behind(d)' = Behind(d) /\ Alive(d) /\ File(d)' = File(d)
    BY <2>1 DEF Becomes, Behind, Alive, Training, Evaluating, File
  <2> QED BY <2>1, <2>2, <2>3, OthersKeepRuns DEF HasRuns, ProgressInv
<1>4. ASSUME SaveCheckpoint(d) PROVE \A e \in Drivers : HasRuns(e)'
  <2>1. Becomes(d, "check", drv[d].seed, drv[d].method + 1) /\ Alive(d) /\ File(d) \in Present'
    BY <1>4, RewriteBecomes DEF SaveCheckpoint, Alive, Training, ProgressInv, HasRuns
  <2> QED BY <2>1, NextMethodKeepsRuns, OthersKeepRuns
<1>5. ASSUME StartEval(d) PROVE \A e \in Drivers : HasRuns(e)'
  BY <1>5, StartEvalKeepsRuns, EvaluationBecomes, OthersKeepRuns
<1>6. ASSUME SkipEval(d) \/ WriteScore(d) PROVE \A e \in Drivers : HasRuns(e)'
  <2>1. /\ Becomes(d, "evaluating", drv[d].seed, drv[d].method + 1)
        /\ drv[d].at \in Evaluating /\ Alive(d)
    BY <1>6, EvaluationBecomes DEF SkipEval, WriteScore, Evaluating, Alive
  <2> QED BY <2>1, NextMethodKeepsRuns, OthersKeepRuns
<1>7. ASSUME LoadModel(d) \/ OpenScore(d) PROVE \A e \in Drivers : HasRuns(e)'
  <2>1. PICK at \in {"scoring", "writing"} : Becomes(d, at, drv[d].seed, drv[d].method)
    BY <1>7, EvaluationBecomes
  <2>2. drv[d].at \in Evaluating /\ Alive(d)
    BY <1>7 DEF LoadModel, ToEvaluate, OpenScore, Evaluating, Alive
  <2> QED BY <2>1, <2>2, SamePlaceKeepsRuns, OthersKeepRuns
<1>8. ASSUME EndEval(d) \/ EvalKilled(d) PROVE \A e \in Drivers : HasRuns(e)'
  <2>1. Becomes(d, "check", drv[d].seed + 1, 1) /\ drv[d].at \in Evaluating
    BY <1>8, EvaluationBecomes DEF EndEval, ToEvaluate, EvalKilled, Evaluating
  <2> QED BY <2>1, NextSeedKeepsRuns, OthersKeepRuns
<1> QED BY <1>1, <1>2, <1>3, <1>4, <1>5, <1>6, <1>7, <1>8 DEF DriverStep

\* Only a driver that is behind the last seed announces the end.
LEMMA CompleteStep ==
  ASSUME DriversInv, FilesInv, ProgressInv, Present \subseteq Present', Next
  PROVE  CompleteHasAll'
<1>1. Present' \subseteq Runs
  BY DEF Present, Runs
<1>2. CASE completed' = completed
  BY <1>1, <1>2 DEF ProgressInv, CompleteHasAll, Runs
<1>3. ASSUME NEW d \in Drivers, AllComplete(d) PROVE CompleteHasAll'
  <2>1. drv[d].seed = NumSeeds + 1 /\ Alive(d)
    BY <1>3, DriverFields, Ranges DEF AllComplete, Alive
  <2>2. \A r \in Runs : r[1] < drv[d].seed
    BY <2>1, SizesAssumption DEF Runs, Seeds
  <2>3. Runs \subseteq Present
    BY <2>1, <2>2 DEF Behind, ProgressInv, HasRuns
  <2> QED BY <1>1, <2>3 DEF CompleteHasAll, Runs
<1>4. completed' = completed \/ \E d \in Drivers : AllComplete(d)
  BY DEF Next, StartSweep, DriverStep, WatchdogStep, Fault, DriverOnly, CheckCuda, NoCuda,
         SkipRun, TrainRun, OpenCheckpoint, SaveCheckpoint, StartEval, SkipEval, LoadModel,
         OpenScore, WriteScore, EndEval, TrainingKilled, EvalKilled,
         StartWatchdog, CountCheckpoints, LookForWork, LookFor, LeaveAlone, Respawn, Reboot
<1> QED BY <1>2, <1>3, <1>4

LEMMA ProgressInit == Init => ProgressInv
BY DEF Init, ProgressInv, CompleteHasAll, HasRuns, Alive, Off, Training, Evaluating

LEMMA ProgressStep == DriversInv /\ FilesInv /\ ProgressInv /\ [Next]_vars => ProgressInv'
<1> SUFFICES ASSUME DriversInv, FilesInv, ProgressInv, [Next]_vars PROVE ProgressInv'
  OBVIOUS
<1>1. Present \subseteq Present'
  BY PresentGrows
<1>2. ASSUME UNCHANGED drv PROVE \A d \in Drivers : HasRuns(d)'
  BY <1>1, <1>2 DEF ProgressInv, HasRuns, Alive, Behind, File
<1>3. ASSUME NEW d \in Drivers, StartSweep(d) \/ Respawn(d) PROVE \A e \in Drivers : HasRuns(e)'
  BY <1>1, <1>3, SpawnBecomes, SpawnKeepsRuns, OthersKeepRuns DEF StartSweep, Respawn
<1>4. ASSUME NEW d \in Drivers, DriverStep(d) \/ NoCuda(d) \/ TrainingKilled(d) \/ EvalKilled(d)
      PROVE  \A e \in Drivers : HasRuns(e)'
  BY <1>1, <1>4, DriverRuns
<1>5. ASSUME Reboot PROVE \A e \in Drivers : HasRuns(e)'
  <2>1. drv' = [d \in Drivers |-> IF Alive(d) THEN Off("off") ELSE drv[d]]
    BY <1>5 DEF Reboot
  <2>2. \A d \in Drivers : ~Alive(d)'
    BY <2>1 DEF Alive, Off, Training, Evaluating
  <2>3. \A d \in Drivers : (drv[d].at # "saving")'
    BY <2>2 DEF Alive, Training
  <2> QED BY <2>2, <2>3 DEF HasRuns
<1>6. StartWatchdog \/ CountCheckpoints \/ LookForWork \/ LeaveAlone => UNCHANGED drv
  BY DEF StartWatchdog, CountCheckpoints, LookForWork, LookFor, LeaveAlone
<1>7. \A d \in Drivers : HasRuns(d)'
  BY <1>2, <1>3, <1>4, <1>5, <1>6 DEF Next, WatchdogStep, Fault, vars
<1>8. CompleteHasAll'
  <2>1. CASE UNCHANGED vars
    BY <2>1 DEF vars, CompleteHasAll, Present, ProgressInv
  <2>2. CASE Next
    BY <1>1, <2>2, CompleteStep
  <2> QED BY <2>1, <2>2
<1> QED BY <1>7, <1>8 DEF ProgressInv

-----------------------------------------------------------------------------
(* A sweep that was never doubled.  The driver that is alive is the only   *)
(* one; what it works on is in the state its last look or write left it    *)
(* in; and a score is only ever there beside a whole checkpoint, which is  *)
(* why no rewrite of a checkpoint can leave a score behind that is stale.  *)

Alone == \A d, e \in Drivers : Alive(d) /\ Alive(e) => d = e

\* The file of the run a driver is at.
InHand(d) == /\ drv[d].at = "training" => ckpt[File(d)] = "absent"
             /\ drv[d].at = "saving" => ckpt[File(d)] = "partial"
             /\ drv[d].at \in {"scoring", "writing"} => ckpt[File(d)] = "whole" /\ drv[d].current

Sound(r) == /\ ckpt[r] # "contested"
            /\ json[r] # "absent" => ckpt[r] = "whole"
            /\ json[r] # "stale"

SoleInv ==
  ~overlap => /\ Alone
              /\ \A d \in Drivers : InHand(d)
              /\ \A r \in Runs : Sound(r)

LEMMA OverlapStays == [Next]_vars /\ ~overlap' => ~overlap
BY DEF Next, StartSweep, DriverStep, WatchdogStep, Fault, DriverOnly, CheckCuda, NoCuda, Spawn,
       SkipRun, TrainRun, OpenCheckpoint, SaveCheckpoint, StartEval, SkipEval, LoadModel,
       OpenScore, WriteScore, EndEval, AllComplete, TrainingKilled, EvalKilled,
       StartWatchdog, CountCheckpoints, LookForWork, LookFor, LeaveAlone, Respawn, Reboot, vars

\* A step of the only driver says nothing of the others.
LEMMA LoneStep ==
  ASSUME NEW d \in Drivers, NEW at, NEW seed, NEW method, Becomes(d, at, seed, method),
         Alone, Alive(d) \/ \A e \in Drivers : ~Alive(e), InHand(d)'
  PROVE  Alone' /\ \A e \in Drivers : InHand(e)'
<1>1. ASSUME NEW e \in Drivers, e # d PROVE ~Alive(e) /\ drv'[e].at = drv[e].at
  BY <1>1 DEF Alone, Becomes
<1>2. \A e \in Drivers : e # d => ~Alive(e)'
  BY <1>1 DEF Alive
<1>3. Alone'
  BY <1>2 DEF Alone
<1>4. ASSUME NEW e \in Drivers, e # d PROVE InHand(e)'
  BY <1>2, <1>4 DEF Alive, InHand, Training, Evaluating
<1> QED BY <1>3, <1>4

\* The steps after which the driver has no file in its hands.
LEMMA EmptyHanded ==
  ASSUME NEW d \in Drivers, NEW at \in Places \ (Training \cup {"scoring", "writing"}),
         NEW seed, NEW method, Becomes(d, at, seed, method)
  PROVE  InHand(d)'
BY DEF Becomes, InHand, Training

\* The steps of the only driver that write no file.
LEMMA LoneWalk ==
  ASSUME DriversInv, NEW d \in Drivers, Alone, InHand(d), UNCHANGED ckpt,
         \/ CheckCuda(d) \/ SkipRun(d) \/ TrainRun(d) \/ AllComplete(d) \/ StartEval(d)
         \/ SkipEval(d) \/ LoadModel(d) \/ OpenScore(d) \/ WriteScore(d) \/ EndEval(d)
         \/ NoCuda(d) \/ TrainingKilled(d) \/ EvalKilled(d)
  PROVE  Alone' /\ \A e \in Drivers : InHand(e)'
<1>1. Alive(d)
  BY DEF CheckCuda, SkipRun, TrainRun, AtRun, AllComplete, StartEval, SkipEval, LoadModel, ToEvaluate,
         OpenScore, WriteScore, EndEval, NoCuda, TrainingKilled, EvalKilled, Alive, Training, Evaluating
<1>2. {"cuda", "check", "failed", "complete", "evaluating"} \subseteq Places \ (Training \cup {"scoring", "writing"})
  BY DEF Places, Training, Evaluating
<1>3. CASE CheckCuda(d) \/ SkipRun(d) \/ AllComplete(d) \/ NoCuda(d) \/ TrainingKilled(d)
  BY <1>1, <1>2, <1>3, WalkBecomes, EmptyHanded, LoneStep
<1>4. CASE StartEval(d) \/ SkipEval(d) \/ WriteScore(d) \/ EndEval(d) \/ EvalKilled(d)
  BY <1>1, <1>2, <1>4, EvaluationBecomes, EmptyHanded, LoneStep
<1>5. CASE TrainRun(d)
  <2>1. Becomes(d, "training", drv[d].seed, drv[d].method) /\ ckpt[File(d)] = "absent"
    BY <1>5, WalkBecomes DEF TrainRun
  <2>2. InHand(d)'
    BY <2>1 DEF Becomes, InHand, File
  <2> QED BY <1>1, <2>1, <2>2, LoneStep
<1>6. CASE LoadModel(d) \/ OpenScore(d)
  <2>1. PICK at \in {"scoring", "writing"} : Becomes(d, at, drv[d].seed, drv[d].method)
    BY <1>6, EvaluationBecomes
  <2>2. ckpt[File(d)] = "whole" /\ drv'[d].current
    BY <1>6, EvaluationBecomes DEF LoadModel, OpenScore, InHand
  <2>3. InHand(d)'
    BY <2>1, <2>2 DEF Becomes, InHand, File
  <2> QED BY <1>1, <2>1, <2>3, LoneStep
<1> QED BY <1>3, <1>4, <1>5, <1>6

\* The only driver opens a checkpoint file that was not there, and makes it whole.
LEMMA LoneSave ==
  ASSUME DriversInv, FilesInv, NEW d \in Drivers, Alone, InHand(d), \A r \in Runs : Sound(r),
         OpenCheckpoint(d) \/ SaveCheckpoint(d)
  PROVE  /\ Alone' /\ \A e \in Drivers : InHand(e)'
         /\ \A r \in Runs : Sound(r)'
         /\ File(d) \in Runs /\ ckpt[File(d)] # "whole"
         /\ \A r \in Runs \ {File(d)} : ckpt'[r] = ckpt[r]
         /\ OpenCheckpoint(d) => drv'[d].at = "saving" /\ File(d)' = File(d)
         /\ SaveCheckpoint(d) => ckpt'[File(d)] = "whole"
<1>1. Alive(d) /\ File(d) \in Runs
  BY FileSteps DEF OpenCheckpoint, SaveCheckpoint, Alive, Training
<1>2. CASE OpenCheckpoint(d)
  <2>1. Becomes(d, "saving", drv[d].seed, drv[d].method) /\ ckpt[File(d)] = "absent"
    BY <1>2, RewriteBecomes DEF OpenCheckpoint, InHand
  <2>2. drv'[d].at = "saving" /\ File(d)' = File(d)
    BY <2>1 DEF Becomes, File
  <2>3. {e \in Drivers \ {d} : drv[e].at = "saving" /\ File(e) = File(d)} = {}
    BY <1>1 DEF Alone, Alive, Training
  <2>4. Rewrite(File(d), "partial")
    BY <1>2, <2>3 DEF OpenCheckpoint
  <2>5. ckpt'[File(d)] = "partial" /\ \A r \in Runs \ {File(d)} : ckpt'[r] = ckpt[r] /\ json'[r] = json[r]
    BY <1>1, <2>4, RewriteFiles DEF CkptStates
  <2>6. json[File(d)] = "absent" /\ json'[File(d)] = "absent"
    BY <1>1, <2>1, <2>4, RewriteFiles DEF CkptStates, Sound
  <2>7. \A r \in Runs : Sound(r)'
    BY <2>5, <2>6 DEF Sound
  <2>8. InHand(d)'
    BY <2>2, <2>5 DEF InHand
  <2>9. ~SaveCheckpoint(d)
    BY <1>2 DEF OpenCheckpoint, SaveCheckpoint
  <2> QED BY <1>1, <2>1, <2>2, <2>5, <2>7, <2>8, <2>9, LoneStep
<1>3. CASE SaveCheckpoint(d)
  <2>1. Becomes(d, "check", drv[d].seed, drv[d].method + 1) /\ ckpt[File(d)] = "partial"
    BY <1>3, RewriteBecomes DEF SaveCheckpoint, InHand
  <2>2. Rewrite(File(d), "whole")
    BY <1>3, <2>1 DEF SaveCheckpoint
  <2>3. ckpt'[File(d)] = "whole" /\ \A r \in Runs \ {File(d)} : ckpt'[r] = ckpt[r] /\ json'[r] = json[r]
    BY <1>1, <2>2, RewriteFiles DEF CkptStates
  <2>4. json[File(d)] = "absent" /\ json'[File(d)] = "absent"
    BY <1>1, <2>1, <2>2, RewriteFiles DEF CkptStates, Sound
  <2>5. \A r \in Runs : Sound(r)'
    BY <2>3, <2>4 DEF Sound
  <2>6. InHand(d)'
    BY <2>1, EmptyHanded DEF Places, Training
  <2>7. ~OpenCheckpoint(d)
    BY <1>3 DEF OpenCheckpoint, SaveCheckpoint
  <2> QED BY <1>1, <2>1, <2>3, <2>5, <2>6, <2>7, LoneStep
<1> QED BY <1>2, <1>3

\* A score is written beside the whole checkpoint it was taken from.
LEMMA LoneScore ==
  ASSUME DriversInv, FilesInv, NEW d \in Drivers, InHand(d), \A r \in Runs : Sound(r),
         OpenScore(d) \/ WriteScore(d)
  PROVE  \A r \in Runs : Sound(r)'
<1>1. File(d) \in Runs /\ ckpt[File(d)] = "whole" /\ drv[d].current
  BY FileSteps DEF OpenScore, WriteScore, InHand
<1>2. PICK score \in {"torn", "current"} : json' = [json EXCEPT ![File(d)] = score]
  BY <1>1 DEF OpenScore, WriteScore
<1>3. ckpt' = ckpt
  BY DEF OpenScore, WriteScore
<1> QED BY <1>1, <1>2, <1>3 DEF Sound, FilesInv

LEMMA SoleInit == Init => SoleInv /\ TornNeedsFault
BY DEF Init, SoleInv, Alone, InHand, Sound, TornNeedsFault, Alive, Off, Runs, Training, Evaluating

\* Every step of a sweep that is not doubled keeps the driver alone, what it has in its
\* hands, and the files.
LEMMA SoleStep == DriversInv /\ FilesInv /\ SoleInv /\ [Next]_vars => SoleInv'
<1> SUFFICES ASSUME DriversInv, FilesInv, SoleInv, [Next]_vars, ~overlap'
             PROVE  /\ Alone' /\ \A d \in Drivers : InHand(d)'
                    /\ \A r \in Runs : Sound(r)'
  BY DEF SoleInv
<1>1. Alone /\ (\A d \in Drivers : InHand(d)) /\ \A r \in Runs : Sound(r)
  BY OverlapStays DEF SoleInv
<1>2. ASSUME ckpt' = ckpt, json' = json PROVE \A r \in Runs : Sound(r)'
  BY <1>1, <1>2 DEF Sound
<1>3. ASSUME UNCHANGED <<drv, ckpt>> PROVE Alone' /\ \A d \in Drivers : InHand(d)'
  BY <1>1, <1>3 DEF Alone, InHand, Alive, File
<1>4. ASSUME NEW d \in Drivers, StartSweep(d) \/ Respawn(d)
      PROVE  Alone' /\ \A e \in Drivers : InHand(e)'
  <2>1. Becomes(d, "start", 1, 1) /\ \A e \in Drivers : ~Alive(e)
    BY <1>4, SpawnBecomes DEF StartSweep, Respawn, Spawn
  <2>2. InHand(d)'
    BY <2>1, EmptyHanded DEF Places, Training, Evaluating
  <2> QED BY <1>1, <2>1, <2>2, LoneStep
<1>5. ASSUME NEW d \in Drivers,
             \/ CheckCuda(d) \/ SkipRun(d) \/ TrainRun(d) \/ AllComplete(d) \/ StartEval(d)
             \/ SkipEval(d) \/ LoadModel(d) \/ OpenScore(d) \/ WriteScore(d) \/ EndEval(d)
             \/ NoCuda(d) \/ TrainingKilled(d) \/ EvalKilled(d)
      PROVE  Alone' /\ \A e \in Drivers : InHand(e)'
  <2>1. UNCHANGED ckpt
    BY <1>5 DEF DriverOnly, CheckCuda, SkipRun, TrainRun, AllComplete, StartEval, SkipEval, LoadModel,
                OpenScore, WriteScore, EndEval, NoCuda, TrainingKilled, EvalKilled
  <2> QED BY <1>1, <1>5, <2>1, LoneWalk
<1>6. ASSUME NEW d \in Drivers, OpenCheckpoint(d) \/ SaveCheckpoint(d)
      PROVE  Alone' /\ (\A e \in Drivers : InHand(e)') /\ \A r \in Runs : Sound(r)'
  BY <1>1, <1>6, LoneSave
<1>7. ASSUME Reboot PROVE Alone' /\ \A d \in Drivers : InHand(d)'
  <2>1. drv' = [d \in Drivers |-> IF Alive(d) THEN Off("off") ELSE drv[d]]
    BY <1>7 DEF Reboot
  <2>2. \A d \in Drivers : ~Alive(d)'
    BY <2>1 DEF Alive, Off, Training, Evaluating
  <2> QED BY <2>2 DEF Alone, InHand, Alive, Training, Evaluating
<1>8. StartWatchdog \/ CountCheckpoints \/ LookForWork \/ LeaveAlone => UNCHANGED <<drv, ckpt>>
  BY DEF StartWatchdog, CountCheckpoints, LookForWork, LookFor, LeaveAlone
<1>9. Alone' /\ \A d \in Drivers : InHand(d)'
  BY <1>3, <1>4, <1>5, <1>6, <1>7, <1>8 DEF Next, DriverStep, WatchdogStep, Fault, vars
<1>10. \A r \in Runs : Sound(r)'
  <2>1. ASSUME NEW d \in Drivers, OpenScore(d) \/ WriteScore(d) PROVE \A r \in Runs : Sound(r)'
    BY <1>1, <2>1, LoneScore
  <2> QED BY <1>2, <1>6, <2>1, FilesTouched DEF vars
<1> QED BY <1>9, <1>10

\* Without a fault a driver leaves off saving only when the checkpoint is whole.
LEMMA SaverStays ==
  ASSUME DriversInv, Next, faults \in Nat, faults' = faults, NEW e \in Drivers, drv[e].at = "saving"
  PROVE  SaveCheckpoint(e) \/ (drv'[e].at = "saving" /\ File(e)' = File(e))
<1>1. ASSUME NEW d \in Drivers, d # e, NEW at, NEW seed, NEW method, Becomes(d, at, seed, method)
      PROVE  drv'[e].at = "saving" /\ File(e)' = File(e)
  BY <1>1 DEF Becomes, File
<1>2. ASSUME NEW d \in Drivers, StartSweep(d) \/ Respawn(d)
      PROVE  drv'[e].at = "saving" /\ File(e)' = File(e)
  <2>1. d # e
    BY <1>2 DEF StartSweep, Respawn, Spawn, Alive, Training
  <2> QED BY <1>1, <1>2, <2>1, SpawnBecomes DEF StartSweep, Respawn
<1>3. faults' # faults + 1
  OBVIOUS
<1>4. ASSUME NEW d \in Drivers, DriverStep(d), ~SaveCheckpoint(e)
      PROVE  drv'[e].at = "saving" /\ File(e)' = File(e)
  <2>1. CASE CheckCuda(d) \/ SkipRun(d) \/ TrainRun(d) \/ AllComplete(d)
    <3>1. d # e
      BY <2>1 DEF CheckCuda, SkipRun, TrainRun, AtRun, AllComplete
    <3> QED BY <1>1, <2>1, <3>1, WalkBecomes
  <2>2. CASE \/ StartEval(d) \/ SkipEval(d) \/ LoadModel(d) \/ OpenScore(d) \/ WriteScore(d)
             \/ EndEval(d)
    <3>1. d # e
      BY <2>2 DEF StartEval, SkipEval, LoadModel, ToEvaluate, OpenScore, WriteScore, EndEval
    <3> QED BY <1>1, <2>2, <3>1, EvaluationBecomes
  <2>3. CASE OpenCheckpoint(d) \/ SaveCheckpoint(d)
    <3>1. d # e
      BY <1>4, <2>3 DEF OpenCheckpoint
    <3> QED BY <1>1, <2>3, <3>1, RewriteBecomes
  <2> QED BY <1>4, <2>1, <2>2, <2>3 DEF DriverStep
<1>5. ~Fault
  BY <1>3 DEF Fault, NoCuda, TrainingKilled, EvalKilled, Reboot
<1>6. StartWatchdog \/ CountCheckpoints \/ LookForWork \/ LeaveAlone
        => drv'[e].at = "saving" /\ File(e)' = File(e)
  BY DEF StartWatchdog, CountCheckpoints, LookForWork, LookFor, LeaveAlone, File
<1> QED BY <1>2, <1>4, <1>5, <1>6 DEF Next, WatchdogStep

LEMMA FaultsGrow ==
  ASSUME FlagsInv, [Next]_vars, faults' = 0
  PROVE  faults \in Nat /\ faults = 0 /\ faults' = faults
<1>1. faults' = faults \/ faults' = faults + 1
  BY DEF Next, StartSweep, DriverStep, WatchdogStep, Fault, DriverOnly, CheckCuda, NoCuda,
         SkipRun, TrainRun, OpenCheckpoint, SaveCheckpoint, StartEval, SkipEval, LoadModel,
         OpenScore, WriteScore, EndEval, AllComplete, TrainingKilled, EvalKilled,
         StartWatchdog, CountCheckpoints, LookForWork, LookFor, LeaveAlone, Respawn, Reboot, vars
<1>2. faults \in Nat
  BY BoundsAssumption DEF FlagsInv
<1> QED BY <1>1, <1>2

LEMMA TornStep == TypeInv /\ SoleInv /\ TornNeedsFault /\ [Next]_vars => TornNeedsFault'
<1> SUFFICES ASSUME TypeInv, SoleInv, TornNeedsFault, [Next]_vars, ~overlap', faults' = 0,
                    NEW r \in Runs, ckpt'[r] \notin {"absent", "whole"}
             PROVE  \E d \in Drivers : drv'[d].at = "saving" /\ File(d)' = r
  BY DEF TornNeedsFault, Runs
<1>1. DriversInv /\ FilesInv /\ FlagsInv
  BY DEF TypeInv
<1>2. faults \in Nat /\ faults = 0 /\ faults' = faults
  BY <1>1, FaultsGrow
<1>3. Alone /\ (\A d \in Drivers : InHand(d)) /\ (\A q \in Runs : Sound(q)) /\ ~overlap
  BY OverlapStays DEF SoleInv
<1>4. CASE UNCHANGED vars
  BY <1>2, <1>3, <1>4 DEF vars, TornNeedsFault, File, Runs
<1>5. CASE Next
  <2>1. CASE ckpt'[r] = ckpt[r]
    <3>1. PICK e \in Drivers : drv[e].at = "saving" /\ File(e) = r
      BY <1>2, <1>3, <2>1 DEF TornNeedsFault, Runs
    <3>2. ~SaveCheckpoint(e)
      BY <1>1, <1>3, <3>1, LoneSave
    <3> QED BY <1>1, <1>2, <1>5, <3>1, <3>2, SaverStays
  <2>2. CASE ckpt'[r] # ckpt[r]
    <3>1. PICK d \in Drivers : OpenCheckpoint(d) \/ SaveCheckpoint(d)
      BY <1>5, <2>2, FilesTouched DEF OpenScore, WriteScore
    <3>2. r = File(d) /\ ~SaveCheckpoint(d)
      BY <1>1, <1>3, <2>2, <3>1, LoneSave
    <3> QED BY <1>1, <1>3, <3>1, <3>2, LoneSave
  <2> QED BY <2>1, <2>2
<1> QED BY <1>4, <1>5

-----------------------------------------------------------------------------
(* The theorems.                                                           *)

SweepInv == TypeInv /\ ProgressInv /\ SoleInv /\ TornNeedsFault

LEMMA SweepInvHolds == Spec => []SweepInv
<1>1. Init => SweepInv
  BY TypeInit, ProgressInit, SoleInit DEF SweepInv
<1>2. SweepInv /\ [Next]_vars => SweepInv'
  BY TypeStep, ProgressStep, SoleStep, TornStep DEF SweepInv, TypeInv
<1> QED BY <1>1, <1>2, PTL DEF Spec

\* "ALL COMPLETE" is logged only over a full set of checkpoint files, with any number of
\* drivers, kills and restarts; and a sweep that was never doubled and met no fault has no
\* torn file but the one being saved.
THEOREM CheckpointsCanBeReliedOn == Spec => []CheckpointsAreSound
<1>1. SweepInv => CheckpointsAreSound
  BY DEF SweepInv, ProgressInv, CheckpointsAreSound
<1> QED BY <1>1, SweepInvHolds, PTL

\* Skipping whatever exists never leaves a score of another model, as long as drivers do
\* not run side by side, through kills and restarts at any point.
THEOREM ScoresCanBeReliedOn == Spec => []ScoresAreCurrent
<1>1. SweepInv => ScoresAreCurrent
  BY DEF SweepInv, SoleInv, Sound, ScoresAreCurrent, Runs
<1> QED BY <1>1, SweepInvHolds, PTL

\* A restart retrains no completed model (ADR-004): no step of a sweep that is not doubled
\* touches a whole checkpoint.
THEOREM CompletedModelsAreKept == Spec => WholeIsKept
<1>1. SweepInv /\ [Next]_vars =>
        [~overlap => \A r \in Seeds \X Methods : ckpt[r] = "whole" => ckpt'[r] = "whole"]_vars
  <2> SUFFICES ASSUME SweepInv, Next, ~overlap, NEW r \in Runs, ckpt[r] = "whole"
               PROVE  ckpt'[r] = "whole"
    BY DEF Runs
  <2>1. DriversInv /\ FilesInv /\ Alone /\ (\A d \in Drivers : InHand(d)) /\ \A q \in Runs : Sound(q)
    BY DEF SweepInv, TypeInv, SoleInv
  <2>2. ASSUME NEW d \in Drivers, OpenCheckpoint(d) \/ SaveCheckpoint(d) PROVE ckpt'[r] = "whole"
    BY <2>1, <2>2, LoneSave
  <2> QED BY <2>2, FilesTouched DEF OpenScore, WriteScore
<1> QED BY <1>1, SweepInvHolds, PTL DEF Spec, WholeIsKept

-----------------------------------------------------------------------------
(* CountedEvaluation.  The invariant: the counters in memory are those of  *)
(* the batches before bi, and so are the ones in a file that can be read;  *)
(* with a limit, each task that is asked for has it or has counted every   *)
(* batch of this run.                                                      *)

\* A file of a script s whose counters are right.
Good(d, s) ==
  /\ IsDoc(d)
  /\ d.total = [b \in 1..d.completed |-> b]
  /\ \A t \in DOMAIN d.correct :
       Increasing(d.correct[t]) /\ ToSet(d.correct[t]) \subseteq 1..d.completed
  /\ s = "cw" =>
       /\ Len(d.records) = d.completed
       /\ \A b \in 1..d.completed :
            /\ d.records[b].batch = b
            /\ \A t \in DOMAIN d.correct : b \in ToSet(d.correct[t]) <=> t \in d.records[b].tasks
  /\ s = "mixed" => \A t \in DOMAIN d.correct : d.correct[t] = d.total

\* A limited run keeps up with its limit.
HadItsShare(t) == Len(mem.correct[t]) >= limit \/ Len(mem.correct[t]) >= bi - 1 - start

ProcessInv ==
  pc # "idle" =>
    /\ Good(mem, script)
    /\ mem.completed = bi - 1 /\ start < bi
    /\ asked \subseteq DOMAIN mem.correct
    /\ script = "mixed" => asked = Tasks
    /\ script = "foolbox" => \A t \in asked : HadItsShare(t)
    /\ pc = "loop" => bi = 1 \/ file = [state |-> "whole", doc |-> mem]
    /\ outcome = "none"

CountersFileInv ==
  /\ file = [state |-> file.state, doc |-> file.doc]
  /\ file.state = "whole" => Good(file.doc, script)

CountedInv == CountedTypeOK /\ CountersFileInv /\ ProcessInv /\ FinishedRunIsComplete

\* The document of a start with --overwrite, or without a file.
LEMMA FreshIsGood ==
  ASSUME NEW tasks \in SUBSET Tasks, NEW s
  PROVE  Good(FreshDoc(tasks), s)
<1>1. PICK d : d = FreshDoc(tasks)
  OBVIOUS
<1>2. /\ DOMAIN d = {"completed", "total", "correct", "records"} /\ d.completed = 0
      /\ d.total = <<>> /\ d.records = <<>> /\ DOMAIN d.correct = tasks
      /\ \A t \in tasks : d.correct[t] = <<>>
  BY <1>1 DEF FreshDoc
<1>3. <<>> \in Seq(Batches) /\ <<>> \in Seq([batch : Batches, tasks : SUBSET Tasks])
      /\ 0 \in 0..NumBatches /\ Len(<<>>) = 0 /\ 1..0 = {} /\ 1..(0 - 1) = {}
  BY CountedAssumption
<1>4. ToSet(<<>>) = {} /\ Increasing(<<>>) /\ <<>> = [b \in 1..0 |-> b]
  BY <1>3 DEF ToSet, Increasing
<1>5. IsDoc(d)
  BY <1>2, <1>3 DEF IsDoc
<1>6. d.total = [b \in 1..d.completed |-> b]
  BY <1>2, <1>4
<1> QED BY <1>1, <1>2, <1>3, <1>4, <1>5, <1>6, Zenon DEF Good

\* What a document's type says of its parts.
LEMMA DocFacts ==
  ASSUME NEW d, IsDoc(d)
  PROVE  /\ d.completed \in Nat /\ d.completed <= NumBatches
         /\ \A t \in DOMAIN d.correct : t \in Tasks /\ Len(d.correct[t]) \in Nat
         /\ Len(d.records) \in Nat
<1>1. PICK R : R = [batch : Batches, tasks : SUBSET Tasks]
  OBVIOUS
<1>2. d.records \in Seq(R)
  BY <1>1 DEF IsDoc
<1>3. Len(d.records) \in Nat
  BY <1>2
<1> QED BY <1>3, CountedAssumption DEF IsDoc

\* A batch is counted for the tasks T, and recorded with the tasks a.
LEMMA OneMoreBatch ==
  ASSUME NEW d, NEW s, Good(d, s), NEW a \in SUBSET Tasks, NEW T,
         NEW b \in Batches, b = d.completed + 1,
         s = "cw" => \A t \in DOMAIN d.correct : t \in T <=> t \in a,
         s = "mixed" => DOMAIN d.correct \subseteq T,
         NEW e,
         e = [completed |-> d.completed + 1, total |-> Append(d.total, b),
              correct |-> [t \in DOMAIN d.correct |->
                 IF t \in T THEN Append(d.correct[t], b) ELSE d.correct[t]],
              records |-> IF s = "cw" THEN Append(d.records, [batch |-> b, tasks |-> a])
                          ELSE d.records]
  PROVE  Good(e, s)
<1>0. PICK n \in Nat : n = d.completed
  BY DocFacts DEF Good
<1>1. /\ DOMAIN e = {"completed", "total", "correct", "records"}
      /\ e.completed = d.completed + 1 /\ e.total = Append(d.total, b)
      /\ DOMAIN e.correct = DOMAIN d.correct
      /\ \A t \in DOMAIN d.correct :
           e.correct[t] = IF t \in T THEN Append(d.correct[t], b) ELSE d.correct[t]
      /\ e.records = IF s = "cw" THEN Append(d.records, [batch |-> b, tasks |-> a])
                     ELSE d.records
  OBVIOUS
<1>2. b = n + 1 /\ e.completed = b /\ b \in 0..NumBatches /\ n = b - 1
  BY <1>0, <1>1, CountedAssumption DEF Batches
<1>3. d.total = [k \in 1..n |-> k] /\ d.total \in Seq(Batches)
  BY <1>0 DEF Good, IsDoc
<1>4. e.total \in Seq(Batches) /\ e.total = [k \in 1..b |-> k]
  <2>1. PICK u \in Seq(Batches) : u = d.total
    BY <1>3
  <2>2. Len(u) = n /\ \A k \in 1..n : u[k] = k
    BY <1>3, <2>1
  <2>3. /\ Append(u, b) \in Seq(Batches) /\ Len(Append(u, b)) = b /\ Append(u, b)[b] = b
        /\ \A k \in 1..n : Append(u, b)[k] = k
    BY <1>2, <2>2, AppendPlaces
  <2>4. \A k \in 1..b : Append(u, b)[k] = k
    BY <1>2, <2>3
  <2>5. Append(u, b) = [k \in 1..b |-> Append(u, b)[k]]
    BY <2>3
  <2>6. [k \in 1..b |-> Append(u, b)[k]] = [k \in 1..b |-> k]
    BY <2>4
  <2> QED BY <1>1, <2>1, <2>3, <2>5, <2>6
<1>5. ASSUME NEW t \in DOMAIN d.correct
      PROVE  /\ t \in Tasks /\ e.correct[t] \in Seq(Batches) /\ Increasing(e.correct[t])
             /\ ToSet(e.correct[t]) = IF t \in T THEN ToSet(d.correct[t]) \cup {b}
                                      ELSE ToSet(d.correct[t])
             /\ ToSet(e.correct[t]) \subseteq 1..b
  <2>1. PICK u \in Seq(Batches) : u = d.correct[t]
    BY DEF Good, IsDoc
  <2>2. t \in Tasks /\ Increasing(u) /\ ToSet(u) \subseteq 1..n
    BY <1>0, <2>1 DEF Good, IsDoc
  <2>3. /\ Append(u, b) \in Seq(Batches) /\ Len(u) \in Nat /\ Len(Append(u, b)) = Len(u) + 1
        /\ Append(u, b)[Len(u) + 1] = b /\ \A i \in 1..Len(u) : Append(u, b)[i] = u[i]
        /\ ToSet(Append(u, b)) = ToSet(u) \cup {b}
    BY AppendPlaces, ToSetAppend
  <2>4. \A i \in 1..Len(u) : u[i] \in 1..n
    BY <2>2, <2>3 DEF ToSet
  <2>5. Increasing(Append(u, b))
    <3> SUFFICES ASSUME NEW i \in 1..Len(u)
                 PROVE  Append(u, b)[i] < Append(u, b)[i + 1]
      BY <2>3 DEF Increasing
    <3>1. CASE i = Len(u)
      BY <1>2, <2>3, <2>4, <3>1
    <3>2. CASE i # Len(u)
      <4>1. i \in 1..(Len(u) - 1) /\ i + 1 \in 1..Len(u)
        BY <2>3, <3>2
      <4> QED BY <2>2, <2>3, <4>1 DEF Increasing
    <3> QED BY <3>1, <3>2
  <2>6. 1..n \subseteq 1..b /\ b \in 1..b
    BY <1>2
  <2> QED BY <1>1, <2>1, <2>2, <2>3, <2>5, <2>6
<1>6. IsDoc(e)
  <2>1. PICK R : R = [batch : Batches, tasks : SUBSET Tasks]
    OBVIOUS
  <2>2. d.records \in Seq(R) /\ [batch |-> b, tasks |-> a] \in R
    BY <2>1 DEF Good, IsDoc
  <2>3. e.records \in Seq(R)
    BY <1>1, <2>2
  <2> QED BY <1>1, <1>2, <1>4, <1>5, <2>1, <2>3, Zenon DEF IsDoc
<1>7. ASSUME s = "cw"
      PROVE  /\ Len(e.records) = b
             /\ \A k \in 1..b :
                  /\ e.records[k].batch = k
                  /\ \A t \in DOMAIN d.correct : k \in ToSet(e.correct[t]) <=> t \in e.records[k].tasks
  <2>1. PICK R : R = [batch : Batches, tasks : SUBSET Tasks]
    OBVIOUS
  <2>2. PICK u \in Seq(R), r \in R : u = d.records /\ r = [batch |-> b, tasks |-> a]
    BY <2>1 DEF Good, IsDoc
  <2>3. Len(u) = n
    BY <1>0, <1>7, <2>2 DEF Good
  <2>4. /\ Len(Append(u, r)) = b /\ Append(u, r)[b] = r
        /\ \A k \in 1..n : Append(u, r)[k] = u[k]
    BY <1>2, <2>3, AppendPlaces
  <2>5. e.records = Append(u, r)
    BY <1>1, <1>7, <2>2
  <2>6. ASSUME NEW k \in 1..n, NEW t \in DOMAIN d.correct
        PROVE  /\ e.records[k].batch = k
               /\ k \in ToSet(e.correct[t]) <=> t \in e.records[k].tasks
    <3>1. u[k].batch = k /\ (k \in ToSet(d.correct[t]) <=> t \in u[k].tasks)
      BY <1>0, <1>7, <2>2, Zenon DEF Good
    <3>2. k # b
      BY <1>2
    <3>3. k \in ToSet(e.correct[t]) <=> k \in ToSet(d.correct[t])
      BY <1>5, <3>2
    <3> QED BY <2>4, <2>5, <3>1, <3>3
  <2>7. \A k \in 1..n : e.records[k].batch = k
    <3>1. \A k \in 1..n : u[k].batch = k
      BY <1>0, <1>7, <2>2, Zenon DEF Good
    <3> QED BY <2>4, <2>5, <3>1
  <2>8. ASSUME NEW t \in DOMAIN d.correct
        PROVE  b \in ToSet(e.correct[t]) <=> t \in e.records[b].tasks
    <3>1. e.records[b].tasks = a
      BY <2>2, <2>4, <2>5
    <3>2. t \in T <=> t \in a
      BY <1>7
    <3>3. b \notin ToSet(d.correct[t])
      <4>1. ToSet(d.correct[t]) \subseteq 1..n
        BY <1>0 DEF Good
      <4> QED BY <1>2, <4>1
    <3> QED BY <1>5, <3>1, <3>2, <3>3
  <2>9. e.records[b].batch = b
    BY <2>2, <2>4, <2>5
  <2>10. \A k \in 1..b : k \in 1..n \/ k = b
    BY <1>2
  <2>11. ASSUME NEW k \in 1..b
         PROVE  /\ e.records[k].batch = k
                /\ \A t \in DOMAIN d.correct : k \in ToSet(e.correct[t]) <=> t \in e.records[k].tasks
    <3>1. CASE k = b
      BY <2>8, <2>9, <3>1
    <3>2. CASE k \in 1..n
      BY <2>6, <2>7, <3>2
    <3> QED BY <2>10, <3>1, <3>2
  <2>12. Len(e.records) = b
    BY <2>4, <2>5
  <2> QED BY <2>11, <2>12
<1>8. s = "mixed" => \A t \in DOMAIN d.correct : e.correct[t] = e.total
  BY <1>1, Zenon DEF Good
<1> QED BY <1>1, <1>2, <1>4, <1>5, <1>6, <1>7, <1>8, ZenonT(60) DEF Good

\* The numbers are numbers.
LEMMA CountedTypes ==
  ASSUME CountedTypeOK
  PROVE  /\ limit \in Nat /\ bi \in Nat /\ start \in Nat /\ runs \in Nat /\ NumBatches \in Nat \ {0}
         /\ IsDoc(mem) /\ IsDoc(file.doc)
BY CountedAssumption DEF CountedTypeOK

\* Nothing has been counted yet.
LEMMA CountedInitInv == CountedInit => CountedInv
<1> SUFFICES ASSUME CountedInit PROVE CountedInv
  OBVIOUS
<1>1. IsDoc(FreshDoc({}))
  BY FreshIsGood DEF Good
<1>2. file.state = "absent" /\ file.doc = FreshDoc({}) /\ mem = FreshDoc({})
      /\ file = [state |-> file.state, doc |-> file.doc]
  BY DEF CountedInit, Absent
<1>3. 0 \in 0..NumBatches /\ 1 \in 1..(NumBatches + 1) /\ 0 \in 0..MaxRuns
  BY CountedAssumption
<1>4. CountedTypeOK
  BY <1>1, <1>2, <1>3 DEF CountedInit, CountedTypeOK
<1> QED BY <1>2, <1>4 DEF CountedInit, CountedInv, CountersFileInv, ProcessInv, FinishedRunIsComplete

\* A process begins with good counters, of a new document or of the file.
LEMMA CountedBegins ==
  ASSUME CountedInv, NEW tasks \in TaskChoices, NEW l \in LimitChoices, NEW d,
         Begin(tasks, l, d), Good(d, script), tasks \subseteq DOMAIN d.correct,
         d.completed = 0 \/ file = [state |-> "whole", doc |-> d]
  PROVE  CountedInv'
<1>1. /\ runs < MaxRuns /\ runs' = runs + 1 /\ pc' = "loop" /\ outcome' = "none"
      /\ asked' = tasks /\ limit' = l
      /\ mem' = d /\ start' = d.completed /\ bi' = d.completed + 1
      /\ script' = script /\ streaming' = streaming /\ file' = file
  BY DEF Begin, CanStart
<1>2. tasks \subseteq Tasks /\ l \in Limits \cup {0} /\ (script = "mixed" => tasks = Tasks)
  BY DEF TaskChoices, LimitChoices
<1>3. IsDoc(d) /\ d.completed \in Nat /\ d.completed <= NumBatches
      /\ \A t \in DOMAIN d.correct : Len(d.correct[t]) \in Nat
  BY DocFacts DEF Good
<1>4. CountedTypeOK'
  <2>1. runs' \in 0..MaxRuns
    BY <1>1, CountedAssumption DEF CountedInv, CountedTypeOK
  <2>2. start' \in 0..NumBatches /\ bi' \in 1..(NumBatches + 1)
    BY <1>1, <1>3, CountedAssumption
  <2> QED BY <1>1, <1>2, <1>3, <2>1, <2>2 DEF CountedInv, CountedTypeOK
<1>5. CountersFileInv'
  BY <1>1 DEF CountedInv, CountersFileInv
<1>6. ProcessInv'
  <2>1. bi' - 1 = d.completed /\ start' < bi' /\ bi' - 1 - start' = 0
    BY <1>1, <1>3
  <2>2. \A t \in tasks : Len(d.correct[t]) >= 0
    BY <1>3
  <2>3. \A t \in asked' : HadItsShare(t)'
    BY <1>1, <2>1, <2>2 DEF HadItsShare
  <2>4. bi' = 1 \/ file' = [state |-> "whole", doc |-> mem']
    BY <1>1, <1>3
  <2> QED BY <1>1, <1>2, <2>1, <2>3, <2>4 DEF ProcessInv
<1>7. FinishedRunIsComplete'
  BY <1>1 DEF FinishedRunIsComplete
<1> QED BY <1>4, <1>5, <1>6, <1>7 DEF CountedInv

\* A start, fresh or from the file.
LEMMA CountedStarts ==
  ASSUME CountedInv, StartFresh \/ StartResumed
  PROVE  CountedInv'
<1>1. CASE StartFresh
  <2>1. PICK tasks \in TaskChoices, l \in LimitChoices : Begin(tasks, l, FreshDoc(tasks))
    BY <1>1 DEF StartFresh
  <2>2. tasks \in SUBSET Tasks
    BY DEF TaskChoices
  <2>3. FreshDoc(tasks).completed = 0 /\ tasks \subseteq DOMAIN FreshDoc(tasks).correct
    BY DEF FreshDoc
  <2> QED BY <2>1, <2>2, <2>3, FreshIsGood, CountedBegins
<1>2. CASE StartResumed
  <2>1. PICK tasks \in TaskChoices, l \in LimitChoices :
          file.state = "whole" /\ Known(tasks) /\ Begin(tasks, l, file.doc)
    BY <1>2 DEF StartResumed
  <2>2. Good(file.doc, script) /\ file = [state |-> "whole", doc |-> file.doc]
    BY <2>1 DEF CountedInv, CountersFileInv
  <2>3. tasks \subseteq DOMAIN file.doc.correct
    BY <2>1 DEF Known
  <2> QED BY <2>1, <2>2, <2>3, CountedBegins
<1> QED BY <1>1, <1>2

\* The next batch: it is counted for the tasks that have not had their limit.
LEMMA BatchIsCounted ==
  ASSUME CountedInv, EvaluateBatch
  PROVE  CountedInv'
<1>1. /\ pc = "loop" /\ ~AtEnd
      /\ mem' = [completed |-> mem.completed + 1,
                 total |-> Append(mem.total, bi),
                 correct |-> [t \in DOMAIN mem.correct |->
                    IF Counts(t) THEN Append(mem.correct[t], bi) ELSE mem.correct[t]],
                 records |-> IF script = "cw" THEN Append(mem.records, [batch |-> bi, tasks |-> asked])
                             ELSE mem.records]
      /\ bi' = bi + 1 /\ pc' = "save"
      /\ UNCHANGED <<script, streaming, file, outcome, asked, limit, start, runs>>
  BY DEF EvaluateBatch, RecordOf, process
<1>2. /\ Good(mem, script) /\ mem.completed = bi - 1 /\ start < bi
      /\ asked \subseteq DOMAIN mem.correct /\ (script = "mixed" => asked = Tasks)
      /\ (script = "foolbox" => \A t \in asked : HadItsShare(t))
  BY <1>1 DEF CountedInv, ProcessInv
<1>3. /\ limit \in Nat /\ bi \in Nat /\ start \in Nat /\ NumBatches \in Nat \ {0} /\ asked \in SUBSET Tasks
      /\ bi \in Batches /\ bi = mem.completed + 1
  <2>1. ~(bi > NumBatches)
    BY <1>1 DEF AtEnd
  <2>2. limit \in Nat /\ bi \in Nat /\ start \in Nat /\ NumBatches \in Nat \ {0}
    BY CountedTypes DEF CountedInv
  <2>3. bi \in 1..(NumBatches + 1) /\ asked \in SUBSET Tasks
    BY DEF CountedInv, CountedTypeOK
  <2> QED BY <1>2, <2>1, <2>2, <2>3 DEF Batches
<1>4. /\ \A t \in DOMAIN mem.correct : t \in Tasks /\ Len(mem.correct[t]) \in Nat
      /\ \A t \in DOMAIN mem.correct : mem.correct[t] \in Seq(Batches)
  BY <1>2, DocFacts DEF Good, IsDoc
<1>5. Good(mem', script)
  <2> DEFINE T == {t \in DOMAIN mem.correct : Counts(t)}
  <2>1. \A t \in DOMAIN mem.correct : t \in T <=> Counts(t)
    OBVIOUS
  <2>2. script = "cw" => \A t \in DOMAIN mem.correct : t \in T <=> t \in asked
    BY DEF Counts
  <2>3. script = "mixed" => DOMAIN mem.correct \subseteq T
    BY <1>2, <1>4 DEF Counts
  <2> HIDE DEF T
  <2>4. [t \in DOMAIN mem.correct |->
           IF Counts(t) THEN Append(mem.correct[t], bi) ELSE mem.correct[t]]
        = [t \in DOMAIN mem.correct |->
             IF t \in T THEN Append(mem.correct[t], bi) ELSE mem.correct[t]]
    BY <2>1
  <2>5. mem' = [completed |-> mem.completed + 1, total |-> Append(mem.total, bi),
                correct |-> [t \in DOMAIN mem.correct |->
                   IF t \in T THEN Append(mem.correct[t], bi) ELSE mem.correct[t]],
                records |-> IF script = "cw" THEN Append(mem.records, [batch |-> bi, tasks |-> asked])
                            ELSE mem.records]
    BY <1>1, <2>4, Zenon
  <2>6. PICK d, e, s, a, b : d = mem /\ e = mem' /\ s = script /\ a = asked /\ b = bi
    OBVIOUS
  <2>7. /\ Good(d, s) /\ a \in SUBSET Tasks /\ b \in Batches /\ b = d.completed + 1
        /\ s = "cw" => \A t \in DOMAIN d.correct : t \in T <=> t \in a
        /\ s = "mixed" => DOMAIN d.correct \subseteq T
    BY <1>2, <1>3, <2>2, <2>3, <2>6, Zenon
  <2>8. e = [completed |-> d.completed + 1, total |-> Append(d.total, b),
             correct |-> [t \in DOMAIN d.correct |->
                IF t \in T THEN Append(d.correct[t], b) ELSE d.correct[t]],
             records |-> IF s = "cw" THEN Append(d.records, [batch |-> b, tasks |-> a])
                         ELSE d.records]
    BY <2>5, <2>6, Zenon
  <2>9. Good(e, s)
    BY <2>7, <2>8, OneMoreBatch, Zenon
  <2> QED BY <2>6, <2>9
<1>6. CountedTypeOK'
  <2>1. bi' \in 1..(NumBatches + 1)
    BY <1>1, <1>3 DEF Batches
  <2> QED BY <1>1, <1>5, <2>1 DEF CountedInv, CountedTypeOK, Good
<1>7. CountersFileInv'
  BY <1>1 DEF CountedInv, CountersFileInv
<1>8. mem'.completed = bi' - 1 /\ start' < bi' /\ DOMAIN mem'.correct = DOMAIN mem.correct
  BY <1>1, <1>2, <1>3
<1>9. ASSUME script = "foolbox", NEW t \in asked PROVE HadItsShare(t)'
  <2>1. /\ t \in DOMAIN mem.correct
        /\ mem'.correct[t] = IF Counts(t) THEN Append(mem.correct[t], bi) ELSE mem.correct[t]
    BY <1>1, <1>2
  <2>2. PICK u \in Seq(Batches) : u = mem.correct[t]
    BY <1>4, <2>1
  <2>3. Len(u) \in Nat /\ Len(Append(u, bi)) = Len(u) + 1
    BY <1>3, AppendPlaces
  <2>4. Len(u) >= limit \/ Len(u) >= bi - 1 - start
    BY <1>2, <1>9, <2>2 DEF HadItsShare
  <2>5. CASE Len(u) >= limit
    <3>1. ~Counts(t)
      BY <1>3, <1>9, <2>2, <2>3, <2>5 DEF Counts
    <3>2. mem'.correct[t] = u
      BY <2>1, <2>2, <3>1
    <3> QED BY <1>1, <2>5, <3>2 DEF HadItsShare
  <2>6. CASE ~(Len(u) >= limit)
    <3>1. Counts(t)
      BY <1>3, <1>9, <2>2, <2>3, <2>6 DEF Counts
    <3>2. Len(mem'.correct[t]) = Len(u) + 1
      BY <2>1, <2>2, <2>3, <3>1
    <3>3. Len(u) + 1 >= bi' - 1 - start'
      BY <1>1, <1>3, <2>3, <2>4, <2>6
    <3> QED BY <3>2, <3>3 DEF HadItsShare
  <2> QED BY <2>5, <2>6
<1>10. outcome' = "none" /\ pc' # "loop"
  BY <1>1 DEF CountedInv, ProcessInv
<1>11. ProcessInv'
  <2>1. asked' \subseteq DOMAIN mem'.correct /\ Good(mem', script')
    BY <1>1, <1>2, <1>5, <1>8
  <2>2. (script = "foolbox" => \A t \in asked : HadItsShare(t))'
    BY <1>1, <1>9
  <2> QED BY <1>1, <1>2, <1>8, <1>10, <2>1, <2>2 DEF ProcessInv
<1>12. FinishedRunIsComplete'
  BY <1>10 DEF FinishedRunIsComplete
<1> QED BY <1>6, <1>7, <1>11, <1>12 DEF CountedInv

\* Saving: after it, the file is what the process has.
LEMMA CountersAreSaved ==
  ASSUME CountedInv, Save
  PROVE  CountedInv'
<1>1. /\ \/ pc = "save" /\ pc' = "saving" /\ file' = [Absent EXCEPT !.state = "torn"]
         \/ pc = "saving" /\ pc' = "loop" /\ file' = [state |-> "whole", doc |-> mem]
      /\ UNCHANGED <<script, streaming, mem, outcome, asked, limit, start, bi, runs>>
  BY DEF Save, process
<1>2. Good(mem, script) /\ outcome = "none"
  BY <1>1 DEF CountedInv, ProcessInv
<1>3. /\ file'.state \in {"torn", "whole"} /\ IsDoc(file'.doc)
      /\ file' = [state |-> file'.state, doc |-> file'.doc]
      /\ file'.state = "whole" => file'.doc = mem
  <2>1. CASE file' = [Absent EXCEPT !.state = "torn"]
    <3>1. file' = [state |-> "torn", doc |-> FreshDoc({})]
      BY <2>1 DEF Absent
    <3>2. IsDoc(FreshDoc({}))
      BY FreshIsGood DEF Good
    <3> QED BY <3>1, <3>2
  <2>2. CASE file' = [state |-> "whole", doc |-> mem]
    BY <1>2, <2>2 DEF Good
  <2> QED BY <1>1, <2>1, <2>2
<1>4. CountedTypeOK'
  BY <1>1, <1>3 DEF CountedInv, CountedTypeOK
<1>5. CountersFileInv'
  BY <1>1, <1>2, <1>3 DEF CountersFileInv
<1>6. ProcessInv'
  BY <1>1 DEF CountedInv, ProcessInv, HadItsShare
<1>7. FinishedRunIsComplete'
  BY <1>1, <1>2 DEF FinishedRunIsComplete
<1> QED BY <1>4, <1>5, <1>6, <1>7 DEF CountedInv

\* The loop ends: the limit has been passed, or the test set.
LEMMA CountedRunEnds ==
  ASSUME CountedInv, Finish
  PROVE  CountedInv'
<1>1. /\ pc = "loop" /\ AtEnd /\ pc' = "idle" /\ outcome' = "done"
      /\ UNCHANGED <<script, streaming, file, mem, asked, limit, start, bi, runs>>
  BY DEF Finish, process
<1>2. CountedTypeOK' /\ CountersFileInv' /\ ProcessInv'
  BY <1>1 DEF CountedInv, CountedTypeOK, CountersFileInv, ProcessInv
<1>3. /\ Good(mem, script) /\ mem.completed = bi - 1 /\ start < bi
      /\ asked \subseteq DOMAIN mem.correct
      /\ (script = "foolbox" => \A t \in asked : HadItsShare(t))
      /\ (bi = 1 \/ file = [state |-> "whole", doc |-> mem])
  BY <1>1 DEF CountedInv, ProcessInv
<1>4. /\ limit \in Nat /\ bi \in Nat /\ start \in Nat /\ NumBatches \in Nat \ {0}
      /\ bi \in 1..(NumBatches + 1)
  BY CountedTypes DEF CountedInv, CountedTypeOK
<1>5. bi > NumBatches => mem.completed = NumBatches /\ bi # 1
  BY <1>3, <1>4
<1>6. ASSUME script = "foolbox" PROVE FinishedRunIsComplete'
  <2>1. ASSUME NEW t \in asked, ~(bi > NumBatches) PROVE Len(mem.correct[t]) >= limit
    <3>1. bi > start + limit
      BY <1>1, <2>1 DEF AtEnd
    <3>2. Len(mem.correct[t]) \in Nat
      BY <1>3, DocFacts DEF Good
    <3>3. Len(mem.correct[t]) >= limit \/ Len(mem.correct[t]) >= bi - 1 - start
      BY <1>3, <1>6 DEF HadItsShare
    <3> QED BY <1>4, <3>1, <3>2, <3>3
  <2>2. \A t \in asked : mem.completed = NumBatches \/ Len(mem.correct[t]) >= limit
    BY <1>5, <2>1
  <2> QED BY <1>1, <1>6, <2>2 DEF FinishedRunIsComplete
<1>7. ASSUME script # "foolbox" PROVE FinishedRunIsComplete'
  <2>1. bi > NumBatches
    BY <1>1, <1>7 DEF AtEnd
  <2>2. file = [state |-> "whole", doc |-> mem] /\ mem.completed = NumBatches
    BY <1>3, <1>5, <2>1
  <2>3. file.doc = mem
    BY <2>2
  <2> QED BY <1>1, <1>7, <2>2, <2>3 DEF FinishedRunIsComplete
<1> QED BY <1>2, <1>6, <1>7 DEF CountedInv

\* What leaves files, counters and options alone.
LEMMA CountersStay ==
  ASSUME CountedInv, Skip \/ StartFails \/ Killed \/ UNCHANGED countedVars
  PROVE  CountedInv'
<1>1. /\ UNCHANGED <<script, streaming, file, mem, asked, limit, start, bi>>
      /\ \/ pc' = pc /\ pc = "idle" /\ outcome' \in {"skipped", "failed"}
         \/ pc' = "idle" /\ outcome' = "killed"
         \/ pc' = pc /\ outcome' = outcome
      /\ runs' \in 0..MaxRuns
  <2>1. CASE Skip \/ StartFails
    BY <2>1, CountedAssumption
       DEF Skip, StartFails, EndAtOnce, CanStart, process, CountedInv, CountedTypeOK
  <2>2. CASE Killed \/ UNCHANGED countedVars
    BY <2>2 DEF Killed, countedVars, process, CountedInv, CountedTypeOK
  <2> QED BY <2>1, <2>2
<1>2. CountedTypeOK' /\ CountersFileInv'
  BY <1>1 DEF CountedInv, CountedTypeOK, CountersFileInv
<1>3. ProcessInv'
  BY <1>1 DEF CountedInv, ProcessInv, HadItsShare
<1>4. FinishedRunIsComplete'
  BY <1>1 DEF CountedInv, FinishedRunIsComplete
<1> QED BY <1>2, <1>3, <1>4 DEF CountedInv

-----------------------------------------------------------------------------
LEMMA CountedInvHolds == CountedSpec => []CountedInv
<1>1. CountedInv /\ [CountedNext]_countedVars => CountedInv'
  BY CountedStarts, BatchIsCounted, CountersAreSaved, CountedRunEnds, CountersStay DEF CountedNext
<1> QED BY <1>1, CountedInitInv, PTL DEF CountedSpec

\* The counters in the file and in memory keep their types, and a run never counts more
\* batches than the test set has.
THEOREM CountedTypeCorrect == CountedSpec => []CountedTypeOK
<1>1. CountedInv => CountedTypeOK
  BY DEF CountedInv
<1> QED BY <1>1, CountedInvHolds, PTL

\* A file that can be read counts the first batches, each once, no task counts a batch
\* twice, and the counters are what the batch records say, through all kills and resumes
\* with whatever tasks and limits.
THEOREM CountersHold == CountedSpec => []CountersAreExact
<1>1. CountedInv => CountersAreExact
  <2> SUFFICES ASSUME CountedInv, file.state = "whole" PROVE CountersAreExact
    BY DEF CountersAreExact, BatchesCountedOnce, CountersMatchBatches
  <2>1. PICK d : d = file.doc
    OBVIOUS
  <2>2. Good(d, script) /\ IsDoc(d)
    BY <2>1 DEF CountedInv, CountersFileInv, Good
  <2>3. PICK n \in Nat : n = d.completed
    BY <2>2, DocFacts
  <2>4. d.total = [b \in 1..n |-> b]
    BY <2>2, <2>3 DEF Good
  <2>5. ToSet(d.total) = 1..n
    <3>1. DOMAIN d.total = 1..n /\ \A b \in 1..n : d.total[b] = b
      BY <2>4
    <3> QED BY <3>1 DEF ToSet
  <2>6. BatchesCountedOnce
    BY <2>1, <2>2, <2>3, <2>4, <2>5 DEF Good, BatchesCountedOnce
  <2>7. ASSUME script = "cw"
        PROVE  /\ [i \in DOMAIN d.records |-> d.records[i].batch] = d.total
               /\ \A t \in DOMAIN d.correct : ToSet(d.correct[t]) = RecordedFor(d, t)
    <3>1. /\ Len(d.records) = n
          /\ \A b \in 1..n : /\ d.records[b].batch = b
                              /\ \A t \in DOMAIN d.correct :
                                   b \in ToSet(d.correct[t]) <=> t \in d.records[b].tasks
      BY <2>2, <2>3, <2>7, Zenon DEF Good
    <3>2. DOMAIN d.records = 1..n
      <4>1. PICK R : R = [batch : Batches, tasks : SUBSET Tasks]
        OBVIOUS
      <4>2. d.records \in Seq(R)
        BY <2>2, <4>1 DEF IsDoc
      <4> QED BY <3>1, <4>2
    <3>3. [i \in DOMAIN d.records |-> d.records[i].batch] = d.total
      BY <2>4, <3>1, <3>2
    <3>4. ASSUME NEW t \in DOMAIN d.correct PROVE ToSet(d.correct[t]) = RecordedFor(d, t)
      <4>1. ToSet(d.records) = {d.records[i] : i \in 1..n}
        BY <3>2 DEF ToSet
      <4>2. ToSet(d.correct[t]) \subseteq 1..n
        BY <2>2, <2>3 DEF Good
      <4>3. ASSUME NEW b \in ToSet(d.correct[t]) PROVE b \in RecordedFor(d, t)
        BY <3>1, <4>1, <4>2 DEF RecordedFor
      <4>4. ASSUME NEW b \in RecordedFor(d, t) PROVE b \in ToSet(d.correct[t])
        <5>1. PICK i \in 1..n : t \in d.records[i].tasks /\ b = d.records[i].batch
          BY <4>1 DEF RecordedFor
        <5> QED BY <3>1, <5>1
      <4> QED BY <4>3, <4>4
    <3> QED BY <3>3, <3>4
  <2>8. CountersMatchBatches
    BY <2>1, <2>2, <2>7 DEF Good, CountersMatchBatches
  <2> QED BY <2>6, <2>8 DEF CountersAreExact
<1> QED BY <1>1, CountedInvHolds, PTL

\* A run that ends in the regular way has covered the test set in the file it leaves, or
\* given each attack that was asked for its limit of batches.
THEOREM FinishedRunsAreComplete == CountedSpec => []FinishedRunIsComplete
<1>1. CountedInv => FinishedRunIsComplete
  BY DEF CountedInv
<1> QED BY <1>1, CountedInvHolds, PTL

-----------------------------------------------------------------------------
(* SweepQueue.  Proved are that no two workers have a job and that a calm  *)
(* start completes every job it finds in a state to be completed.          *)

AtWork(w) == worker[w].at \in Working
Taking(w) == worker[w].at \in {"sed", "rename"}

\* A start that has not come to its workers has none.
NoEarlyWorkers ==
    \A s \in 1..Starts :
        /\ s > starts => filled[s] = Ended
        /\ s > starts \/ filled[s] \in 0..Len(Jobs) => \A w \in AllWorkers : w[1] = s => Gone(w)

\* Who takes a job from the queue holds the lock, and who works has a job.
LockHeld ==
    \A w \in AllWorkers : /\ Taking(w) <=> lock = w
                          /\ AtWork(w) => worker[w].job \in JobSet

\* The only start at work is the last one.
OnlyLast ==
    /\ \A s \in 1..Starts : s # starts => filled[s] = Ended
    /\ \A w \in AllWorkers : w[1] # starts => Gone(w)

\* The first jobs are in the queue while it is filled, each once.
QueueOnce ==
    /\ starts > 0 /\ filled[starts] \in 0..Len(Jobs) =>
          /\ Len(queue) = filled[starts]
          /\ \A i \in DOMAIN queue : queue[i] = Jobs[i]
    /\ \A i, j \in DOMAIN queue : queue[i] = queue[j] => i = j

\* What is taken is the head of the queue, and what is left its tail.
TakesHead ==
    \A w \in AllWorkers :
        /\ Taking(w) => worker[w].job = IF queue = <<>> THEN NoJob ELSE Head(queue)
        /\ worker[w].at = "rename" =>
              worker[w].rest = IF queue = <<>> THEN <<>> ELSE Tail(queue)

\* Nobody works on a job that is queued, nor two on one.
JobsApart ==
    \A w \in AllWorkers : AtWork(w) =>
        /\ \A i \in DOMAIN queue : queue[i] # worker[w].job
        /\ \A v \in AllWorkers \ {w} : AtWork(v) => worker[v].job # worker[w].job

AloneInv == alone => OnlyLast /\ QueueOnce /\ TakesHead /\ JobsApart

\* Until a job is loaded its files are as the start found them.
Untouched(j) ==
    \/ filled[starts] \in 0..Len(Jobs)
    \/ \E i \in DOMAIN queue : queue[i] = j
    \/ \E w \in AllWorkers : worker[w].at = "loads" /\ worker[w].job = j

AsFound ==
    starts > 0 => \A j \in JobSet : Untouched(j) =>
        saved[j] = found[j].saved /\ masks[j] = found[j].masks

\* A process knows what it went on from, and what it has saved is in the file.
GoesOn ==
    \A w \in AllWorkers : worker[w].at \in Working \ {"loads"} =>
        /\ worker[w].from = found[worker[w].job].saved
        /\ worker[w].from <= worker[w].done
        /\ worker[w].at = "runs" /\ worker[w].from = Saves => saved[worker[w].job] = Saves
        /\ worker[w].at \in {"keeps", "tears"} => saved[worker[w].job] = worker[w].done
        /\ worker[w].at = "tears" => worker[w].done = Saves

\* With the workers started, a job that can be completed is complete, queued or
\* worked on.
Complete(j) == saved[j] = Saves
NothingLost ==
    starts > 0 /\ filled[starts] = Len(Jobs) + 1 => \A j \in JobSet : Able(j) =>
        \/ Complete(j)
        \/ \E i \in DOMAIN queue : queue[i] = j
        \/ \E w \in AllWorkers : AtWork(w) /\ worker[w].job = j

\* A worker leaves only an empty queue.
LeavesEmptyQueue ==
    starts > 0 /\ filled[starts] = Len(Jobs) + 1 =>
        \A w \in AllWorkers : w[1] = starts /\ Gone(w) => queue = <<>>

CalmInv ==
    calm => /\ alone /\ AsFound /\ GoesOn /\ NothingLost /\ LeavesEmptyQueue
            /\ starts > 0 /\ filled[starts] = Ended =>
                  /\ \A j \in JobSet : Able(j) => Complete(j)
                  /\ \A w \in AllWorkers : Gone(w)

IInv == QueueTypeOK /\ NoEarlyWorkers /\ LockHeld /\ AloneInv /\ CalmInv

-----------------------------------------------------------------------------
(* What each step does to the workers.                                     *)

Place == [at : {"gone", "takes", "sed", "rename"} \cup Working,
          job : JobSet \cup {NoJob}, rest : Seq(JobSet), from : 0..Saves, done : 0..Saves]

LEMMA Bounds ==
    /\ Workers \in Nat \ {0} /\ Saves \in Nat \ {0} /\ Starts \in Nat /\ Kills \in Nat
    /\ \A j \in JobSet : EmptyAt[j] \in 1..(Saves + 1)
<1>1. /\ Workers \in Nat \ {0} /\ Saves \in Nat \ {0} /\ Starts \in Nat /\ Kills \in Nat
      /\ EmptyAt \in [{Jobs[i] : i \in DOMAIN Jobs} -> 1..(Saves + 1)]
  BY QueueAssumption, Zenon
<1> QED BY <1>1 DEF JobSet

LEMMA JobFacts ==
    /\ Len(Jobs) \in Nat /\ DOMAIN Jobs = 1..Len(Jobs)
    /\ \A i \in 1..Len(Jobs) : Jobs[i] \in JobSet
    /\ \A j \in JobSet : \E i \in 1..Len(Jobs) : Jobs[i] = j
    /\ \A i, j \in 1..Len(Jobs) : Jobs[i] = Jobs[j] => i = j
    /\ NoJob \notin JobSet
<1>1. PICK S : Jobs \in Seq(S) /\ \A j \in S : j # ""
  <2>1. Jobs \in Seq(STRING \ {""}) /\ \A j \in STRING \ {""} : j # ""
    BY QueueAssumption, Zenon
  <2> QED BY <2>1, Zenon
<1>2. \A i, j \in DOMAIN Jobs : Jobs[i] = Jobs[j] => i = j
  BY QueueAssumption, Zenon
<1>3. Len(Jobs) \in Nat /\ DOMAIN Jobs = 1..Len(Jobs) /\ \A i \in 1..Len(Jobs) : Jobs[i] # ""
  <2>1. Jobs \in Seq(S)
    BY <1>1
  <2>2. /\ Len(Jobs) \in Nat /\ DOMAIN Jobs = 1..Len(Jobs)
        /\ \A i \in 1..Len(Jobs) : Jobs[i] \in S
    BY <2>1
  <2> QED BY <1>1, <2>2, Zenon
<1> QED BY <1>2, <1>3 DEF JobSet, NoJob

LEMMA IdleFacts ==
    /\ Idle \in Place /\ Idle.at = "gone" /\ Idle.job = NoJob
    /\ [Idle EXCEPT !.at = "takes"] \in Place
    /\ [Idle EXCEPT !.at = "takes"].at = "takes"
    /\ \A j \in JobSet : /\ [Idle EXCEPT !.at = "loads", !.job = j] \in Place
                         /\ [Idle EXCEPT !.at = "loads", !.job = j].at = "loads"
                         /\ [Idle EXCEPT !.at = "loads", !.job = j].job = j
<1>1. <<>> \in Seq(JobSet) /\ 0 \in 0..Saves
  BY Bounds
<1> QED BY <1>1 DEF Idle, Place, Working

LEMMA QueueParts ==
    ASSUME NEW S, NEW q \in Seq(S)
    PROVE  /\ DOMAIN q = 1..Len(q) /\ Len(q) \in Nat
           /\ q = <<>> <=> Len(q) = 0
           /\ q # <<>> => /\ 1 \in DOMAIN q /\ Head(q) = q[1] /\ Head(q) \in S
                          /\ Tail(q) \in Seq(S) /\ Len(Tail(q)) = Len(q) - 1
                          /\ DOMAIN Tail(q) = 1..(Len(q) - 1)
                          /\ \A i \in 1..(Len(q) - 1) : Tail(q)[i] = q[i + 1]
           /\ \A e \in S : /\ Append(q, e) \in Seq(S) /\ Len(Append(q, e)) = Len(q) + 1
                           /\ DOMAIN Append(q, e) = 1..(Len(q) + 1)
                           /\ \A i \in 1..Len(q) : Append(q, e)[i] = q[i]
                           /\ Append(q, e)[Len(q) + 1] = e
  OBVIOUS

\* The steps of worker w, by its place before and after.
WorkerStep(w) ==
    \/ TakeHead(w) \/ SedReads(w) \/ SedRenames(w)
    \/ Load(w) \/ CompareFails(w) \/ GateFails(w)
    \/ OpenResult(w) \/ WriteResult(w) \/ ReplaceMasks(w) \/ SaveFinalMasks(w)
    \/ KillPython(w)

\* A process that fails is one that has to compare masks or that counts twice.
ProcessFails(w) ==
    \/ /\ worker[w].done < Saves
       /\ \/ Refs[worker[w].job] = "whole" /\ worker[w].from > 0
          \/ Refs[worker[w].job] = "short"
    \/ NextSave(w) = Saves /\ CountsTwice(w)

\* Worker w stays with its job and what it went on from.
SameJob(w) == worker'[w].job = worker[w].job /\ worker'[w].from = worker[w].from
SameRun(w) == SameJob(w) /\ worker'[w].done = worker[w].done

LEMMA WorkerMoves ==
    ASSUME QueueTypeOK, LockHeld, NEW w \in AllWorkers, WorkerStep(w)
    PROVE  /\ worker' \in [AllWorkers -> Place]
           /\ \A v \in AllWorkers \ {w} : worker'[v] = worker[v]
           /\ UNCHANGED <<filled, found, alone, starts>>
           /\ masks' \in [JobSet -> MaskStates]
           /\ worker[w].at \notin {"keeps", "tears"} => masks' = masks
           /\ \A j \in JobSet \ {worker[w].job} : masks'[j] = masks[j]
           /\ \/ /\ worker[w].at = "takes" /\ worker'[w].at = "sed"
                 /\ lock = Free /\ lock' = w /\ UNCHANGED <<queue, saved, calm, kills>>
                 /\ worker'[w].job = IF queue = <<>> THEN NoJob ELSE Head(queue)
              \/ /\ worker[w].at = "sed" /\ worker'[w].at = "rename"
                 /\ UNCHANGED <<queue, lock, saved, calm, kills>>
                 /\ worker'[w].job = worker[w].job
                 /\ worker'[w].rest = IF queue = <<>> THEN <<>> ELSE Tail(queue)
              \/ /\ worker[w].at = "rename" /\ lock' = Free /\ queue' = worker[w].rest
                 /\ UNCHANGED <<saved, calm, kills>>
                 /\ IF worker[w].job = NoJob THEN worker'[w].at = "gone"
                    ELSE worker'[w].at = "loads" /\ worker'[w].job = worker[w].job
              \/ /\ worker[w].at = "loads"
                 /\ UNCHANGED <<queue, lock, saved, calm, kills>>
                 /\ IF \/ saved[worker[w].job] = 0
                       \/ saved[worker[w].job] # Torn /\ masks[worker[w].job] = "whole"
                    THEN /\ worker'[w].at = "runs" /\ worker'[w].job = worker[w].job
                         /\ worker'[w].from = saved[worker[w].job]
                         /\ worker'[w].done = saved[worker[w].job]
                    ELSE worker'[w].at = "takes"
              \/ /\ worker[w].at = "runs" /\ worker'[w].at = "takes" /\ ProcessFails(w)
                 /\ UNCHANGED <<queue, lock, saved, calm, kills>>
              \/ /\ worker[w].at = "runs" /\ worker'[w].at = "saves" /\ SameRun(w)
                 /\ saved' = [saved EXCEPT ![worker[w].job] = Torn]
                 /\ UNCHANGED <<queue, lock, calm, kills>>
              \/ /\ worker[w].at = "saves" /\ worker'[w].at = "keeps" /\ SameJob(w)
                 /\ worker'[w].done = NextSave(w)
                 /\ saved' = [saved EXCEPT ![worker[w].job] = NextSave(w)]
                 /\ UNCHANGED <<queue, lock, calm, kills>>
              \/ /\ worker[w].at = "keeps" /\ worker'[w].at = "runs" /\ SameRun(w)
                 /\ worker[w].done < Saves
                 /\ UNCHANGED <<queue, lock, saved, calm, kills>>
              \/ /\ worker[w].at = "keeps" /\ worker'[w].at = "tears" /\ SameRun(w)
                 /\ worker[w].done = Saves
                 /\ UNCHANGED <<queue, lock, saved, calm, kills>>
              \/ /\ worker[w].at = "tears" /\ worker'[w].at = "takes"
                 /\ UNCHANGED <<queue, lock, saved, calm, kills>>
              \/ /\ AtWork(w) /\ worker'[w].at = "takes" /\ calm' = FALSE
                 /\ UNCHANGED <<queue, lock, saved>> /\ kills' \in 0..Kills
<1>1. /\ worker \in [AllWorkers -> Place] /\ queue \in Seq(JobSet)
      /\ saved \in [JobSet -> Torn..Saves] /\ kills \in 0..Kills
      /\ masks \in [JobSet -> MaskStates]
  BY DEF QueueTypeOK, Place
<1> DEFINE p == worker[w]
<1>2. /\ p \in Place /\ p.job \in JobSet \cup {NoJob} /\ p.rest \in Seq(JobSet)
      /\ p.from \in 0..Saves /\ p.done \in 0..Saves
  BY <1>1 DEF Place
<1>3. AtWork(w) => p.job \in JobSet
  BY DEF LockHeld
<1>4. [Idle EXCEPT !.at = "takes"] \in Place /\ [Idle EXCEPT !.at = "takes"].at = "takes"
  BY IdleFacts
<1>5. ASSUME NEW new \in Place, worker' = [worker EXCEPT ![w] = new]
      PROVE  /\ worker' \in [AllWorkers -> Place] /\ worker'[w] = new
             /\ \A v \in AllWorkers \ {w} : worker'[v] = worker[v]
  BY <1>1, <1>5
<1>15. ASSUME masks' = masks
       PROVE  /\ masks' \in [JobSet -> MaskStates]
              /\ \A j \in JobSet \ {worker[w].job} : masks'[j] = masks[j]
  BY <1>1, <1>15
<1>16. \A at \in Working, n \in 0..Saves :
           LET new == [p EXCEPT !.at = at, !.done = n] IN
           new \in Place /\ new.at = at /\ new.job = p.job /\ new.from = p.from /\ new.done = n
  BY <1>2 DEF Place
<1>17. \A at \in Working :
           LET new == [p EXCEPT !.at = at] IN
           new \in Place /\ new.at = at /\ new.job = p.job /\ new.from = p.from /\ new.done = p.done
  BY <1>2 DEF Place
<1>18. ASSUME LeavesJob(w)
       PROVE  /\ worker' \in [AllWorkers -> Place] /\ worker'[w].at = "takes"
              /\ \A v \in AllWorkers \ {w} : worker'[v] = worker[v]
  <2>1. worker' = [worker EXCEPT ![w] = [Idle EXCEPT !.at = "takes"]]
    BY <1>18 DEF LeavesJob, Moves
  <2> QED BY <1>4, <1>5, <2>1
<1>6. CASE TakeHead(w)
  <2> DEFINE job == IF queue = <<>> THEN NoJob ELSE Head(queue)
  <2>1. job \in JobSet \cup {NoJob}
    BY <1>1, QueueParts
  <2> HIDE DEF job
  <2>2. worker' = [worker EXCEPT ![w] = [p EXCEPT !.at = "sed", !.job = job]]
    BY <1>1, <1>6 DEF TakeHead, job
  <2>3. /\ [p EXCEPT !.at = "sed", !.job = job] \in Place
        /\ [p EXCEPT !.at = "sed", !.job = job].at = "sed"
        /\ [p EXCEPT !.at = "sed", !.job = job].job = job
    BY <1>2, <2>1 DEF Place
  <2> QED BY <1>5, <1>15, <1>6, <2>2, <2>3 DEF files, past, TakeHead, job
<1>7. CASE SedReads(w)
  <2> DEFINE rest == IF queue = <<>> THEN <<>> ELSE Tail(queue)
  <2>1. rest \in Seq(JobSet)
    BY <1>1, QueueParts
  <2> HIDE DEF rest
  <2>2. worker' = [worker EXCEPT ![w] = [p EXCEPT !.at = "rename", !.rest = rest]]
    BY <1>1, <1>7 DEF SedReads, rest
  <2>3. /\ [p EXCEPT !.at = "rename", !.rest = rest] \in Place
        /\ [p EXCEPT !.at = "rename", !.rest = rest].at = "rename"
        /\ [p EXCEPT !.at = "rename", !.rest = rest].job = p.job
        /\ [p EXCEPT !.at = "rename", !.rest = rest].rest = rest
    BY <1>2, <2>1 DEF Place
  <2> QED BY <1>5, <1>15, <1>7, <2>2, <2>3 DEF files, past, SedReads, rest
<1>8. CASE SedRenames(w)
  <2>1. CASE p.job = NoJob
    <3>1. worker' = [worker EXCEPT ![w] = Idle]
      BY <1>1, <1>8, <2>1 DEF SedRenames
    <3> QED BY <1>5, <1>8, <1>15, <2>1, <3>1, IdleFacts DEF SedRenames, files, past
  <2>2. CASE p.job # NoJob
    <3>1. worker' = [worker EXCEPT ![w] = [Idle EXCEPT !.at = "loads", !.job = p.job]]
      BY <1>1, <1>8, <2>2 DEF SedRenames
    <3>2. /\ [Idle EXCEPT !.at = "loads", !.job = p.job] \in Place
          /\ [Idle EXCEPT !.at = "loads", !.job = p.job].at = "loads"
          /\ [Idle EXCEPT !.at = "loads", !.job = p.job].job = p.job
      BY <1>2, <2>2, IdleFacts
    <3> QED BY <1>5, <1>8, <1>15, <2>2, <3>1, <3>2 DEF SedRenames, files, past
  <2> QED BY <2>1, <2>2
<1>9. CASE Load(w)
  <2>1. p.at = "loads" /\ p.job \in JobSet /\ UNCHANGED <<queue, lock, filled, files, past, kills>>
    BY <1>3, <1>9 DEF Load, AtWork, Working
  <2> DEFINE n == saved[p.job]
             goesOn == n = 0 \/ (n # Torn /\ masks[p.job] = "whole")
  <2>2. CASE ~goesOn
    <3>1. LeavesJob(w)
      BY <1>9, <2>2 DEF Load
    <3> QED BY <1>15, <1>18, <2>1, <2>2, <3>1 DEF files, past
  <2>3. CASE goesOn
    <3>1. n \in 0..Saves
      BY <1>1, <2>1, <2>3, Bounds DEF Torn
    <3> DEFINE new == [p EXCEPT !.at = "runs", !.from = n, !.done = n]
    <3>2. worker' = [worker EXCEPT ![w] = new]
      BY <1>9, <2>3 DEF Load, Moves
    <3>3. new \in Place /\ new.at = "runs" /\ new.job = p.job /\ new.from = n /\ new.done = n
      BY <1>2, <3>1 DEF Place, Working
    <3> HIDE DEF new
    <3>4. /\ worker' \in [AllWorkers -> Place] /\ worker'[w] = new
          /\ \A v \in AllWorkers \ {w} : worker'[v] = worker[v]
      BY <1>5, <3>2, <3>3
    <3> QED BY <1>15, <2>1, <2>3, <3>3, <3>4 DEF files, past
  <2> QED BY <2>2, <2>3
<1>10. CASE CompareFails(w) \/ GateFails(w)
  <2>1. /\ p.at = "runs" /\ LeavesJob(w) /\ ProcessFails(w)
        /\ UNCHANGED <<queue, lock, filled, files, past, kills>>
    BY <1>10 DEF CompareFails, GateFails, ProcessFails
  <2> QED BY <1>15, <1>18, <2>1 DEF files, past
<1>11. CASE OpenResult(w)
  <2>1. /\ p.at = "runs" /\ worker' = [worker EXCEPT ![w] = [p EXCEPT !.at = "saves"]]
        /\ saved' = [saved EXCEPT ![p.job] = Torn]
        /\ UNCHANGED <<queue, lock, filled, masks, past, kills>>
    BY <1>11 DEF OpenResult, Moves
  <2> QED BY <1>5, <1>15, <1>17, <2>1 DEF Working, past, SameRun, SameJob
<1>12. CASE WriteResult(w)
  <2>1. PICK n \in 0..Saves : n = NextSave(w)
    BY <1>2, Bounds DEF NextSave
  <2>2. /\ p.at = "saves" /\ saved' = [saved EXCEPT ![p.job] = n]
        /\ worker' = [worker EXCEPT ![w] = [p EXCEPT !.at = "keeps", !.done = n]]
        /\ UNCHANGED <<queue, lock, filled, masks, past, kills>>
    BY <1>12, <2>1 DEF WriteResult, Moves
  <2> DEFINE new == [p EXCEPT !.at = "keeps", !.done = n]
  <2>3. new \in Place /\ new.at = "keeps" /\ new.job = p.job /\ new.from = p.from /\ new.done = n
    BY <1>16 DEF Working
  <2> HIDE DEF new
  <2>4. /\ worker' \in [AllWorkers -> Place] /\ worker'[w] = new
        /\ \A v \in AllWorkers \ {w} : worker'[v] = worker[v]
    BY <1>5, <2>2, <2>3 DEF new
  <2> QED BY <1>15, <2>1, <2>2, <2>3, <2>4 DEF past, SameJob
<1>13. CASE ReplaceMasks(w) \/ SaveFinalMasks(w)
  <2>1. PICK state \in MaskStates : SaveMasks(w, state) /\ p.at \in {"keeps", "tears"}
    BY <1>13 DEF ReplaceMasks, SaveFinalMasks, MaskStates
  <2>2. /\ UNCHANGED <<queue, lock, filled, saved, past, kills>>
        /\ masks' \in [JobSet -> MaskStates]
        /\ \A j \in JobSet \ {p.job} : masks'[j] = masks[j]
    BY <1>1, <2>1 DEF SaveMasks
  <2>3. CASE p.at = "tears"
    <3>1. LeavesJob(w)
      BY <1>13, <2>3 DEF ReplaceMasks, SaveFinalMasks
    <3> QED BY <1>18, <2>2, <2>3, <3>1 DEF past
  <2>4. CASE p.at = "keeps"
    <3>1. PICK at \in {"runs", "tears"} :
             /\ worker' = [worker EXCEPT ![w] = [p EXCEPT !.at = at]]
             /\ at = "runs" => p.done < Saves
             /\ at = "tears" => p.done = Saves
      BY <1>13, <2>4 DEF ReplaceMasks, SaveFinalMasks, Moves
    <3> QED BY <1>5, <1>17, <2>2, <2>4, <3>1 DEF Working, past, SameRun, SameJob
  <2> QED BY <2>1, <2>3, <2>4
<1>14. CASE KillPython(w)
  <2>1. /\ AtWork(w) /\ LeavesJob(w) /\ calm' = FALSE
        /\ UNCHANGED <<queue, lock, filled, files, found, alone, starts>>
        /\ kills' = kills + 1 /\ kills < Kills
    BY <1>14 DEF KillPython, AtWork
  <2>2. kills' \in 0..Kills
    BY <1>1, <2>1, Bounds
  <2> QED BY <1>15, <1>18, <2>1, <2>2 DEF files
<1> QED BY <1>6, <1>7, <1>8, <1>9, <1>10, <1>11, <1>12, <1>13, <1>14 DEF WorkerStep

\* The steps, by who takes them.
LEMMA NextCases ==
    QueueNext <=>
      \/ StartScript \/ KillAll
      \/ \E s \in 1..Starts : AppendJob(s) \/ StartWorkers(s) \/ ScriptEnds(s) \/ KillScript(s)
      \/ \E w \in AllWorkers : WorkerStep(w)
  BY DEF QueueNext, WorkerStep

-----------------------------------------------------------------------------
(* Types, workers and the lock.                                            *)

LEMMA QueueTypeStep ==
    ASSUME QueueTypeOK, LockHeld, QueueNext
    PROVE  QueueTypeOK'
<1>1. /\ worker \in [AllWorkers -> Place] /\ queue \in Seq(JobSet)
      /\ lock \in AllWorkers \cup {Free} /\ filled \in [1..Starts -> Ended..(Len(Jobs) + 1)]
      /\ saved \in [JobSet -> Torn..Saves] /\ alone \in BOOLEAN /\ calm \in BOOLEAN
      /\ starts \in 0..Starts /\ kills \in 0..Kills
      /\ masks \in [JobSet -> MaskStates]
      /\ found \in [JobSet -> [saved : Torn..Saves, masks : MaskStates]]
  BY DEF QueueTypeOK, Place
<1>2. /\ <<>> \in Seq(JobSet) /\ Len(Jobs) \in Nat
      /\ \A i \in 1..Len(Jobs) : Jobs[i] \in JobSet
      /\ Starts \in Nat /\ Kills \in Nat /\ Saves \in Nat \ {0}
  BY JobFacts, Bounds
<1> USE DEF Ended
<1>3. CASE StartScript
  <2>1. UNCHANGED <<lock, worker, files, kills>> /\ queue' = <<>> /\ starts' = starts + 1
        /\ filled' = [filled EXCEPT ![starts + 1] = 0] /\ starts < Starts
        /\ alone' = NobodyRuns /\ calm' = NobodyRuns
        /\ \/ found' = [j \in JobSet |-> [saved |-> saved[j], masks |-> masks[j]]]
           \/ found' = found
    BY <1>3 DEF StartScript
  <2>2. alone' \in BOOLEAN /\ calm' \in BOOLEAN
    <3>1. NobodyRuns \in BOOLEAN
      BY DEF NobodyRuns
    <3> QED BY <2>1, <3>1, Zenon
  <2>3. starts' \in 0..Starts
    BY <1>1, <1>2, <2>1
  <2>4. filled' \in [1..Starts -> Ended..(Len(Jobs) + 1)]
    <3>1. 0 \in Ended..(Len(Jobs) + 1)
      BY <1>2
    <3> QED BY <1>1, <2>1, <3>1
  <2>5. found' \in [JobSet -> [saved : Torn..Saves, masks : MaskStates]]
    BY <1>1, <2>1
  <2> QED BY <1>1, <1>2, <2>1, <2>2, <2>3, <2>4, <2>5 DEF QueueTypeOK, Place, files
<1>4. CASE KillAll
  <2>1. /\ worker' = [w \in AllWorkers |-> Idle] /\ lock' = Free /\ calm' = FALSE
        /\ filled' = [s \in 1..Starts |-> Ended] /\ kills' = kills + 1 /\ kills < Kills
        /\ UNCHANGED <<queue, files, found, alone, starts>>
    BY <1>4 DEF KillAll
  <2>2. worker' \in [AllWorkers -> Place]
    BY <2>1, IdleFacts
  <2>3. filled' \in [1..Starts -> Ended..(Len(Jobs) + 1)] /\ kills' \in 0..Kills
    BY <1>1, <1>2, <2>1
  <2>4. calm' \in BOOLEAN
    BY <2>1, Zenon
  <2> QED BY <1>1, <2>1, <2>2, <2>3, <2>4 DEF QueueTypeOK, Place, files
<1>5. ASSUME NEW s \in 1..Starts, AppendJob(s) PROVE QueueTypeOK'
  <2>1. filled[s] + 1 \in 1..Len(Jobs)
    BY <1>2, <1>5 DEF AppendJob
  <2>2. queue' \in Seq(JobSet)
    BY <1>1, <1>2, <1>5, <2>1, QueueParts DEF AppendJob
  <2>3. filled' \in [1..Starts -> Ended..(Len(Jobs) + 1)]
    <3>1. filled' = [filled EXCEPT ![s] = filled[s] + 1]
      BY <1>5 DEF AppendJob
    <3>2. filled[s] + 1 \in Ended..(Len(Jobs) + 1)
      BY <1>2, <2>1
    <3> QED BY <1>1, <3>1, <3>2
  <2> QED BY <1>1, <1>5, <2>2, <2>3 DEF AppendJob, QueueTypeOK, Place, files, past
<1>6. ASSUME NEW s \in 1..Starts, StartWorkers(s) PROVE QueueTypeOK'
  <2>1. worker' \in [AllWorkers -> Place]
    BY <1>1, <1>6, IdleFacts DEF StartWorkers
  <2>2. filled' \in [1..Starts -> Ended..(Len(Jobs) + 1)]
    <3>1. filled' = [filled EXCEPT ![s] = Len(Jobs) + 1]
      BY <1>6 DEF StartWorkers
    <3>2. Len(Jobs) + 1 \in Ended..(Len(Jobs) + 1)
      BY <1>2
    <3> QED BY <1>1, <3>1, <3>2
  <2> QED BY <1>1, <1>6, <2>1, <2>2 DEF StartWorkers, QueueTypeOK, Place, files, past
<1>7. ASSUME NEW s \in 1..Starts, ScriptEnds(s) \/ KillScript(s) PROVE QueueTypeOK'
  <2>1. filled' \in [1..Starts -> Ended..(Len(Jobs) + 1)] /\ kills' \in 0..Kills
    <3>1. /\ filled' = [filled EXCEPT ![s] = Ended]
          /\ kills' = kills \/ (kills < Kills /\ kills' = kills + 1)
      BY <1>7 DEF ScriptEnds, KillScript
    <3>2. Ended \in Ended..(Len(Jobs) + 1)
      BY <1>2
    <3>3. filled' \in [1..Starts -> Ended..(Len(Jobs) + 1)]
      BY <1>1, <3>1, <3>2
    <3>4. kills' \in 0..Kills
      BY <1>1, <1>2, <3>1
    <3> QED BY <3>3, <3>4
  <2>2. calm' = calm \/ calm' = FALSE
    BY <1>7 DEF ScriptEnds, KillScript, past
  <2>3. calm' \in BOOLEAN
    BY <1>1, <2>2, Zenon
  <2> QED BY <1>1, <1>7, <2>1, <2>3 DEF ScriptEnds, KillScript, QueueTypeOK, Place, files, past
<1>8. ASSUME NEW w \in AllWorkers, WorkerStep(w) PROVE QueueTypeOK'
  <2>1. worker' \in [AllWorkers -> Place] /\ UNCHANGED <<filled, found, alone, starts>>
        /\ masks' \in [JobSet -> MaskStates]
    BY <1>8, WorkerMoves
  <2>2. queue' \in Seq(JobSet)
    <3>1. worker[w].rest \in Seq(JobSet)
      BY <1>1 DEF Place
    <3> QED BY <1>1, <1>8, <3>1, WorkerMoves
  <2>3. lock' \in AllWorkers \cup {Free} /\ calm' \in BOOLEAN /\ kills' \in 0..Kills
    BY <1>1, <1>8, WorkerMoves
  <2>4. saved' \in [JobSet -> Torn..Saves]
    <3>1. \A n \in 0..Saves : n \in Torn..Saves
      BY <1>2 DEF Torn
    <3>2. Torn \in Torn..Saves
      BY <1>2 DEF Torn
    <3>3. NextSave(w) \in 0..Saves
      BY <1>1, <1>2 DEF Place, NextSave
    <3> QED BY <1>1, <1>8, <3>1, <3>2, <3>3, WorkerMoves
  <2> QED BY <1>1, <2>1, <2>2, <2>3, <2>4 DEF QueueTypeOK, Place
<1> QED BY <1>3, <1>4, <1>5, <1>6, <1>7, <1>8, NextCases

LEMMA WorkerIds == \A w \in AllWorkers : w[1] \in 1..Starts /\ w # Free
  BY DEF AllWorkers, Free

LEMMA EarlyStep ==
    ASSUME QueueTypeOK, NoEarlyWorkers, LockHeld, QueueNext
    PROVE  NoEarlyWorkers' /\ LockHeld'
<1>1. /\ worker \in [AllWorkers -> Place] /\ filled \in [1..Starts -> Ended..(Len(Jobs) + 1)]
      /\ starts \in 0..Starts /\ Len(Jobs) \in Nat /\ Starts \in Nat
  BY JobFacts, Bounds DEF QueueTypeOK, Place
<1> USE DEF Ended
<1>2. CASE StartScript
  <2>1. UNCHANGED <<lock, worker>> /\ starts' = starts + 1 /\ starts < Starts
        /\ filled' = [filled EXCEPT ![starts + 1] = 0]
    BY <1>2 DEF StartScript
  <2>2. LockHeld'
    BY <2>1 DEF LockHeld, Taking, AtWork, JobSet
  <2>3. ASSUME NEW s \in 1..Starts
        PROVE  /\ s > starts' => filled'[s] = Ended
               /\ s > starts' \/ filled'[s] \in 0..Len(Jobs) =>
                     \A w \in AllWorkers : w[1] = s => worker'[w].at = "gone"
    <3>1. /\ s > starts => filled[s] = Ended
          /\ s > starts \/ filled[s] \in 0..Len(Jobs) =>
                \A w \in AllWorkers : w[1] = s => worker[w].at = "gone"
      BY DEF NoEarlyWorkers, Gone
    <3>2. /\ s > starts' => s > starts /\ s # starts + 1
          /\ s = starts + 1 => s > starts
      BY <1>1, <2>1
    <3>3. s # starts + 1 => filled'[s] = filled[s]
      BY <1>1, <2>1
    <3> QED BY <2>1, <3>1, <3>2, <3>3
  <2> QED BY <2>2, <2>3 DEF NoEarlyWorkers, Gone, AllWorkers
<1>3. CASE KillAll
  <2>1. /\ worker' = [w \in AllWorkers |-> Idle] /\ lock' = Free
        /\ filled' = [s \in 1..Starts |-> Ended] /\ starts' = starts
    BY <1>3 DEF KillAll
  <2>2. \A w \in AllWorkers : worker'[w].at = "gone"
    BY <2>1, IdleFacts
  <2>3. LockHeld'
    BY <2>1, <2>2, WorkerIds DEF LockHeld, Taking, AtWork, Working
  <2> QED BY <2>1, <2>2, <2>3 DEF NoEarlyWorkers, Gone
<1>4. ASSUME NEW s \in 1..Starts, AppendJob(s) \/ ScriptEnds(s) \/ KillScript(s)
      PROVE  NoEarlyWorkers' /\ LockHeld'
  <2>1. UNCHANGED <<lock, worker, starts>>
    BY <1>4 DEF AppendJob, ScriptEnds, KillScript, past
  <2>2. LockHeld'
    BY <2>1 DEF LockHeld, Taking, AtWork, Working
  <2>3. /\ \A r \in 1..Starts \ {s} : filled'[r] = filled[r]
        /\ filled'[s] = Ended \/ filled[s] \in 0..(Len(Jobs) - 1)
        /\ filled[s] # Ended
    BY <1>1, <1>4 DEF AppendJob, ScriptEnds, KillScript
  <2>4. filled[s] \in 0..(Len(Jobs) - 1) => filled[s] \in 0..Len(Jobs)
    BY <1>1
  <2>5. Ended \notin 0..Len(Jobs)
    BY <1>1
  <2> QED BY <2>1, <2>2, <2>3, <2>4, <2>5 DEF NoEarlyWorkers, Gone
<1>5. ASSUME NEW s \in 1..Starts, StartWorkers(s)
      PROVE  NoEarlyWorkers' /\ LockHeld'
  <2>1. /\ filled[s] = Len(Jobs) /\ filled' = [filled EXCEPT ![s] = Len(Jobs) + 1]
        /\ UNCHANGED <<lock, starts>>
        /\ \A w \in AllWorkers : w[1] # s => worker'[w] = worker[w]
        /\ \A w \in AllWorkers : w[1] = s => worker'[w].at = "takes"
    BY <1>5, IdleFacts DEF StartWorkers, past
  <2>2. ~(s > starts) /\ \A w \in AllWorkers : w[1] = s => Gone(w)
    BY <1>1, <2>1 DEF NoEarlyWorkers
  <2>3. /\ filled'[s] \notin 0..Len(Jobs) /\ \A r \in 1..Starts \ {s} : filled'[r] = filled[r]
    BY <1>1, <2>1
  <2>4. NoEarlyWorkers'
    BY <2>1, <2>2, <2>3 DEF NoEarlyWorkers, Gone
  <2>5. LockHeld'
    BY <2>1, <2>2 DEF LockHeld, Taking, AtWork, Gone, Working
  <2> QED BY <2>4, <2>5
<1>6. ASSUME NEW w \in AllWorkers, WorkerStep(w)
      PROVE  NoEarlyWorkers' /\ LockHeld'
  <2>1. /\ \A v \in AllWorkers \ {w} : worker'[v] = worker[v]
        /\ UNCHANGED <<filled, starts>> /\ worker[w].at # "gone"
    BY <1>6, WorkerMoves DEF AtWork, Working
  <2>2. NoEarlyWorkers'
    BY <2>1 DEF NoEarlyWorkers, Gone
  <2>3. AtWork(w)' => worker'[w].job \in JobSet
    <3>1. worker[w].job \in JobSet \cup {NoJob}
      BY <1>1 DEF Place
    <3> QED BY <1>6, <3>1, WorkerMoves DEF LockHeld, AtWork, Working, SameRun, SameJob
  <2>4. /\ Taking(w)' <=> lock' = w
        /\ \A v \in AllWorkers \ {w} : lock' = v <=> lock = v
    BY <1>6, WorkerMoves, WorkerIds DEF LockHeld, Taking, AtWork, Working
  <2>5. LockHeld'
    BY <2>1, <2>3, <2>4 DEF LockHeld, Taking, AtWork, Working
  <2> QED BY <2>2, <2>5
<1> QED BY <1>2, <1>3, <1>4, <1>5, <1>6, NextCases

-----------------------------------------------------------------------------
(* Jobs under one start.                                                   *)

\* A rename takes the head off the queue, for the worker that took it.
LEMMA RenameTakesHead ==
    ASSUME QueueTypeOK, QueueOnce, TakesHead, NEW w \in AllWorkers, worker[w].at = "rename"
    PROVE  /\ queue = <<>> => worker[w].job = NoJob /\ worker[w].rest = <<>>
           /\ worker[w].job # NoJob =>
                 /\ queue # <<>> /\ worker[w].rest = Tail(queue) /\ worker[w].job = queue[1]
                 /\ 1 \in DOMAIN queue
           /\ \A i \in DOMAIN worker[w].rest :
                 i + 1 \in DOMAIN queue /\ worker[w].rest[i] = queue[i + 1]
           /\ \A i, j \in DOMAIN worker[w].rest : worker[w].rest[i] = worker[w].rest[j] => i = j
<1>1. queue \in Seq(JobSet)
  BY DEF QueueTypeOK
<1>2. /\ worker[w].job = IF queue = <<>> THEN NoJob ELSE Head(queue)
      /\ worker[w].rest = IF queue = <<>> THEN <<>> ELSE Tail(queue)
  BY DEF TakesHead, Taking
<1>3. CASE queue = <<>>
  BY <1>2, <1>3
<1>4. CASE queue # <<>>
  <2>1. /\ worker[w].rest = Tail(queue) /\ Head(queue) = queue[1] /\ 1 \in DOMAIN queue
        /\ \A i \in DOMAIN Tail(queue) :
              i \in Int /\ i + 1 \in DOMAIN queue /\ Tail(queue)[i] = queue[i + 1]
    BY <1>1, <1>2, <1>4, QueueParts
  <2>2. \A i, j \in DOMAIN Tail(queue) : Tail(queue)[i] = Tail(queue)[j] => i = j
    <3> SUFFICES ASSUME NEW i \in DOMAIN Tail(queue), NEW j \in DOMAIN Tail(queue),
                        Tail(queue)[i] = Tail(queue)[j]
                 PROVE  i = j
      OBVIOUS
    <3>1. i + 1 = j + 1 /\ i \in Int /\ j \in Int
      BY <2>1 DEF QueueOnce
    <3> QED BY <3>1
  <2> QED BY <1>2, <1>4, <2>1, <2>2
<1> QED BY <1>3, <1>4

\* The jobs while nobody is between taking one and finishing it.
LEMMA NobodyHasJob ==
    ASSUME \A w \in AllWorkers : ~AtWork(w) /\ ~Taking(w)
    PROVE  TakesHead /\ JobsApart
  BY DEF TakesHead, JobsApart, Taking

LEMMA AloneStep ==
    ASSUME QueueTypeOK, NoEarlyWorkers, LockHeld, AloneInv, QueueNext
    PROVE  AloneInv'
<1>1. /\ worker \in [AllWorkers -> Place] /\ filled \in [1..Starts -> Ended..(Len(Jobs) + 1)]
      /\ starts \in 0..Starts /\ Len(Jobs) \in Nat /\ Starts \in Nat
      /\ queue \in Seq(JobSet) /\ Ended \notin 0..Len(Jobs)
      /\ DOMAIN queue = 1..Len(queue) /\ Len(queue) \in Nat
  BY JobFacts, Bounds, QueueParts DEF QueueTypeOK, Place, Ended
<1> SUFFICES ASSUME alone' PROVE (OnlyLast /\ QueueOnce /\ TakesHead /\ JobsApart)'
  BY DEF AloneInv
<1>2. CASE StartScript
  <2>1. /\ NobodyRuns /\ queue' = <<>> /\ worker' = worker /\ starts' = starts + 1
        /\ starts < Starts /\ filled' = [filled EXCEPT ![starts + 1] = 0]
    BY <1>2 DEF StartScript
  <2>2. \A w \in AllWorkers : worker'[w].at = "gone"
    BY <2>1 DEF NobodyRuns, Gone
  <2>3. /\ starts' \in 1..Starts /\ filled'[starts'] = 0
        /\ \A s \in 1..Starts \ {starts'} : filled'[s] = Ended
    BY <1>1, <2>1 DEF NobodyRuns
  <2>4. OnlyLast'
    BY <2>2, <2>3 DEF OnlyLast, Gone
  <2>5. QueueOnce'
    BY <2>1, <2>3 DEF QueueOnce
  <2>6. (TakesHead /\ JobsApart)'
    BY <2>2 DEF TakesHead, JobsApart, Taking, AtWork, Working
  <2> QED BY <2>4, <2>5, <2>6
<1>3. StartScript \/ (OnlyLast /\ QueueOnce /\ TakesHead /\ JobsApart)
  <2>1. alone' = alone \/ StartScript
    BY NextCases, WorkerMoves DEF KillAll, AppendJob, StartWorkers, ScriptEnds, KillScript, past
  <2> QED BY <2>1 DEF AloneInv
<1>4. ASSUME KillAll, QueueOnce
      PROVE  (OnlyLast /\ QueueOnce /\ TakesHead /\ JobsApart)'
  <2>1. /\ \A w \in AllWorkers : worker'[w].at = "gone"
        /\ \A s \in 1..Starts : filled'[s] = Ended
        /\ queue' = queue /\ starts' = starts
    BY <1>4, IdleFacts DEF KillAll
  <2>2. OnlyLast'
    BY <2>1 DEF OnlyLast, Gone
  <2>3. QueueOnce'
    <3>1. starts > 0 => filled'[starts] \notin 0..Len(Jobs)
      BY <1>1, <2>1
    <3> QED BY <1>4, <2>1, <3>1 DEF QueueOnce
  <2>4. (TakesHead /\ JobsApart)'
    BY <2>1 DEF TakesHead, JobsApart, Taking, AtWork, Working
  <2> QED BY <2>2, <2>3, <2>4
<1>5. ASSUME NEW s \in 1..Starts, AppendJob(s), OnlyLast, QueueOnce
      PROVE  (OnlyLast /\ QueueOnce /\ TakesHead /\ JobsApart)'
  <2>1. /\ filled[s] \in 0..(Len(Jobs) - 1) /\ queue' = Append(queue, Jobs[filled[s] + 1])
        /\ filled' = [filled EXCEPT ![s] = @ + 1] /\ UNCHANGED <<worker, starts>>
    BY <1>5 DEF AppendJob, past
  <2>2. s = starts /\ starts > 0 /\ filled[s] \in 0..Len(Jobs)
    BY <1>1, <2>1, <1>5 DEF OnlyLast, Ended
  <2>3. \A w \in AllWorkers : worker'[w].at = "gone"
    BY <1>1, <2>1, <1>5, <2>2 DEF OnlyLast, NoEarlyWorkers, Gone
  <2>4. OnlyLast'
    BY <1>1, <2>1, <1>5, <2>2 DEF OnlyLast, Gone
  <2>5. (TakesHead /\ JobsApart)'
    BY <2>3 DEF TakesHead, JobsApart, Taking, AtWork, Working
  <2>6. /\ Len(queue) = filled[s] /\ \A i \in 1..Len(queue) : queue[i] = Jobs[i]
    BY <1>1, <1>5, <2>2 DEF QueueOnce
  <2>7. Jobs[filled[s] + 1] \in JobSet /\ filled[s] + 1 \in 1..Len(Jobs)
    BY <1>1, <2>1, JobFacts
  <2>8. /\ Len(queue') = filled[s] + 1 /\ DOMAIN queue' = 1..(filled[s] + 1)
        /\ \A i \in 1..filled[s] : queue'[i] = queue[i]
        /\ queue'[filled[s] + 1] = Jobs[filled[s] + 1]
    BY <1>1, <2>1, <2>6, <2>7, QueueParts
  <2>9. \A i \in 1..(filled[s] + 1) : i \in 1..filled[s] \/ i = filled[s] + 1
    BY <2>1
  <2>10. \A i \in 1..(filled[s] + 1) : queue'[i] = Jobs[i] /\ i \in 1..Len(Jobs)
    BY <1>1, <2>1, <2>6, <2>8, <2>9
  <2>11. filled'[s] = filled[s] + 1
    BY <1>1, <2>1
  <2>12. QueueOnce'
    BY <2>1, <2>2, <2>8, <2>10, <2>11, JobFacts DEF QueueOnce
  <2> QED BY <2>4, <2>5, <2>12
<1>6. ASSUME NEW s \in 1..Starts, StartWorkers(s), OnlyLast, QueueOnce
      PROVE  (OnlyLast /\ QueueOnce /\ TakesHead /\ JobsApart)'
  <2>1. /\ filled[s] = Len(Jobs) /\ filled' = [filled EXCEPT ![s] = Len(Jobs) + 1]
        /\ UNCHANGED <<queue, starts>>
        /\ \A w \in AllWorkers : w[1] # s => worker'[w] = worker[w]
        /\ \A w \in AllWorkers : w[1] = s => worker'[w].at = "takes"
    BY <1>6, IdleFacts DEF StartWorkers, past
  <2>2. s = starts
    BY <1>1, <1>6, <2>1 DEF OnlyLast, Ended
  <2>3. \A w \in AllWorkers : worker'[w].at \in {"gone", "takes"}
    BY <1>6, <2>1, <2>2 DEF OnlyLast, Gone
  <2>4. (TakesHead /\ JobsApart)'
    BY <2>3 DEF TakesHead, JobsApart, Taking, AtWork, Working
  <2>5. OnlyLast'
    BY <1>1, <1>6, <2>1, <2>2 DEF OnlyLast, Gone
  <2>6. QueueOnce'
    <3>1. filled'[starts] \notin 0..Len(Jobs)
      BY <1>1, <2>1, <2>2
    <3> QED BY <1>6, <2>1, <3>1 DEF QueueOnce
  <2> QED BY <2>4, <2>5, <2>6
<1>7. ASSUME NEW s \in 1..Starts, ScriptEnds(s) \/ KillScript(s),
             OnlyLast, QueueOnce, TakesHead, JobsApart
      PROVE  (OnlyLast /\ QueueOnce /\ TakesHead /\ JobsApart)'
  <2>1. /\ filled' = [filled EXCEPT ![s] = Ended] /\ UNCHANGED <<queue, worker, starts>>
    BY <1>7 DEF ScriptEnds, KillScript, past
  <2>2. OnlyLast'
    BY <1>1, <1>7, <2>1 DEF OnlyLast, Gone
  <2>3. QueueOnce'
    BY <1>1, <1>7, <2>1 DEF QueueOnce
  <2>4. (TakesHead /\ JobsApart)'
    BY <1>7, <2>1 DEF TakesHead, JobsApart, Taking, AtWork, Working
  <2> QED BY <2>2, <2>3, <2>4
<1>8. ASSUME NEW w \in AllWorkers, WorkerStep(w),
             OnlyLast, QueueOnce, TakesHead, JobsApart
      PROVE  (OnlyLast /\ QueueOnce /\ TakesHead /\ JobsApart)'
  <2>1. /\ \A v \in AllWorkers \ {w} : worker'[v] = worker[v]
        /\ UNCHANGED <<filled, starts>> /\ worker[w].at # "gone"
    BY <1>8, WorkerMoves DEF AtWork, Working
  <2>2. w[1] = starts /\ starts \in 1..Starts /\ filled[starts] \notin 0..Len(Jobs)
    BY <1>8, <2>1, WorkerIds DEF OnlyLast, NoEarlyWorkers, Gone
  <2>3. OnlyLast'
    BY <1>8, <2>1, <2>2 DEF OnlyLast, Gone
  <2>4. CASE worker[w].at = "rename"
    <3>1. /\ lock' = Free /\ queue' = worker[w].rest
          /\ IF worker[w].job = NoJob THEN worker'[w].at = "gone"
             ELSE worker'[w].at = "loads" /\ worker'[w].job = worker[w].job
      BY <1>8, <2>4, WorkerMoves DEF AtWork, Working
    <3>2. \A v \in AllWorkers : ~Taking(v)'
      BY <2>1, <2>4, <3>1 DEF LockHeld, Taking
    <3>3. TakesHead'
      BY <3>2 DEF TakesHead, Taking
    <3>4. /\ worker[w].job # NoJob => worker[w].job = queue[1] /\ 1 \in DOMAIN queue
          /\ \A i \in DOMAIN queue' : i + 1 \in DOMAIN queue /\ queue'[i] = queue[i + 1]
          /\ \A i, j \in DOMAIN queue' : queue'[i] = queue'[j] => i = j
      BY <1>8, <2>4, <3>1, RenameTakesHead
    <3>5. QueueOnce'
      BY <2>1, <2>2, <3>4 DEF QueueOnce
    <3>6. ASSUME NEW v \in AllWorkers, AtWork(v)', v # w
          PROVE  /\ \A i \in DOMAIN queue' : queue'[i] # worker'[v].job
                 /\ AtWork(w)' => worker'[w].job # worker'[v].job
      <4>1. AtWork(v) /\ worker'[v].job = worker[v].job
        BY <2>1, <3>6 DEF AtWork, Working
      <4>2. \A i \in DOMAIN queue : queue[i] # worker[v].job
        BY <1>8, <4>1 DEF JobsApart
      <4> QED BY <3>1, <3>4, <4>1, <4>2 DEF AtWork, Working
    <3>7. ASSUME AtWork(w)' PROVE \A i \in DOMAIN queue' : queue'[i] # worker'[w].job
      <4>1. worker'[w].job = queue[1] /\ 1 \in DOMAIN queue
        BY <3>1, <3>4, <3>7 DEF AtWork, Working
      <4>2. queue' \in Seq(JobSet)
        BY <1>1, <3>1 DEF Place
      <4>3. \A i \in DOMAIN queue' : i \in 1..Len(queue') /\ Len(queue') \in Nat
        BY <4>2, QueueParts
      <4>4. \A i \in DOMAIN queue' : i + 1 # 1
        BY <4>3
      <4> QED BY <1>8, <3>4, <4>1, <4>4 DEF QueueOnce
    <3>8. ASSUME NEW u \in AllWorkers, NEW v \in AllWorkers \ {u}, AtWork(u)', AtWork(v)'
          PROVE  worker'[v].job # worker'[u].job
      <4>1. CASE u # w /\ v # w
        BY <1>8, <2>1, <3>8, <4>1 DEF JobsApart, AtWork, Working
      <4>2. CASE u = w \/ v = w
        BY <3>6, <3>8, <4>2
      <4> QED BY <4>1, <4>2
    <3>9. JobsApart'
      BY <3>6, <3>7, <3>8 DEF JobsApart
    <3> QED BY <2>3, <3>3, <3>5, <3>9
  <2>5. CASE worker[w].at # "rename"
    <3>1. queue' = queue
      BY <1>8, <2>5, WorkerMoves
    <3>2. QueueOnce'
      BY <1>8, <2>1, <2>2, <3>1 DEF QueueOnce
    <3>3. AtWork(w)' => AtWork(w) /\ worker'[w].job = worker[w].job
      BY <1>8, <2>5, WorkerMoves DEF AtWork, Working, SameRun, SameJob
    <3>4. JobsApart'
      BY <1>8, <2>1, <3>1, <3>3 DEF JobsApart, AtWork, Working
    <3>5. /\ Taking(w)' => worker'[w].job = IF queue = <<>> THEN NoJob ELSE Head(queue)
          /\ worker'[w].at = "rename" =>
                worker'[w].rest = IF queue = <<>> THEN <<>> ELSE Tail(queue)
      BY <1>8, <2>5, WorkerMoves DEF TakesHead, Taking, AtWork, Working
    <3>6. TakesHead'
      BY <1>8, <2>1, <3>1, <3>5 DEF TakesHead, Taking
    <3> QED BY <2>3, <3>2, <3>4, <3>6
  <2> QED BY <2>4, <2>5
<1> QED BY <1>2, <1>3, <1>4, <1>5, <1>6, <1>7, <1>8, NextCases

-----------------------------------------------------------------------------
(* A quiet start.                                                          *)

\* A worker's step in a quiet start touches no files but those of its own job.
LEMMA CalmFiles ==
    ASSUME QueueTypeOK, LockHeld, QueueOnce, TakesHead, JobsApart, AsFound, GoesOn,
           starts > 0, filled[starts] = Len(Jobs) + 1,
           NEW w \in AllWorkers, WorkerStep(w)
    PROVE  AsFound' /\ GoesOn'
<1>1. /\ worker \in [AllWorkers -> Place] /\ queue \in Seq(JobSet) /\ Saves \in Nat \ {0}
      /\ saved \in [JobSet -> Torn..Saves] /\ Len(Jobs) \in Nat
  BY Bounds, JobFacts DEF QueueTypeOK, Place
<1>2. /\ \A v \in AllWorkers \ {w} : worker'[v] = worker[v]
      /\ UNCHANGED <<filled, found, starts>> /\ worker'[w] \in Place
      /\ worker[w].at \notin {"keeps", "tears"} => masks' = masks
      /\ \A j \in JobSet \ {worker[w].job} : masks'[j] = masks[j]
  BY WorkerMoves
<1> DEFINE busy(v) == worker[v].at \in Working \ {"loads"}
<1>3. ASSUME NEW j \in JobSet, Untouched(j)' PROVE Untouched(j)
  <2>1. filled'[starts'] \notin 0..Len(Jobs)
    BY <1>1, <1>2
  <2>2. CASE worker[w].at = "rename"
    <3>1. /\ queue' = worker[w].rest
          /\ worker'[w].at = "loads" => worker[w].job # NoJob /\ worker'[w].job = worker[w].job
      BY <2>2, WorkerMoves DEF AtWork, Working
    <3>2. /\ worker[w].job # NoJob => worker[w].job = queue[1] /\ 1 \in DOMAIN queue
          /\ \A i \in DOMAIN queue' : i + 1 \in DOMAIN queue /\ queue'[i] = queue[i + 1]
      BY <2>2, <3>1, RenameTakesHead
    <3>3. CASE \E i \in DOMAIN queue' : queue'[i] = j
      BY <3>2, <3>3 DEF Untouched
    <3>4. CASE \E v \in AllWorkers : worker'[v].at = "loads" /\ worker'[v].job = j
      BY <1>2, <3>1, <3>2, <3>4 DEF Untouched
    <3> QED BY <1>3, <2>1, <3>3, <3>4 DEF Untouched
  <2>3. CASE worker[w].at # "rename"
    <3>1. queue' = queue /\ worker'[w].at # "loads"
      BY <2>3, WorkerMoves
    <3> QED BY <1>2, <1>3, <2>1, <3>1 DEF Untouched
  <2> QED BY <2>2, <2>3
<1>4. ASSUME NEW j \in JobSet, busy(w) => j # worker[w].job
      PROVE  saved'[j] = saved[j] /\ masks'[j] = masks[j]
  <2>1. CASE busy(w)
    <3>1. j # worker[w].job
      BY <1>4, <2>1
    <3>2. \/ saved' = saved \/ saved' = [saved EXCEPT ![worker[w].job] = Torn]
          \/ saved' = [saved EXCEPT ![worker[w].job] = NextSave(w)]
      BY WorkerMoves
    <3> QED BY <1>1, <1>2, <3>1, <3>2
  <2>2. CASE ~busy(w)
    <3>1. saved' = saved
      BY <2>2, WorkerMoves DEF Working
    <3> QED BY <1>2, <2>2, <3>1 DEF Working
  <2> QED BY <2>1, <2>2
<1>5. AsFound'
  <2> SUFFICES ASSUME NEW j \in JobSet, Untouched(j)'
               PROVE  saved'[j] = found[j].saved /\ masks'[j] = found[j].masks
    BY <1>2 DEF AsFound, JobSet
  <2>1. Untouched(j)
    BY <1>3
  <2>2. busy(w) => j # worker[w].job
    <3> SUFFICES ASSUME busy(w), j = worker[w].job PROVE FALSE
      OBVIOUS
    <3>1. AtWork(w) /\ filled[starts] \notin 0..Len(Jobs)
      BY <1>1 DEF AtWork
    <3>2. \A i \in DOMAIN queue : queue[i] # j
      BY <3>1 DEF JobsApart
    <3>3. PICK v \in AllWorkers : worker[v].at = "loads" /\ worker[v].job = j
      BY <2>1, <3>1, <3>2 DEF Untouched
    <3>4. v # w /\ AtWork(v)
      BY <3>3 DEF AtWork, Working
    <3> QED BY <3>1, <3>3, <3>4 DEF JobsApart
  <2> QED BY <1>4, <2>1, <2>2 DEF AsFound
<1>6. ASSUME NEW v \in AllWorkers, worker'[v].at \in Working \ {"loads"}
      PROVE  /\ worker'[v].from = found[worker'[v].job].saved
             /\ worker'[v].from <= worker'[v].done
             /\ worker'[v].at = "runs" /\ worker'[v].from = Saves =>
                   saved'[worker'[v].job] = Saves
             /\ worker'[v].at \in {"keeps", "tears"} =>
                   saved'[worker'[v].job] = worker'[v].done
             /\ worker'[v].at = "tears" => worker'[v].done = Saves
  <2>1. CASE v # w
    <3>1. worker'[v] = worker[v] /\ AtWork(v) /\ worker[v].job \in JobSet
      BY <1>2, <1>6, <2>1 DEF LockHeld, AtWork
    <3>2. busy(w) => worker[v].job # worker[w].job
      BY <2>1, <3>1 DEF JobsApart, AtWork
    <3>3. saved'[worker[v].job] = saved[worker[v].job]
      BY <1>4, <3>1, <3>2
    <3> QED BY <1>6, <3>1, <3>3 DEF GoesOn
  <2>2. CASE v = w
    <3>1. worker[w].at \in Working
      BY <1>6, <2>2, WorkerMoves DEF AtWork, Working
    <3>2. /\ worker[w].job \in JobSet /\ worker[w].from \in 0..Saves /\ worker[w].done \in 0..Saves
      BY <1>1, <3>1 DEF LockHeld, AtWork, Place
    <3>3. CASE worker[w].at = "loads"
      <4>1. /\ worker'[w].at = "runs" /\ worker'[w].job = worker[w].job
            /\ worker'[w].from = saved[worker[w].job] /\ worker'[w].done = worker'[w].from
            /\ saved' = saved
        BY <1>6, <2>2, <3>3, WorkerMoves DEF AtWork, Working
      <4>3. saved[worker[w].job] \in Int
        BY <1>1, <3>2, Bounds DEF Torn
      <4>2. saved[worker[w].job] = found[worker[w].job].saved
        BY <3>2, <3>3 DEF AsFound, Untouched
      <4> QED BY <2>2, <4>1, <4>2, <4>3
    <3>4. CASE worker[w].at # "loads"
      <4>1. /\ worker[w].from = found[worker[w].job].saved
            /\ worker[w].from <= worker[w].done
            /\ worker[w].at \in {"keeps", "tears"} => saved[worker[w].job] = worker[w].done
        BY <3>1, <3>4 DEF GoesOn
      <4>2. SameJob(w) /\ worker[w].at \in {"runs", "saves", "keeps"}
        BY <1>6, <2>2, <3>1, <3>4, WorkerMoves DEF SameRun, AtWork, Working
      <4>3. CASE worker[w].at = "runs"
        <5>1. worker'[w].at = "saves" /\ SameRun(w)
          BY <1>6, <2>2, <4>3, WorkerMoves DEF AtWork, Working
        <5> QED BY <2>2, <4>1, <4>2, <5>1 DEF SameJob, SameRun
      <4>4. CASE worker[w].at = "saves"
        <5>1. /\ worker'[w].at = "keeps" /\ worker'[w].done = NextSave(w)
              /\ saved' = [saved EXCEPT ![worker[w].job] = NextSave(w)]
          BY <1>6, <2>2, <4>4, WorkerMoves DEF AtWork, Working
        <5>2. worker[w].done <= NextSave(w) /\ NextSave(w) \in Int
          BY <1>1, <3>2 DEF NextSave
        <5>3. saved'[worker[w].job] = NextSave(w)
          BY <1>1, <3>2, <5>1
        <5> QED BY <2>2, <3>2, <4>1, <4>2, <5>1, <5>2, <5>3 DEF SameJob
      <4>5. CASE worker[w].at = "keeps"
        <5>1. /\ SameRun(w) /\ saved' = saved
              /\ \/ worker'[w].at = "runs" /\ worker[w].done < Saves
                 \/ worker'[w].at = "tears" /\ worker[w].done = Saves
          BY <1>6, <2>2, <4>5, WorkerMoves DEF AtWork, Working
        <5> QED BY <2>2, <3>2, <4>1, <4>2, <4>5, <5>1, Bounds DEF SameJob, SameRun
      <4> QED BY <4>2, <4>3, <4>4, <4>5
    <3> QED BY <3>3, <3>4
  <2> QED BY <2>1, <2>2
<1>7. GoesOn'
  BY <1>2, <1>6 DEF GoesOn, AllWorkers
<1> QED BY <1>5, <1>7

\* A process of a quiet start leaves an able job only when its file is complete.
LEMMA LeftIsComplete ==
    ASSUME QueueTypeOK, LockHeld, AsFound, GoesOn, starts > 0,
           NEW w \in AllWorkers, WorkerStep(w), calm', AtWork(w), ~AtWork(w)',
           Able(worker[w].job)
    PROVE  saved'[worker[w].job] = Saves
<1> DEFINE j == worker[w].job
<1>1. /\ j \in JobSet /\ Saves \in Nat \ {0} /\ EmptyAt[j] \in 1..(Saves + 1)
      /\ saved \in [JobSet -> Torn..Saves]
      /\ worker[w].from \in 0..Saves /\ worker[w].done \in 0..Saves
  BY Bounds DEF LockHeld, QueueTypeOK
<1>2. \/ found[j].saved = Saves
      \/ found[j].saved = 0 /\ Refs[j] # "short"
      \/ found[j].saved \in 1..(EmptyAt[j] - 1) /\ found[j].masks = "whole" /\ Refs[j] = "none"
  BY DEF Able
<1>3. saved' = saved
  BY WorkerMoves DEF AtWork, Working
<1>4. CASE worker[w].at = "loads"
  <2>1. saved[j] = found[j].saved /\ masks[j] = found[j].masks
    BY <1>1, <1>4 DEF AsFound, Untouched
  <2>2. ~(saved[j] = 0 \/ (saved[j] # Torn /\ masks[j] = "whole"))
    BY <1>4, WorkerMoves DEF AtWork, Working
  <2>3. saved[j] = Saves
    <3>1. \A n \in 1..(EmptyAt[j] - 1) : n # Torn
      BY <1>1 DEF Torn
    <3> QED BY <1>2, <2>1, <2>2, <3>1
  <2> QED BY <1>3, <2>3
<1>5. CASE worker[w].at = "runs"
  <2>1. ProcessFails(w)
    BY <1>5, WorkerMoves DEF AtWork, Working
  <2>2. worker[w].from = found[j].saved /\ (worker[w].from = Saves => saved[j] = Saves)
    BY <1>5 DEF GoesOn, Working
  <2>3. worker[w].from = Saves
    <3>1. CASE found[j].saved = 0 /\ Refs[j] # "short"
      BY <1>1, <2>1, <2>2, <3>1 DEF ProcessFails, CountsTwice
    <3>2. CASE found[j].saved \in 1..(EmptyAt[j] - 1) /\ Refs[j] = "none"
      BY <1>1, <2>1, <2>2, <3>2 DEF ProcessFails, CountsTwice
    <3> QED BY <1>2, <2>2, <3>1, <3>2
  <2> QED BY <1>3, <2>2, <2>3
<1>6. CASE worker[w].at = "tears"
  <2>1. saved[j] = Saves
    BY <1>6 DEF GoesOn, Working
  <2> QED BY <1>3, <2>1
<1>7. worker[w].at \in {"loads", "runs", "tears"}
  BY WorkerMoves DEF AtWork, Working
<1> QED BY <1>4, <1>5, <1>6, <1>7

\* A worker's step in a quiet start: nothing that has to be done is lost.
LEMMA CalmWorker ==
    ASSUME QueueTypeOK, LockHeld, QueueOnce, TakesHead, JobsApart,
           AsFound, GoesOn, NothingLost, LeavesEmptyQueue,
           starts > 0, filled[starts] = Len(Jobs) + 1,
           NEW w \in AllWorkers, WorkerStep(w), calm'
    PROVE  NothingLost' /\ LeavesEmptyQueue'
<1>1. /\ worker \in [AllWorkers -> Place] /\ queue \in Seq(JobSet)
      /\ saved \in [JobSet -> Torn..Saves] /\ Saves \in Nat \ {0}
  BY Bounds DEF QueueTypeOK, Place
<1>2. /\ \A v \in AllWorkers \ {w} : worker'[v] = worker[v]
      /\ UNCHANGED <<filled, found, starts>> /\ worker[w].at # "gone"
  BY WorkerMoves DEF AtWork, Working
<1>3. AtWork(w) => worker[w].job \in JobSet
  BY DEF LockHeld
<1> DEFINE open(j) == \/ \E i \in DOMAIN queue : queue[i] = j
                      \/ \E v \in AllWorkers : AtWork(v) /\ worker[v].job = j
<1>4. \A j \in JobSet : Able(j) => Complete(j) \/ open(j)
  BY DEF NothingLost
<1>5. \A v \in AllWorkers : v[1] = starts /\ Gone(v) => queue = <<>>
  BY DEF LeavesEmptyQueue
<1>13. \A j \in JobSet : Able(j)' <=> Able(j)
  BY <1>2 DEF Able
<1> SUFFICES /\ \A j \in JobSet : Able(j) => Complete(j)' \/ open(j)'
             /\ \A v \in AllWorkers : v[1] = starts /\ Gone(v)' => queue' = <<>>
  BY <1>2, <1>13 DEF NothingLost, LeavesEmptyQueue, JobSet, AllWorkers
<1>6. CASE worker[w].at = "takes" \/ worker[w].at = "sed"
  <2>1. /\ UNCHANGED <<queue, saved>> /\ worker'[w].at \in {"sed", "rename"}
    BY <1>6, WorkerMoves DEF AtWork, Working
  <2>2. \A v \in AllWorkers : /\ AtWork(v)' <=> AtWork(v)
                              /\ AtWork(v) => worker'[v] = worker[v]
                              /\ Gone(v)' <=> Gone(v)
    BY <1>2, <1>6, <2>1 DEF AtWork, Gone, Working
  <2> QED BY <1>4, <1>5, <2>1, <2>2 DEF Complete
<1>7. CASE worker[w].at = "rename"
  <2>1. /\ UNCHANGED saved /\ queue' = worker[w].rest
        /\ IF worker[w].job = NoJob THEN worker'[w].at = "gone"
           ELSE worker'[w].at = "loads" /\ worker'[w].job = worker[w].job
    BY <1>7, WorkerMoves DEF AtWork, Working
  <2>2. \A v \in AllWorkers : AtWork(v) => AtWork(v)' /\ worker'[v] = worker[v]
    BY <1>2, <1>7 DEF AtWork, Working
  <2>4. /\ worker[w].job = IF queue = <<>> THEN NoJob ELSE Head(queue)
        /\ worker[w].rest = IF queue = <<>> THEN <<>> ELSE Tail(queue)
    BY <1>7 DEF TakesHead, Taking
  <2>5. CASE queue = <<>>
    <3>1. queue' = <<>>
      BY <2>1, <2>4, <2>5
    <3>2. \A j \in JobSet : Able(j) => Complete(j)' \/ open(j)'
      BY <1>4, <2>1, <2>2, <2>5 DEF Complete
    <3> QED BY <3>1, <3>2
  <2>6. CASE queue # <<>>
    <3>1. /\ worker[w].job = queue[1] /\ worker[w].job # NoJob /\ queue' = Tail(queue)
          /\ DOMAIN queue = 1..Len(queue) /\ Len(queue) \in Nat
          /\ DOMAIN Tail(queue) = 1..(Len(queue) - 1)
          /\ \A i \in 1..(Len(queue) - 1) : Tail(queue)[i] = queue[i + 1]
      BY <1>1, <2>1, <2>4, <2>6, QueueParts, JobFacts
    <3>2. AtWork(w)' /\ worker'[w].job = queue[1]
      BY <2>1, <3>1 DEF AtWork, Working
    <3>3. ASSUME NEW i \in 1..Len(queue), i # 1
          PROVE  \E k \in DOMAIN queue' : queue'[k] = queue[i]
      <4>1. i - 1 \in 1..(Len(queue) - 1) /\ i - 1 + 1 = i
        BY <3>1, <3>3
      <4> QED BY <3>1, <4>1
    <3>4. \A j \in JobSet : Able(j) => Complete(j)' \/ open(j)'
      <4> SUFFICES ASSUME NEW j \in JobSet, Able(j) PROVE Complete(j)' \/ open(j)'
        OBVIOUS
      <4>1. CASE Complete(j)
        BY <2>1, <4>1 DEF Complete
      <4>2. CASE \E i \in DOMAIN queue : queue[i] = j
        BY <3>1, <3>2, <3>3, <4>2
      <4>3. CASE \E v \in AllWorkers : AtWork(v) /\ worker[v].job = j
        BY <2>2, <4>3
      <4> QED BY <1>4, <4>1, <4>2, <4>3
    <3>5. \A v \in AllWorkers : v[1] = starts => ~Gone(v)'
      BY <1>2, <1>5, <2>6, <3>2 DEF Gone, AtWork, Working
    <3> QED BY <3>4, <3>5
  <2> QED BY <2>5, <2>6
<1>8. ASSUME AtWork(w)
      PROVE  /\ queue' = queue
             /\ AtWork(w)' => worker'[w].job = worker[w].job
             /\ \A v \in AllWorkers \ {w} : AtWork(v)' <=> AtWork(v)
             /\ \A v \in AllWorkers : Gone(v)' => Gone(v)
             /\ \A j \in JobSet \ {worker[w].job} : saved'[j] = saved[j]
  <2>1. /\ queue' = queue /\ worker'[w].at # "gone"
        /\ AtWork(w)' => worker'[w].job = worker[w].job
    BY <1>8, WorkerMoves DEF AtWork, Working, SameRun, SameJob
  <2>2. \/ saved' = saved \/ saved' = [saved EXCEPT ![worker[w].job] = Torn]
        \/ saved' = [saved EXCEPT ![worker[w].job] = NextSave(w)]
    BY WorkerMoves
  <2>3. \A j \in JobSet \ {worker[w].job} : saved'[j] = saved[j]
    BY <1>1, <2>2
  <2>4. \A v \in AllWorkers \ {w} : AtWork(v)' <=> AtWork(v)
    BY <1>2 DEF AtWork
  <2>5. \A v \in AllWorkers : Gone(v)' => Gone(v)
    BY <1>2, <2>1 DEF Gone
  <2> QED BY <2>1, <2>3, <2>4, <2>5
<1>9. CASE AtWork(w)
  <2>1. PICK k \in JobSet : k = worker[w].job
    BY <1>3, <1>9
  <2>2. Able(k) => Complete(k)' \/ open(k)'
    <3>1. CASE AtWork(w)'
      BY <1>8, <1>9, <2>1, <3>1
    <3>2. CASE ~AtWork(w)'
      BY <1>9, <2>1, <3>2, LeftIsComplete DEF Complete
    <3> QED BY <3>1, <3>2
  <2>3. ASSUME NEW j \in JobSet \ {k}, Able(j) PROVE Complete(j)' \/ open(j)'
    <3>1. CASE Complete(j)
      BY <1>8, <1>9, <2>1, <3>1 DEF Complete
    <3>2. CASE \E i \in DOMAIN queue : queue[i] = j
      BY <1>8, <1>9, <3>2
    <3>3. CASE \E v \in AllWorkers : AtWork(v) /\ worker[v].job = j
      <4>1. PICK v \in AllWorkers : AtWork(v) /\ worker[v].job = j
        BY <3>3
      <4>2. v # w
        BY <2>1, <4>1
      <4> QED BY <1>2, <1>8, <1>9, <4>1, <4>2
    <3> QED BY <1>4, <2>3, <3>1, <3>2, <3>3
  <2>4. \A v \in AllWorkers : v[1] = starts /\ Gone(v)' => queue' = <<>>
    BY <1>5, <1>8, <1>9
  <2> QED BY <2>1, <2>2, <2>3, <2>4
<1>10. worker[w].at \in {"takes", "sed", "rename"} \/ AtWork(w)
  BY <1>1, <1>2 DEF Place, AtWork
<1> QED BY <1>6, <1>7, <1>9, <1>10

LEMMA CalmStep ==
    ASSUME QueueTypeOK, NoEarlyWorkers, LockHeld, AloneInv, CalmInv, QueueNext
    PROVE  CalmInv'
<1>1. /\ worker \in [AllWorkers -> Place] /\ filled \in [1..Starts -> Ended..(Len(Jobs) + 1)]
      /\ starts \in 0..Starts /\ Len(Jobs) \in Nat /\ Starts \in Nat
      /\ Ended \notin 0..(Len(Jobs) + 1) /\ Workers \in Nat \ {0}
  BY JobFacts, Bounds DEF QueueTypeOK, Place, Ended
<1> SUFFICES ASSUME calm'
    PROVE  /\ alone' /\ AsFound' /\ GoesOn' /\ NothingLost' /\ LeavesEmptyQueue'
           /\ starts' > 0 /\ filled'[starts'] = Ended =>
                 (\A j \in JobSet : Able(j)' => Complete(j)') /\ \A w \in AllWorkers : Gone(w)'
  BY DEF CalmInv, JobSet, AllWorkers
<1> DEFINE Goal == /\ alone' /\ AsFound' /\ GoesOn' /\ NothingLost' /\ LeavesEmptyQueue'
                   /\ starts' > 0 /\ filled'[starts'] = Ended =>
                         (\A j \in JobSet : Able(j)' => Complete(j)') /\ \A w \in AllWorkers : Gone(w)'
<1>2. CASE StartScript
  <2>1. /\ NobodyRuns /\ alone' = NobodyRuns
        /\ UNCHANGED <<worker, saved, masks>> /\ starts' = starts + 1
        /\ found' = [j \in JobSet |-> [saved |-> saved[j], masks |-> masks[j]]]
        /\ starts < Starts /\ filled' = [filled EXCEPT ![starts + 1] = 0]
    BY <1>2 DEF StartScript, files
  <2>2. AsFound' /\ GoesOn'
    <3>1. \A w \in AllWorkers : worker'[w].at \notin Working
      BY <2>1 DEF NobodyRuns, Gone, Working
    <3>2. AsFound'
      BY <2>1 DEF AsFound, JobSet
    <3>3. GoesOn'
      BY <3>1 DEF GoesOn
    <3> QED BY <3>2, <3>3
  <2>3. filled'[starts'] = 0
    BY <1>1, <2>1
  <2>4. NothingLost' /\ LeavesEmptyQueue'
    BY <1>1, <2>3 DEF NothingLost, LeavesEmptyQueue
  <2>5. filled'[starts'] # Ended
    BY <1>1, <2>3
  <2> QED BY <2>1, <2>2, <2>4, <2>5
<1>3. ASSUME ~StartScript
      PROVE  /\ calm /\ alone /\ alone' = alone /\ starts' = starts
             /\ OnlyLast /\ QueueOnce /\ TakesHead /\ JobsApart
             /\ AsFound /\ GoesOn /\ NothingLost /\ LeavesEmptyQueue
             /\ starts > 0 /\ filled[starts] = Ended =>
                   (\A j \in JobSet : Able(j) => Complete(j)) /\ \A w \in AllWorkers : Gone(w)
  <2>1. calm /\ alone' = alone /\ starts' = starts
    BY <1>3, NextCases, WorkerMoves DEF KillAll, AppendJob, StartWorkers, ScriptEnds, KillScript, past
  <2> QED BY <2>1 DEF CalmInv, AloneInv
<1>4. CASE KillAll
  BY <1>4 DEF KillAll
<1>5. ASSUME NEW s \in 1..Starts, KillScript(s) PROVE Goal
  BY <1>5 DEF KillScript
<1>6. ASSUME NEW s \in 1..Starts, AppendJob(s), ~StartScript PROVE Goal
  <2>1. /\ filled[s] \in 0..(Len(Jobs) - 1) /\ filled' = [filled EXCEPT ![s] = @ + 1]
        /\ UNCHANGED <<worker, saved, masks, found, starts>>
    BY <1>6 DEF AppendJob, files, past
  <2>2. s = starts /\ filled[s] # Ended
    BY <1>1, <1>3, <1>6, <2>1 DEF OnlyLast
  <2>3. filled'[starts] \in 1..Len(Jobs)
    BY <1>1, <2>1, <2>2
  <2>4. filled'[starts] # Ended /\ filled'[starts] # Len(Jobs) + 1
    BY <1>1, <2>3
  <2>5. AsFound' /\ GoesOn'
    <3>1. filled[starts] \in 0..Len(Jobs)
      BY <1>1, <2>1, <2>2
    <3>2. AsFound'
      BY <1>3, <1>6, <2>1, <3>1 DEF AsFound, Untouched, JobSet
    <3>3. GoesOn'
      BY <1>3, <1>6, <2>1 DEF GoesOn
    <3> QED BY <3>2, <3>3
  <2> QED BY <1>3, <1>6, <2>1, <2>4, <2>5 DEF NothingLost, LeavesEmptyQueue
<1>7. ASSUME NEW s \in 1..Starts, StartWorkers(s), ~StartScript PROVE Goal
  <2>1. /\ filled[s] = Len(Jobs) /\ filled' = [filled EXCEPT ![s] = Len(Jobs) + 1]
        /\ UNCHANGED <<queue, saved, masks, found, starts>>
        /\ \A w \in AllWorkers : w[1] = s => worker'[w].at = "takes"
        /\ \A w \in AllWorkers : w[1] # s => worker'[w] = worker[w]
    BY <1>7, IdleFacts DEF StartWorkers, files, past
  <2>2. s = starts /\ starts > 0 /\ filled[s] \in 0..Len(Jobs)
    BY <1>1, <1>3, <1>7, <2>1 DEF OnlyLast
  <2>3. \A w \in AllWorkers : Gone(w)
    BY <1>1, <1>3, <1>7, <2>2 DEF OnlyLast, NoEarlyWorkers
  <2>4. AsFound' /\ GoesOn'
    <3>1. \A w \in AllWorkers : worker'[w].at \notin Working
      BY <2>1, <2>3 DEF Gone, Working
    <3>2. AsFound'
      BY <1>3, <1>7, <2>1, <2>2 DEF AsFound, Untouched, JobSet
    <3>3. GoesOn'
      BY <3>1 DEF GoesOn
    <3> QED BY <3>2, <3>3
  <2>5. \A j \in JobSet : \E i \in DOMAIN queue : queue[i] = j
    <3>1. /\ DOMAIN queue = 1..Len(Jobs) /\ \A i \in DOMAIN queue : queue[i] = Jobs[i]
      <4>1. queue \in Seq(JobSet)
        BY DEF QueueTypeOK
      <4> QED BY <1>3, <1>7, <2>1, <2>2, <4>1, QueueParts DEF QueueOnce
    <3> QED BY <3>1, JobFacts
  <2>6. NothingLost'
    BY <2>1, <2>5 DEF NothingLost, JobSet
  <2>7. LeavesEmptyQueue'
    BY <2>1, <2>2 DEF LeavesEmptyQueue, Gone
  <2>8. filled'[starts'] # Ended
    BY <1>1, <2>1, <2>2
  <2> QED BY <1>3, <1>7, <2>4, <2>6, <2>7, <2>8
<1>8. ASSUME NEW s \in 1..Starts, ScriptEnds(s), ~StartScript PROVE Goal
  <2>1. /\ filled[s] = Len(Jobs) + 1 /\ (\A i \in 1..Workers : Gone(<<s, i>>))
        /\ filled' = [filled EXCEPT ![s] = Ended]
        /\ UNCHANGED <<queue, worker, saved, masks, found, starts>>
    BY <1>8 DEF ScriptEnds, files, past
  <2>2. s = starts /\ starts > 0
    BY <1>1, <1>3, <1>8, <2>1 DEF OnlyLast
  <2>3. \A w \in AllWorkers : Gone(w)
    <3>1. \A w \in AllWorkers : w[1] = s => w = <<s, w[2]>> /\ w[2] \in 1..Workers
      BY DEF AllWorkers
    <3> QED BY <1>3, <1>8, <2>1, <2>2, <3>1 DEF OnlyLast
  <2>4. queue = <<>>
    <3>1. <<s, 1>> \in AllWorkers /\ <<s, 1>>[1] = s
      BY <1>1 DEF AllWorkers
    <3> QED BY <1>3, <1>8, <2>1, <2>2, <2>3, <3>1 DEF LeavesEmptyQueue
  <2>5. \A j \in JobSet : Able(j) => Complete(j)
    BY <1>3, <1>8, <2>1, <2>2, <2>3, <2>4 DEF NothingLost, Gone, AtWork, Working
  <2>6. AsFound' /\ GoesOn'
    <3>1. filled'[starts'] \notin 0..Len(Jobs)
      BY <1>1, <2>1, <2>2
    <3>2. AsFound'
      BY <1>3, <1>8, <2>1, <3>1 DEF AsFound, Untouched, JobSet
    <3>3. GoesOn'
      BY <1>3, <1>8, <2>1 DEF GoesOn
    <3> QED BY <3>2, <3>3
  <2>7. filled'[starts] # Len(Jobs) + 1
    BY <1>1, <2>1, <2>2
  <2>8. NothingLost' /\ LeavesEmptyQueue'
    BY <2>1, <2>7 DEF NothingLost, LeavesEmptyQueue
  <2> QED BY <1>3, <1>8, <2>1, <2>3, <2>5, <2>6, <2>8 DEF Gone, Complete, Able
<1>9. ASSUME NEW w \in AllWorkers, WorkerStep(w), ~StartScript PROVE Goal
  <2>1. worker[w].at # "gone" /\ UNCHANGED <<filled, starts>>
    BY <1>9, WorkerMoves DEF AtWork, Working
  <2>2. w[1] = starts /\ starts \in 1..Starts /\ filled[starts] \notin 0..Len(Jobs)
    BY <1>3, <1>9, <2>1, WorkerIds DEF OnlyLast, NoEarlyWorkers, Gone
  <2>3. starts > 0 /\ filled[starts] # Ended
    BY <1>1, <1>3, <1>9, <2>1, <2>2 DEF Gone
  <2>4. filled[starts] = Len(Jobs) + 1
    BY <1>1, <2>2, <2>3 DEF Ended
  <2>5. AsFound' /\ GoesOn' /\ NothingLost' /\ LeavesEmptyQueue'
    BY <1>3, <1>9, <2>3, <2>4, CalmFiles, CalmWorker
  <2> QED BY <1>3, <1>9, <2>1, <2>3, <2>5
<1> QED BY <1>2, <1>4, <1>5, <1>6, <1>7, <1>8, <1>9, NextCases

-----------------------------------------------------------------------------
(* The theorems.                                                           *)

LEMMA InitInv == QueueInit => IInv
<1> SUFFICES ASSUME QueueInit PROVE IInv
  OBVIOUS
<1>1. /\ queue = <<>> /\ lock = Free /\ alone = TRUE /\ calm = TRUE /\ starts = 0 /\ kills = 0
      /\ filled = [s \in 1..Starts |-> Ended] /\ worker = [w \in AllWorkers |-> Idle]
      /\ saved = [j \in JobSet |-> 0] /\ masks = [j \in JobSet |-> "absent"]
      /\ found = [j \in JobSet |-> [saved |-> 0, masks |-> "absent"]]
  BY DEF QueueInit
<1>2. \A w \in AllWorkers : worker[w].at = "gone"
  BY <1>1, IdleFacts
<1>3. QueueTypeOK
  <2>1. worker \in [AllWorkers -> Place]
    BY <1>1, IdleFacts
  <2>2. /\ filled \in [1..Starts -> Ended..(Len(Jobs) + 1)] /\ saved \in [JobSet -> Torn..Saves]
        /\ masks \in [JobSet -> MaskStates]
        /\ found \in [JobSet -> [saved : Torn..Saves, masks : MaskStates]]
    BY <1>1, JobFacts, Bounds DEF Ended, Torn, MaskStates
  <2>3. queue \in Seq(JobSet) /\ starts \in 0..Starts /\ kills \in 0..Kills
    BY <1>1, Bounds
  <2>4. alone \in BOOLEAN /\ calm \in BOOLEAN
    BY <1>1, Zenon
  <2> QED BY <1>1, <2>1, <2>2, <2>3, <2>4 DEF QueueTypeOK, Place
<1>4. NoEarlyWorkers
  BY <1>1, <1>2 DEF NoEarlyWorkers, Gone
<1>5. LockHeld
  BY <1>1, <1>2, WorkerIds DEF LockHeld, Taking, AtWork, Working
<1>6. AloneInv
  <2>1. OnlyLast
    BY <1>1, <1>2 DEF OnlyLast, Gone
  <2>2. QueueOnce
    BY <1>1 DEF QueueOnce
  <2> QED BY <1>2, <2>1, <2>2 DEF AloneInv, TakesHead, JobsApart, Taking, AtWork, Working
<1>7. CalmInv
  <2>1. AsFound /\ GoesOn
    BY <1>1, <1>2 DEF AsFound, GoesOn, Working
  <2> QED BY <1>1, <2>1 DEF CalmInv, NothingLost, LeavesEmptyQueue
<1> QED BY <1>3, <1>4, <1>5, <1>6, <1>7 DEF IInv

LEMMA StepInv == IInv /\ [QueueNext]_queueVars => IInv'
<1>1. ASSUME IInv, QueueNext PROVE IInv'
  BY <1>1, QueueTypeStep, EarlyStep, AloneStep, CalmStep DEF IInv
<1>2. ASSUME IInv, UNCHANGED queueVars PROVE IInv'
  <2>1. UNCHANGED <<queue, lock, filled, worker, saved, masks, found, alone, calm, starts, kills>>
    BY <1>2 DEF queueVars, files, past
  <2>2. QueueTypeOK' /\ NoEarlyWorkers' /\ LockHeld'
    BY <1>2, <2>1 DEF IInv, QueueTypeOK, NoEarlyWorkers, LockHeld, Taking, AtWork, Gone
  <2>3. AloneInv'
    BY <1>2, <2>1 DEF IInv, AloneInv, OnlyLast, QueueOnce, TakesHead, JobsApart,
                      Taking, AtWork, Gone
  <2>4. CalmInv'
    BY <1>2, <2>1 DEF IInv, CalmInv, AsFound, Untouched, GoesOn, NothingLost,
                      LeavesEmptyQueue, Able, Complete, AtWork, Gone
  <2> QED BY <2>2, <2>3, <2>4 DEF IInv
<1> QED BY <1>1, <1>2

LEMMA Inductive == QueueSpec => []IInv
  BY InitInv, StepInv, PTL DEF QueueSpec

\* Under a start that found nobody at work, two workers never have the same job,
\* whichever Python processes and scripts are killed.
THEOREM JobsHaveOneWorker == QueueSpec => []OneWorkerPerJob
<1>1. IInv => OneWorkerPerJob
  BY DEF IInv, AloneInv, JobsApart, AtWork, OneWorkerPerJob
<1> QED BY <1>1, Inductive, PTL

\* A quiet start has completed every job that was able to be when its workers are
\* done, and the jobs that fail take none of the others with them.
THEOREM DoneIsComplete == QueueSpec => []AllDoneIsComplete
<1>1. IInv => AllDoneIsComplete
  BY Bounds DEF IInv, QueueTypeOK, CalmInv, Complete, AllDoneIsComplete
<1> QED BY <1>1, Inductive, PTL
=============================================================================
