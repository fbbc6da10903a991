------------------------------ MODULE SeedSweep ------------------------------
(***************************************************************************)
(* The seed sweep: run_seeds_46_54.sh trains one model after the other,    *)
(* skips those whose checkpoint file exists and evaluates a seed's models; *)
(* watchdog.sh polls with ls and pgrep and respawns the driver when it     *)
(* sees no work.  Python processes are killed (out of memory), the machine *)
(* restarts, the GPU disappears.                                           *)
(*                                                                         *)
(* torch.save and json.dump write into the file they have just opened, so  *)
(* a file can be there and not be whole.                                   *)
(***************************************************************************)
EXTENDS Naturals, FiniteSets

CONSTANTS Drivers,    \* bound of the model: driver processes at the same time
          NumSeeds,   \* seeds of the sweep (9)
          NumMethods, \* hardened, curriculum, rsc
          MaxFaults   \* bound of the model: kills, restarts, lost GPUs

Seeds == 1..NumSeeds
Methods == 1..NumMethods

ASSUME SizesAssumption == NumSeeds \in Nat \ {0} /\ NumMethods \in Nat \ {0}
ASSUME BoundsAssumption == IsFiniteSet(Drivers) /\ MaxFaults \in Nat

VARIABLES
  globWorks, \* does CKPT_GLOB match the checkpoints (the default's braces do not)
  ckpt,      \* checkpoint files: "absent", "partial", "whole", or "contested" when
             \* two processes have been writing it at the same time
  json,      \* score files: "absent", "torn", "current" or "stale" with regard to
             \* the checkpoint
  drv,       \* per driver: where it is, the seed and the method it is at, and
             \* whether the checkpoint it has loaded is still the one in the file
  poll,      \* watchdog: "off", "sleep", "train", "eval", "decide"
  counted,   \* its ckpts
  sawWork,   \* train_pid or eval_pid is set
  completed, \* "ALL COMPLETE" has been logged
  overlap,   \* history: two drivers have been alive at the same time
  faults

watchdogVars == <<poll, counted, sawWork>>
vars == <<globWorks, ckpt, json, drv, watchdogVars, completed, overlap, faults>>

Off(at) == [at |-> at, seed |-> 1, method |-> 1, current |-> FALSE]
Training == {"training", "saving"}
Evaluating == {"evaluating", "scoring", "writing"}
Alive(d) == drv[d].at \in {"start", "cuda", "check"} \cup Training \cup Evaluating
SomeoneIn(places) == \E d \in Drivers : drv[d].at \in places

File(d) == <<drv[d].seed, drv[d].method>>
Present == {r \in Seeds \X Methods : ckpt[r] # "absent"}

Init ==
  /\ globWorks \in BOOLEAN
  /\ ckpt = [r \in Seeds \X Methods |-> "absent"]
  /\ json = [r \in Seeds \X Methods |-> "absent"]
  /\ drv = [d \in Drivers |-> Off("off")]
  /\ poll = "off" /\ counted = 0 /\ sawWork = FALSE
  /\ completed = FALSE /\ overlap = FALSE
  /\ faults = 0

-----------------------------------------------------------------------------
(* The driver.                                                             *)

Spawn(d) ==
  /\ ~Alive(d)
  /\ drv' = [drv EXCEPT ![d] = Off("start")]
  /\ overlap' = (overlap \/ \E e \in Drivers : Alive(e))

\* An operator starts the sweep, never twice.
StartSweep(d) ==
  /\ \A e \in Drivers : ~Alive(e)
  /\ Spawn(d)
  /\ UNCHANGED <<globWorks, ckpt, json, watchdogVars, completed, faults>>

Move(d, to) == drv' = [drv EXCEPT ![d].at = to]
DriverOnly == UNCHANGED <<globWorks, ckpt, json, watchdogVars, completed, overlap, faults>>

\* The first Python process of a driver imports torch and looks for CUDA.
CheckCuda(d) ==
  /\ \/ drv[d].at = "start" /\ Move(d, "cuda")
     \/ drv[d].at = "cuda" /\ Move(d, "check")
  /\ DriverOnly

NoCuda(d) ==
  /\ drv[d].at = "cuda" /\ faults < MaxFaults
  /\ Move(d, "failed")
  /\ faults' = faults + 1
  /\ UNCHANGED <<globWorks, ckpt, json, watchdogVars, completed, overlap>>

AtRun(d) == drv[d].at = "check" /\ drv[d].seed \in Seeds /\ drv[d].method \in Methods
NextMethod(d, at) == drv' = [drv EXCEPT ![d].at = at, ![d].method = @ + 1]

\* [ -f "$ckpt" ] does not ask whether the file is whole.
SkipRun(d) ==
  /\ AtRun(d) /\ ckpt[File(d)] # "absent"
  /\ NextMethod(d, "check")
  /\ DriverOnly

\* Mutant: the checkpoint file is not looked for.
TrainRunAlways(d) ==
  /\ AtRun(d)
  /\ Move(d, "training")
  /\ DriverOnly

TrainRun(d) ==
  /\ AtRun(d) /\ ckpt[File(d)] = "absent"
  /\ Move(d, "training")
  /\ DriverOnly

\* What anybody had loaded or scored is no longer what the file holds.
Outdated(r) == [e \in Drivers |->
                  IF <<drv[e].seed, drv[e].method>> = r THEN [drv[e] EXCEPT !.current = FALSE]
                                                        ELSE drv[e]]
Rewrite(r, state) ==
  /\ ckpt' = [ckpt EXCEPT ![r] = state]
  /\ json' = [json EXCEPT ![r] = IF @ = "current" THEN "stale" ELSE @]

\* torch.save opens the file: what it held is gone.
OpenCheckpoint(d) ==
  /\ drv[d].at = "training"
  /\ LET others == {e \in Drivers \ {d} : drv[e].at = "saving" /\ File(e) = File(d)}
     IN Rewrite(File(d), IF others = {} THEN "partial" ELSE "contested")
  /\ drv' = [Outdated(File(d)) EXCEPT ![d].at = "saving"]
  /\ UNCHANGED <<globWorks, watchdogVars, completed, overlap, faults>>

\* Two processes writing one file leave the model of one of them, or a mixture.
SaveCheckpoint(d) ==
  /\ drv[d].at = "saving"
  /\ \E state \in {"whole", "contested"} :
       /\ ckpt[File(d)] = "partial" => state = "whole"
       /\ Rewrite(File(d), state)
  /\ drv' = [Outdated(File(d)) EXCEPT ![d].at = "check", ![d].method = @ + 1]
  /\ UNCHANGED <<globWorks, watchdogVars, completed, overlap, faults>>

\* The methods of a seed are through: they are evaluated in one process.
StartEval(d) ==
  /\ drv[d].at = "check" /\ drv[d].seed \in Seeds /\ drv[d].method \notin Methods
  /\ drv' = [drv EXCEPT ![d].at = "evaluating", ![d].method = 1]
  /\ DriverOnly

ToEvaluate(d) ==
  /\ drv[d].at = "evaluating" /\ drv[d].method \in Methods
  /\ ckpt[File(d)] # "absent" /\ json[File(d)] = "absent"

\* A missing checkpoint and an existing score file, whatever they hold, are passed over.
SkipEval(d) ==
  /\ drv[d].at = "evaluating" /\ drv[d].method \in Methods /\ ~ToEvaluate(d)
  /\ NextMethod(d, "evaluating")
  /\ DriverOnly

LoadModel(d) ==
  /\ ToEvaluate(d) /\ ckpt[File(d)] = "whole"
  /\ drv' = [drv EXCEPT ![d].at = "scoring", ![d].current = TRUE]
  /\ DriverOnly

OpenScore(d) ==
  /\ drv[d].at = "scoring"
  /\ Move(d, "writing")
  /\ json' = [json EXCEPT ![File(d)] = "torn"]
  /\ UNCHANGED <<globWorks, ckpt, watchdogVars, completed, overlap, faults>>

WriteScore(d) ==
  /\ drv[d].at = "writing"
  /\ json' = [json EXCEPT ![File(d)] = IF drv[d].current THEN "current" ELSE "stale"]
  /\ NextMethod(d, "evaluating")
  /\ UNCHANGED <<globWorks, ckpt, watchdogVars, completed, overlap, faults>>

\* EVAL-FAIL is logged, and the sweep goes on like after a good evaluation.
NextSeed(d) == drv' = [drv EXCEPT ![d] = [Off("check") EXCEPT !.seed = drv[d].seed + 1]]

\* The last method is through, or a checkpoint cannot be loaded.
EndEval(d) ==
  /\ \/ drv[d].at = "evaluating" /\ drv[d].method \notin Methods
     \/ ToEvaluate(d) /\ ckpt[File(d)] # "whole"
  /\ NextSeed(d)
  /\ DriverOnly

AllComplete(d) ==
  /\ drv[d].at = "check" /\ drv[d].seed \notin Seeds
  /\ Move(d, "complete")
  /\ completed' = TRUE
  /\ UNCHANGED <<globWorks, ckpt, json, watchdogVars, overlap, faults>>

\* Mutant: the exit status of the training is not looked at.
TrainingKilledGoesOn(d) ==
  /\ drv[d].at \in Training /\ faults < MaxFaults
  /\ NextMethod(d, "check")
  /\ faults' = faults + 1
  /\ UNCHANGED <<globWorks, ckpt, json, watchdogVars, completed, overlap>>

\* The training process is killed or raises: the driver exits with its status.
TrainingKilled(d) ==
  /\ drv[d].at \in Training /\ faults < MaxFaults
  /\ Move(d, "failed")
  /\ faults' = faults + 1
  /\ UNCHANGED <<globWorks, ckpt, json, watchdogVars, completed, overlap>>

EvalKilled(d) ==
  /\ drv[d].at \in Evaluating /\ faults < MaxFaults
  /\ NextSeed(d)
  /\ faults' = faults + 1
  /\ UNCHANGED <<globWorks, ckpt, json, watchdogVars, completed, overlap>>

-----------------------------------------------------------------------------
(* The watchdog looks at one thing after the other and decides on what it  *)
(* saw.  It knows Python processes by name; a driver that is starting, or  *)
(* between two of them, is invisible.                                      *)

StartWatchdog ==
  /\ poll = "off"
  /\ poll' = "sleep"
  /\ UNCHANGED <<globWorks, ckpt, json, drv, counted, sawWork, completed, overlap, faults>>

CountCheckpoints ==
  /\ poll = "sleep"
  /\ poll' = "train"
  /\ counted' = IF globWorks THEN Cardinality(Present) ELSE 0
  /\ sawWork' = FALSE
  /\ UNCHANGED <<globWorks, ckpt, json, drv, completed, overlap, faults>>

\* pgrep -f train_unified.py, and then pgrep -f eval_unified.py.
LookFor(at, to, places) ==
  /\ poll = at
  /\ poll' = to
  /\ sawWork' = (sawWork \/ SomeoneIn(places))
  /\ UNCHANGED <<globWorks, ckpt, json, drv, counted, completed, overlap, faults>>

LookForWork == LookFor("train", "eval", Training) \/ LookFor("eval", "decide", Evaluating)

\* Mutant: the last run is thought to be under way.
SweepLooksDoneEarly == counted >= NumSeeds * NumMethods - 1

SweepLooksDone == counted >= NumSeeds * NumMethods

LeaveAlone ==
  /\ poll = "decide"
  /\ sawWork \/ SweepLooksDone \/ \A d \in Drivers : Alive(d)
  /\ poll' = "sleep"
  /\ UNCHANGED <<globWorks, ckpt, json, drv, counted, sawWork, completed, overlap, faults>>

Respawn(d) ==
  /\ poll = "decide" /\ ~sawWork /\ ~SweepLooksDone
  /\ poll' = "sleep"
  /\ Spawn(d)
  /\ UNCHANGED <<globWorks, ckpt, json, counted, sawWork, completed, faults>>

\* The machine restarts and takes everything that runs with it.
Reboot ==
  /\ faults < MaxFaults
  /\ faults' = faults + 1
  /\ drv' = [d \in Drivers |-> IF Alive(d) THEN Off("off") ELSE drv[d]]
  /\ poll' = "off"
  /\ UNCHANGED <<globWorks, ckpt, json, counted, sawWork, completed, overlap>>

-----------------------------------------------------------------------------
DriverStep(d) ==
  \/ CheckCuda(d) \/ SkipRun(d) \/ TrainRun(d) \/ OpenCheckpoint(d) \/ SaveCheckpoint(d)
  \/ StartEval(d) \/ SkipEval(d) \/ LoadModel(d) \/ OpenScore(d) \/ WriteScore(d)
  \/ EndEval(d) \/ AllComplete(d)

WatchdogStep ==
  \/ StartWatchdog \/ CountCheckpoints \/ LookForWork \/ LeaveAlone
  \/ \E d \in Drivers : Respawn(d)

Fault ==
  \/ \E d \in Drivers : NoCuda(d) \/ TrainingKilled(d) \/ EvalKilled(d)
  \/ Reboot

Next == (\E d \in Drivers : StartSweep(d) \/ DriverStep(d)) \/ WatchdogStep \/ Fault

Spec == Init /\ [][Next]_vars

\* Processes run, and the watchdog is started again after a restart; nobody has to
\* start a driver by hand.
FairSpec == Spec /\ WF_vars(WatchdogStep) /\ \A d \in Drivers : WF_vars(DriverStep(d))

-----------------------------------------------------------------------------
(* Properties.                                                             *)

\* Every variable has its type; the loops stay within one past their last element.
TypeOK ==
  /\ globWorks \in BOOLEAN
  /\ ckpt \in [Seeds \X Methods -> {"absent", "partial", "contested", "whole"}]
  /\ json \in [Seeds \X Methods -> {"absent", "torn", "current", "stale"}]
  /\ drv \in [Drivers -> [at : {"off", "start", "cuda", "check", "complete", "failed"}
                                  \cup Training \cup Evaluating,
                          seed : 1..(NumSeeds + 1), method : 1..(NumMethods + 1),
                          current : BOOLEAN]]
  /\ poll \in {"off", "sleep", "train", "eval", "decide"}
  /\ counted \in 0..(NumSeeds * NumMethods)
  /\ sawWork \in BOOLEAN /\ completed \in BOOLEAN /\ overlap \in BOOLEAN
  /\ faults \in 0..MaxFaults

\* "ALL COMPLETE" is logged only when every run has its checkpoint file, whatever was
\* killed, and by however many drivers.
CompleteHasAll == completed => Present = Seeds \X Methods

\* A file that is not whole under a sweep that was never doubled is the one being saved,
\* or what a kill has left: without a fault every finished checkpoint can be loaded.
TornNeedsFault ==
  ~overlap /\ faults = 0 =>
    \A r \in Seeds \X Methods :
      ckpt[r] \notin {"absent", "whole"} => \E d \in Drivers : drv[d].at = "saving" /\ File(d) = r

\* What is announced and what is found on disk can be relied on.
CheckpointsAreSound == CompleteHasAll /\ TornNeedsFault

\* A score belongs to the model in its checkpoint: skip-if-exists on both files is sound
\* as long as drivers do not run side by side.
ScoresAreCurrent == ~overlap => \A r \in Seeds \X Methods : json[r] # "stale"

\* ADR-004: restarts "do not require retraining completed models".  No step rewrites a
\* whole checkpoint as long as drivers do not run side by side.
WholeIsKept ==
  [][~overlap => \A r \in Seeds \X Methods : ckpt[r] = "whole" => ckpt'[r] = "whole"]_vars

\* Under the watchdog the sweep gets all its checkpoint files in the end, whatever died.
SweepIsTrained == <>(Present = Seeds \X Methods)

\* ADR-004 on the sequential sweep: "One Python process at a time".
OnePythonAtATime ==
  \A d, e \in Drivers :
    d # e => ~(drv[d].at \in Training \cup Evaluating /\ drv[e].at \in Training \cup Evaluating)
=============================================================================
