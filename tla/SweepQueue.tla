----------------------------- MODULE SweepQueue -----------------------------
(***************************************************************************)
(* The exhaustive sweeps scripts/run_exh_multiseed_*.sh and                *)
(* run_df_multiseed_cicids.sh: a script fills a queue file with jobs and   *)
(* starts workers that take them from it under a lock and run              *)
(* eval_deepfool_k1.py, whose own files ExhaustiveEvaluation has in full;  *)
(* here they are how many saves the result file holds and whether the mask *)
(* file can be loaded.  A job that fails is logged and left.  The script   *)
(* may be started again, also while workers of an earlier start run: the   *)
(* queue file is the same, and it is filled without the lock.              *)
(***************************************************************************)
EXTENDS Integers, Sequences

CONSTANTS
    Jobs,           \* the jobs in the order of the file
    Workers,        \* workers of a start
    Saves,          \* saves until a job is complete
    EmptyAt,        \* for each job: the first save after a batch with nothing
                    \* to attack; above Saves, there is no such batch
    Refs,           \* for each job: its reference masks, which are for all its
                    \* batches, for fewer ("short"), or not there
    Starts, Kills   \* bounds: how often the script starts, what is killed

ASSUME QueueAssumption ==
    /\ Jobs \in Seq(STRING \ {""})
    /\ \A i, j \in DOMAIN Jobs : Jobs[i] = Jobs[j] => i = j
    /\ Workers \in Nat \ {0} /\ Saves \in Nat \ {0}
    /\ Starts \in Nat /\ Kills \in Nat
    /\ EmptyAt \in [{Jobs[i] : i \in DOMAIN Jobs} -> 1..(Saves + 1)]
    /\ Refs \in [{Jobs[i] : i \in DOMAIN Jobs} -> {"none", "whole", "short"}]

VARIABLES
    queue,      \* lines of the queue file
    lock,       \* the worker that holds the lock, or Free
    filled,     \* for each start of the script: lines written, or Ended
    worker,     \* for each worker of each start: where it is, its job and data
    saved,      \* for each job: the saves in its result file, or Torn
    masks,      \* for each job: its mask file
    alone,      \* no other start's worker ran at the last start (history)
    found,      \* both files of each job at the last such start (history)
    calm,       \* and nothing was killed since (history)
    starts, kills

files == <<saved, masks>>
past == <<found, alone, calm, starts>>
queueVars == <<queue, lock, filled, worker, files, past, kills>>

Torn == -1
Ended == -1
Free == <<>>
NoJob == ""

JobSet == {Jobs[i] : i \in DOMAIN Jobs}
AllWorkers == (1..Starts) \X (1..Workers)
Idle == [at |-> "gone", job |-> NoJob, rest |-> <<>>, from |-> 0, done |-> 0]

QueueInit ==
    /\ queue = <<>> /\ lock = Free
    /\ filled = [s \in 1..Starts |-> Ended]
    /\ worker = [w \in AllWorkers |-> Idle]
    /\ saved = [j \in JobSet |-> 0] /\ masks = [j \in JobSet |-> "absent"]
    /\ found = [j \in JobSet |-> [saved |-> 0, masks |-> "absent"]]
    /\ alone = TRUE /\ calm = TRUE
    /\ starts = 0 /\ kills = 0

Gone(w) == worker[w].at = "gone"
NobodyRuns == (\A w \in AllWorkers : Gone(w)) /\ (\A s \in 1..Starts : filled[s] = Ended)

-----------------------------------------------------------------------------
(* The script: it empties the file and appends the jobs, then starts its   *)
(* workers and waits for them.                                             *)

StartScript ==
    /\ starts < Starts
    /\ starts' = starts + 1
    /\ filled' = [filled EXCEPT ![starts + 1] = 0]
    /\ queue' = <<>>
    /\ alone' = NobodyRuns
    /\ calm' = NobodyRuns
    /\ found' = IF NobodyRuns THEN [j \in JobSet |-> [saved |-> saved[j], masks |-> masks[j]]]
                              ELSE found
    /\ UNCHANGED <<lock, worker, files, kills>>

AppendJob(s) ==
    /\ filled[s] \in 0..(Len(Jobs) - 1)
    /\ queue' = Append(queue, Jobs[filled[s] + 1])
    /\ filled' = [filled EXCEPT ![s] = @ + 1]
    /\ UNCHANGED <<lock, worker, files, past, kills>>

StartWorkers(s) ==
    /\ filled[s] = Len(Jobs)
    /\ filled' = [filled EXCEPT ![s] = Len(Jobs) + 1]
    /\ worker' = [w \in AllWorkers |-> IF w[1] = s THEN [Idle EXCEPT !.at = "takes"] ELSE worker[w]]
    /\ UNCHANGED <<queue, lock, files, past, kills>>

\* "ALL WORKERS DONE"
ScriptEnds(s) ==
    /\ filled[s] = Len(Jobs) + 1 /\ \A i \in 1..Workers : Gone(<<s, i>>)
    /\ filled' = [filled EXCEPT ![s] = Ended]
    /\ UNCHANGED <<queue, lock, worker, files, past, kills>>

-----------------------------------------------------------------------------
(* A worker: head and sed under the lock, where sed reads the file and     *)
(* then renames a new one over it.                                         *)

HeadUnlocked(w) ==                                           \* mutant
    /\ worker[w].at = "takes"
    /\ lock' = w
    /\ worker' = [worker EXCEPT ![w].at = "sed",
                      ![w].job = IF queue = <<>> THEN NoJob ELSE Head(queue)]
    /\ UNCHANGED <<queue, filled, files, past, kills>>

TakeHead(w) ==
    /\ worker[w].at = "takes" /\ lock = Free
    /\ lock' = w
    /\ worker' = [worker EXCEPT ![w].at = "sed",
                      ![w].job = IF queue = <<>> THEN NoJob ELSE Head(queue)]
    /\ UNCHANGED <<queue, filled, files, past, kills>>

SedReads(w) ==
    /\ worker[w].at = "sed"
    /\ worker' = [worker EXCEPT ![w].at = "rename",
                      ![w].rest = IF queue = <<>> THEN <<>> ELSE Tail(queue)]
    /\ UNCHANGED <<queue, lock, filled, files, past, kills>>

\* Then the lock is released; a worker without a job exits.
SedRenames(w) ==
    /\ worker[w].at = "rename"
    /\ queue' = worker[w].rest
    /\ lock' = Free
    /\ worker' = [worker EXCEPT ![w] = IF @.job = NoJob THEN Idle
                                       ELSE [Idle EXCEPT !.at = "loads", !.job = worker[w].job]]
    /\ UNCHANGED <<filled, files, past, kills>>

Moves(w, place) == worker' = [worker EXCEPT ![w] = place]

\* The worker logs FAIL, or OK if the result file is complete, and takes the
\* next job.
LeavesJob(w) == Moves(w, [Idle EXCEPT !.at = "takes"])

\* eval_deepfool_k1.py begins, or goes on from its result file.  It fails at one
\* that is torn, and at one without masks it can load.
Load(w) ==
    /\ worker[w].at = "loads"
    /\ LET n == saved[worker[w].job] IN
       IF n = 0 \/ (n # Torn /\ masks[worker[w].job] = "whole")
       THEN Moves(w, [worker[w] EXCEPT !.at = "runs", !.from = n, !.done = n])
       ELSE LeavesJob(w)
    /\ UNCHANGED <<queue, lock, filled, files, past, kills>>

\* A process that went on takes its reference masks from the first one again, and
\* fails when one is not as long as the batch; any process fails after the last.
CompareFails(w) ==
    /\ worker[w].at = "runs" /\ worker[w].done < Saves
    /\ \/ Refs[worker[w].job] = "whole" /\ worker[w].from > 0
       \/ Refs[worker[w].job] = "short"
    /\ LeavesJob(w)
    /\ UNCHANGED <<queue, lock, filled, files, past, kills>>

\* The last save is also made when nothing was left to do.
NextSave(w) == IF worker[w].done = Saves THEN Saves ELSE worker[w].done + 1

\* A batch with nothing to attack is counted again by a process that goes on.
CountsTwice(w) == worker[w].from >= EmptyAt[worker[w].job]

\* The regression gate before the last save.
GateFails(w) ==
    /\ worker[w].at = "runs" /\ NextSave(w) = Saves /\ CountsTwice(w)
    /\ LeavesJob(w)
    /\ UNCHANGED <<queue, lock, filled, files, past, kills>>

OpenResult(w) ==
    /\ worker[w].at = "runs" /\ (NextSave(w) = Saves => ~CountsTwice(w))
    /\ saved' = [saved EXCEPT ![worker[w].job] = Torn]
    /\ Moves(w, [worker[w] EXCEPT !.at = "saves"])
    /\ UNCHANGED <<queue, lock, filled, masks, past, kills>>

\* Mutant: the loop is left with the first save.
WriteOnce(w) ==
    /\ worker[w].at = "saves"
    /\ saved' = [saved EXCEPT ![worker[w].job] = NextSave(w)]
    /\ LeavesJob(w)
    /\ UNCHANGED <<queue, lock, filled, masks, past, kills>>

WriteResult(w) ==
    /\ worker[w].at = "saves"
    /\ saved' = [saved EXCEPT ![worker[w].job] = NextSave(w)]
    /\ Moves(w, [worker[w] EXCEPT !.at = "keeps", !.done = NextSave(w)])
    /\ UNCHANGED <<queue, lock, filled, masks, past, kills>>

SaveMasks(w, state) ==
    /\ masks' = [masks EXCEPT ![worker[w].job] = state]
    /\ UNCHANGED <<queue, lock, filled, saved, past, kills>>

\* The masks of a periodic save replace the file at once.
ReplaceMasks(w) ==
    /\ worker[w].at = "keeps" /\ worker[w].done < Saves
    /\ SaveMasks(w, "whole")
    /\ Moves(w, [worker[w] EXCEPT !.at = "runs"])

\* Those of the last save are written in place, and the process ends.
SaveFinalMasks(w) ==
    \/ /\ worker[w].at = "keeps" /\ worker[w].done = Saves
       /\ SaveMasks(w, "torn")
       /\ Moves(w, [worker[w] EXCEPT !.at = "tears"])
    \/ worker[w].at = "tears" /\ SaveMasks(w, "whole") /\ LeavesJob(w)

Working == {"loads", "runs", "saves", "keeps", "tears"}

-----------------------------------------------------------------------------
(* Kills.                                                                  *)

\* The Python of a worker: FAIL is logged, and the job is not in the queue
\* any more.
KillPython(w) ==
    /\ worker[w].at \in Working /\ kills < Kills
    /\ LeavesJob(w)
    /\ calm' = FALSE /\ kills' = kills + 1
    /\ UNCHANGED <<queue, lock, filled, files, found, alone, starts>>

\* The script alone, whose workers go on; or everything, as by a reboot.
KillScript(s) ==
    /\ filled[s] # Ended /\ kills < Kills
    /\ filled' = [filled EXCEPT ![s] = Ended]
    /\ calm' = FALSE /\ kills' = kills + 1
    /\ UNCHANGED <<queue, lock, worker, files, found, alone, starts>>

KillAll ==
    /\ ~NobodyRuns /\ kills < Kills
    /\ worker' = [w \in AllWorkers |-> Idle] /\ lock' = Free
    /\ filled' = [s \in 1..Starts |-> Ended]
    /\ calm' = FALSE /\ kills' = kills + 1
    /\ UNCHANGED <<queue, files, found, alone, starts>>

QueueNext ==
    \/ StartScript \/ KillAll
    \/ \E s \in 1..Starts : AppendJob(s) \/ StartWorkers(s) \/ ScriptEnds(s) \/ KillScript(s)
    \/ \E w \in AllWorkers :
          \/ TakeHead(w) \/ SedReads(w) \/ SedRenames(w)
          \/ Load(w) \/ CompareFails(w) \/ GateFails(w)
          \/ OpenResult(w) \/ WriteResult(w) \/ ReplaceMasks(w) \/ SaveFinalMasks(w)
          \/ KillPython(w)

QueueSpec == QueueInit /\ [][QueueNext]_queueVars

-----------------------------------------------------------------------------
(* Correctness.                                                            *)

MaskStates == {"absent", "whole", "torn"}

QueueTypeOK ==
    /\ queue \in Seq(JobSet) /\ lock \in AllWorkers \cup {Free}
    /\ filled \in [1..Starts -> Ended..(Len(Jobs) + 1)]
    /\ worker \in [AllWorkers ->
          [at : {"gone", "takes", "sed", "rename"} \cup Working,
           job : JobSet \cup {NoJob}, rest : Seq(JobSet),
           from : 0..Saves, done : 0..Saves]]
    /\ saved \in [JobSet -> Torn..Saves] /\ masks \in [JobSet -> MaskStates]
    /\ found \in [JobSet -> [saved : Torn..Saves, masks : MaskStates]]
    /\ alone \in BOOLEAN /\ calm \in BOOLEAN
    /\ starts \in 0..Starts /\ kills \in 0..Kills

\* No two workers have the same job, unless the script was started beside the
\* workers of another start: whichever Python processes and scripts are killed,
\* a result file is never written by two processes.
OneWorkerPerJob ==
    alone => \A v, w \in AllWorkers :
        v # w /\ {worker[v].at, worker[w].at} \subseteq Working =>
            worker[v].job # worker[w].job

\* What a start needs to find of a job that has a complete file in the end: that
\* file, or nothing and reference masks for all batches, or a part with its masks
\* that has no batch to be counted again and no masks to be compared with.
Able(j) ==
    \/ found[j].saved = Saves
    \/ found[j].saved = 0 /\ Refs[j] # "short"
    \/ /\ found[j].saved \in 1..(EmptyAt[j] - 1)
       /\ found[j].masks = "whole" /\ Refs[j] = "none"

\* A start that found nobody at work, and in which nothing was killed, has completed
\* every such job when all its workers are done: the jobs that fail take none of
\* the others with them, nor does what earlier starts left in the queue.
AllDoneIsComplete ==
    \A s \in 1..Starts :
        calm /\ s = starts /\ filled[s] = Ended =>
            \A j \in JobSet : Able(j) => saved[j] = Saves

\* "Resumable: eval_deepfool_k1.py skips/continues from its own artifacts": such a
\* start has completed every job whose result file could be read, when it announces
\* that all workers are done.
ResumedSweepCompletes ==
    \A s \in 1..Starts :
        calm /\ s = starts /\ filled[s] = Ended =>
            \A j \in JobSet : found[j].saved # Torn => saved[j] = Saves

=============================================================================
