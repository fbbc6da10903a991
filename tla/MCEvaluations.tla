---------------------------- MODULE MCEvaluations ----------------------------
(* The long evaluations of the test set: the counting scripts, started by   *)
(* hand, or a sweep of exhaustive ones that workers take from a queue.      *)
(* They share no file, and a behaviour is one of them.  Four batches, two   *)
(* tasks, and limits below, and one that a second run passes; two jobs, of  *)
(* which the first has a batch with nothing to attack after its periodic    *)
(* save and the second has reference masks.                                 *)
EXTENDS CountedEvaluation, SweepQueue, TLC

VARIABLE evaluation

MCLimits == {0, 1, 3}

MCJobs == <<"hardened 42", "curriculum 42">>
MCEmptyAt == ("hardened 42" :> 2) @@ ("curriculum 42" :> 3)
MCRefs == ("hardened 42" :> "none") @@ ("curriculum 42" :> "whole")

EvaluationsInit ==
  /\ CountedInit /\ QueueInit
  /\ \/ evaluation = "counted"
     \/ evaluation = "queued" /\ script = "cw" /\ ~streaming

EvaluationsNext ==
  \/ evaluation = "counted" /\ CountedNext /\ UNCHANGED <<evaluation, queueVars>>
  \/ evaluation = "queued" /\ QueueNext /\ UNCHANGED <<evaluation, countedVars>>

EvaluationsSpec ==
  EvaluationsInit /\ [][EvaluationsNext]_<<evaluation, countedVars, queueVars>>
=============================================================================
