---------------------------- MODULE AtLeastOnce ----------------------------
(***************************************************************************)
(* What the durable job queue between the gateway and the ML worker        *)
(* promises, with no broker, connection or process in sight: a submitted   *)
(* job stays pending until it is retired, it is retired only after it was  *)
(* reported, and it may be reported more than once.                        *)
(***************************************************************************)
EXTENDS Naturals

CONSTANT Jobs          \* identities of the jobs (uuids in the code)

VARIABLES pending,     \* jobs submitted and not yet retired
          reports      \* how many results each job has had

Init == /\ pending = {}
        /\ reports = [j \in Jobs |-> 0]

\* A job enters the queue once: its identity is never used again.
Submit(j) == /\ j \notin pending
             /\ reports[j] = 0
             /\ pending' = pending \cup {j}
             /\ UNCHANGED reports

\* A pending job is reported, for the first time or again.
Report(j) == /\ j \in pending
             /\ reports' = [reports EXCEPT ![j] = @ + 1]
             /\ UNCHANGED pending

\* Only a job that has been reported leaves the queue.
Retire(j) == /\ j \in pending
             /\ reports[j] > 0
             /\ pending' = pending \ {j}
             /\ UNCHANGED reports

Next == \E j \in Jobs : Submit(j) \/ Report(j) \/ Retire(j)

Spec == Init /\ [][Next]_<<pending, reports>>
=============================================================================
