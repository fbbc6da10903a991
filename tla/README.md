# TLA+ specifications of BlackICE-Mesh

BlackICE-Mesh runs adversarial attack and defence experiments on intrusion
detection models. A Go gateway takes jobs over HTTP, a Python worker executes
them from a RabbitMQ queue, results go back through the gateway to a dashboard
and to Postgres. Beside this service the repository holds the research pipeline:
attacks, certificates, and scripts that train and evaluate models for days and are
killed and resumed all the time. This directory specifies both in TLA+: modules
that follow the source, TLC configurations that check them on small instances,
and proofs that TLAPS checks for every instance.

Run from this directory: `tlc -config MCJobPipeline.cfg MCJobPipeline` (and the
like for every `.cfg`), `tlapm JobPipelineProofs.tla` (and the like for every
`...Proofs.tla`).

## 1. The system

| Component | State | Operations | Talks to | What is hard |
|---|---|---|---|---|
| Gateway process, AMQP client (`gateway-service/cmd/server/main.go`, `internal/broker`) | one connection and channel for publishing and consuming | dial with 30 attempts, publish, consume results | RabbitMQ | loses its connection and does not reconnect; a lost results channel ends the process |
| HTTP API (`internal/httpapi`) | open requests, websocket handlers | `createJob`, `recentResults`, `stream`, `health` | broker, store, hub | answers 202 before anybody confirmed the message |
| Websocket hub (`internal/ws`) | the map of connections under a read-write lock | `Register`, `Unregister`, `Broadcast` | handlers, results goroutine | blocking writes under the lock; two places that close a connection |
| Store (`internal/store`) | table `results` | `SaveResult`, `RecentResults` | Postgres | inserts fail and are only logged; no unique key |
| ML worker (`ml-optimizer/app/worker.py`) | connection, prefetched deliveries, the job in work | load, connect, subscribe, `on_message` | RabbitMQ, model files | runs long handlers inside the callback, so the broker gives its deliveries away; the retry branch |
| Worker handlers and resources (`worker.py`, `app/ml/models`) | models loaded at boot | one per job type | model files, attacks | `train.ensemble` writes files the next boot loads, and shares them with the training scripts |
| Dashboard (`dashboard/src`) | last 50 events, connection flag, health, journal | websocket with reconnect, health polls, job dispatch | gateway | a timer after unmount, two runs of an effect, overtaking polls, gaps |
| Seed sweep (`scripts/run_seeds_46_54.sh`, `watchdog.sh`, `train_unified.py`, `eval_unified.py`) | checkpoint and score files | train, skip if exists, evaluate, poll, respawn | files, process table | half-written files count as done; decisions on old observations |
| Exhaustive evaluation (`scripts/eval_deepfool_k1.py`) | JSON file, mask file, counters | batch loop, periodic save, resume | files | kills between two saves and within one; what is counted twice |
| Survivor capture (`eval_cw_survivors.py`) | JSON file and mask file | batch loop, save after each batch | the exhaustive evaluation reads its masks | two files saved one after the other and cut by number |
| Job queues (`run_exh_multiseed_*.sh`, `run_df_multiseed_cicids.sh`) | a queue file under a lock | fill, take, run | the evaluation and its files | a taken job is in no queue; a second start shares the file |
| Counting evaluators (`eval_cw.py`, `eval_foolbox.py`, `eval_mixed_norm.py`) | one JSON file of counters per model | batch loops, resume with other options | files | counters that fall behind one another |
| Trainers and model files (`app/ml/training`, `train_pgd_robust.py`, `train_ensemble.py`, `run_all_training.sh`) | model files | train, or load if the file exists | the worker loads them | torn files, names without a dataset, two writers |
| Attacks (`app/ml/attacks`, 17 re-implementations in `scripts/`, `dacm-engine`) | the adversarial row | step, project, snap, search a constant | models | each version has its own order; thresholds; ties |
| Evaluators of one row, certificates (`eval_scalability.py`, `crown_bound.py`, ...) | the categorical states done | enumerate, attack or bound, accumulate | attacks, models | which states, all or the worst; signs in interval and CROWN bounds |

What makes them correct:

* pipeline: a queued job is not lost and gets a result; duplicates and reordering come
  from redeliveries only; a result reaches the gateway;
* hub, store: streams without holes, nobody forgotten, rows in order, results keep
  flowing, handlers end;
* dashboard: one connection at a time, an ordered feed, a journal of what the
  gateway has answered, the state of the gateway in the end;
* sweeps and trainings: what is announced complete is there and loadable, completed work
  is kept, scores and hardened models belong to the models they were made from, a job
  has one worker, the worker can boot again;
* evaluations: saved counters are those of the processed batches, a complete file
  covers the test set, masks and per-batch lists stay aligned, rows of tables are true;
* attacks and certificates: budget and one-hot shape, enumeration equal to the threat
  model, sound bounds, a search that returns the best it saw.

## 2. Modules

| Module | Models | Composition |
|---|---|---|
| `AtLeastOnce` | abstract: submitted jobs stay pending until they were reported | implemented by `JobPipeline` |
| `JobPipeline` | gateway process, AMQP client, `createJob`, RabbitMQ, worker loop | |
| `ResultFanout` | results goroutine, hub, websocket handlers, `SaveResult` | |
| `Dashboard` | one browser tab: hook, header, console | its frames come from the hub |
| `SeedSweep` | sweep driver, watchdog, training and evaluation processes | |
| `ExhaustiveEvaluation` | `eval_deepfool_k1.py` | part of `K1Study` |
| `SurvivorCapture` | `eval_cw_survivors.py` | part of `K1Study` |
| `K1Study` | both over one mask file, and `consolidated_canonical_table.py` | composes the two |
| `CountedEvaluation` | `eval_cw.py`, `eval_foolbox.py`, `eval_mixed_norm.py` | |
| `SweepQueue` | the queue scripts, with saves of `eval_deepfool_k1.py` as steps | |
| `ModelFiles` | trainers, `run_all_training.sh`, `train.ensemble` and the worker's boot | |
| `AttackSteps` | 23 versions of the signed-gradient attacks, three snaps | |
| `CwSearch` | the search of the constant in `attacks/cw.py` | |
| `MarginBounds` | `TabularMLP`, interval propagation, CROWN | used by `K1Evaluators` |
| `K1Evaluators` | 15 evaluators of a row over its categorical states | |
| `JobPipelineProofs`, `K1StudyProofs`, `ModelFilesProofs`, `K1EvaluatorsProofs` | theorems about the modules of these names | each extends its module |
| `TelemetryProofs` | theorems about `ResultFanout` and `Dashboard` | extends both |
| `AttackProofs` | theorems about `AttackSteps` and `CwSearch` | extends both |
| `ScriptProofs` | theorems about `SeedSweep`, `CountedEvaluation` and `SweepQueue` | extends the three |
| `DataFacts` | lemmas on sequences, sums and products over finite sets, the least natural of a set | used by the proofs |
| `MC...` | small instances for TLC | |

### JobPipeline

Gateway and worker are sequential processes with a program counter (`gpc` and
`consumer` for the two goroutines of the gateway, `wpc` for the worker). An AMQP
connection is what the client has written and the broker has not handled yet
(`gwire`, `wire`). The broker drops connections at will: missed heartbeats while a
handler runs (`CutWorker("cut")`), the acknowledgement timeout, which closes the
channel only (`"channel_closed"`), stops of RabbitMQ, network losses. The client
does not know until it touches the connection, and what it writes meanwhile
vanishes: `PublishJob` answers 202 or 503 on a cut link, `PublishResult` and
`AckDelivery` write nothing, or `NoticeLoss` happens instead. Without
`basic_qos` the broker pushes every ready message (`Deliver` into `inbox`); after
a loss the worker goes on working on what it had prefetched, as pika does.
`RequeueUnacked` puts the deliveries back where they were.

`on_message` is four actions: take, run, publish, acknowledge. A job of
`FailingJobs` (unknown type, raising handler) has the outcome "error", any other
one either outcome. The retry branch, `SleepThenRetry`, follows `conn.sleep(5)`:
it returns on a connection that has lost its channel only, and kills the process
otherwise. `entered`, `reports`, `requeues` and `routed` are history variables.

RabbitMQ, the network and process kills are outside the repository; their
actions are marked external in the map and do what the two clients rely on:
durable queue, persistent messages, redelivery at the original place, exclusive
result queue, literal matching in a direct exchange. `worker.py` as it stands
ends with an ImportError when it is started (section 5); the modules show it with
that import repaired.

### ResultFanout

One result after the other: receive, broadcast (lock, range over the map, write,
unlock), decode, insert. A websocket handler registers, reads until its read
fails, which happens at the latest 90 s after registration because only pongs
move the deadline and nobody pings, and unregisters. `Register` and
`Unregister` do not block inside the lock, so each is one step that needs the
read lock to be free; `Broadcast` can block in `WriteMessage` when the buffer of
a socket is full. `DecodeResult` and `SaveResult` can fail, as in the code, without
any consequence but a log line. The number of the result stands for its body.
Results are taken as arriving, that is, with the binding of section 5 repaired.

### Dashboard

The hook's effect runs once, or twice in development mode (`strict`), where
the first run is cleaned up at once; both set the same state. `closed`, `timers` and
sockets belong to a run; `TimerFires` opens a socket without a look at `closed`, as
`connect` does. `SocketEnds` is the network or a stopped gateway; `onclose` is
handled later. `Unmount` is the cleanup of hook and poll. Polls are in one of three
places: sent, answered, shown; answers overtake one another. `Dispatch` covers a
job that was queued although its answer was lost. Hook, header and console share
nothing but the gateway and the mounted page, so a behaviour exercises one of
them (`part`). A result carries, as history, the socket that brought it.

### SeedSweep

A driver (`drv`) goes through seeds and methods: `SkipRun` if the file exists,
else `TrainRun`, `OpenCheckpoint`, `SaveCheckpoint`; then one evaluation process
per seed. `torch.save` and `json.dump` write into the file they have opened, so
`ckpt` can be "partial" and `json` "torn" after a kill. Two processes that write
the same file leave it "whole" or "contested". The watchdog makes its four
observations in separate steps and decides on them. `globWorks` says whether
`CKPT_GLOB` matches anything: with the default value in the script it does not,
because braces in a variable are not expanded; set from the environment it may.
An operator starts a driver only when none runs.

### ExhaustiveEvaluation, SurvivorCapture, K1Study

`main()` of `eval_deepfool_k1.py`, step by step: start (fresh, resumed, or failing to
read what is there), the batch loop, the save every 25 batches (truncate, write,
replace the mask file), the regression gate, the final save. A kill can come
before every step. What an attack finds is a constant per batch (`Surviving`). For
`--attack deepfool` it is one; `pgd40` starts at random, unseeded points
(`unified_pgd.py:35`), and a batch attacked again after a kill may have other
survivors. No guard of the script looks at their number, so the constant stands for the
attack whose result was saved. A mask is named by its batch. `Comparable` is the broadcasting rule of `&` on
two boolean tensors. `SurvivorCapture` does the same for the script that leaves the
reference masks: it saves result file and mask file after every batch, each in two
steps, and on resume takes the first masks by number (`Restored`). `K1Study` lets
the two work on one checkpoint, one at a time and in any order; the evaluation
reads whatever mask file is there, also an unfinished one. `Row` is what the table
makes of the files at any time.

### CountedEvaluation

Three scripts with the same loop and one counter file per model. `script` says which
of them runs; what differs is in `TaskChoices`, `NothingLeft`, `AtEnd`, `Counts` and
`RecordOf`. A counter of samples is the sequence of the batches it adds up, so that
a batch counted twice or by the wrong task shows. The skipping of finished
batches is folded into `Begin`. `streaming` stands for the Parquet loader,
whose `len` is the number of rows: the "already complete" test of two scripts
then never succeeds, and they go through the loop without counting anything. A
task without a counter in the file is a `KeyError`, always before anything was
saved. The L-infinity assertion of `eval_cw.py`, like any exception of an attack,
ends the process as `Killed` does.

### SweepQueue

`StartScript` empties the queue, `AppendJob` fills it line by line, neither under
the lock. A worker takes the first line with `head`, and `sed -i` reads the rest and
renames a copy over the file (`TakeHead`, `SedReads`, `SedRenames`), all under the
lock. A job then runs from save to save, each of which tears the file first and replaces
the masks after it; `ExhaustiveEvaluation` has the same script batch by batch. A job
fails at a file it cannot read or a mask file it cannot load (`Load`), at its reference
masks (`CompareFails`) and at the regression gate (`GateFails`), and the worker takes the
next one. What a job's test set and reference masks are like are constants:
`EmptyAt`, the first save after a batch with nothing to attack, and `Refs`. The script
may be started again while workers of an earlier start run; kills hit a
Python process, the script alone, or everything, but not `head` or `sed` alone. That
checkpoint and data are there is assumed: without them a job fails at once, as it
does with a torn file. `found` keeps what the last undisturbed start has found of each
job's files, for the properties.

### ModelFiles

A file is absent, torn, or whole with the dataset and the base model it was made
from (`base` numbers the trainings of a base model). `Train` is what any trainer
does: look, train, open, write; looking differs between members (skip if there),
base and hardened model (load if there, fail if torn) and curriculum (train anew from
the base model). The same action is the script's step and the step of the job
`train.ensemble`, which runs beside it. `RemoveTorn` is an operator who deletes a
torn file while nothing runs. `Boot` takes the members that load: whole, and of the
dataset the worker serves, whose number of columns differs from the others'.

### AttackSteps, CwSearch

A value is a whole number of grid units, `One` of them are 1.0; the gradient is any
sign in any column and step, so whatever model is attacked is covered. A call
names its version, a record of what the versions differ in: what random noise
moves, whether continuous columns move, what becomes of a group in a step (snap after
the step, box then snap, snap of the group of before the step, box only, nothing, flip
of K groups, JSMA's raise), and the arguments. `active` are the groups
that the randomised subset constraint leaves free. `CwSearch` models the outer
loop of Carlini-Wagner for one row: an optimizer that is abstract but, having no
random part, passes the same points when it gets the same constant; constants are
exponents of ten in half steps, which makes the geometric mean an arithmetic one.

### MarginBounds, K1Evaluators

The classifier with whole weights, interval propagation in centre-radius form, and
CROWN with numerators over a common denominator, layer by layer like the code.
`K1Evaluators` gives each script a record of what it goes through (`enumerate_candidates`,
single flips stacked, gradient-chosen categories group by group, other categories, or
greedily), with what (PGD: any point of the box; C&W: a success or the
row; a bound; nothing), and whether all attempts have to fail or the one of the largest
loss. Two classes make the largest loss the least margin. Only correctly classified rows
are evaluated, except by `trace_logit_reversal.py`, which collects such rows and
then traces others (`Selected`).

## 3. Runs

| Run | Instance | States |
|---|---|---|
| `pipeline` | 2 jobs (one failing), 2 dials, 2 faults | 920,835 |
| `pipeline_results` | same module; expects a violation | |
| `fanout` | 2 connections, 2 results, socket buffers of 1 | 59,294 |
| `sweep` | 2 drivers, 2 seeds, 1 method, 1 fault | 639,766 |
| `study` | 5 batches of different sizes, the third with nothing to attack; saves every 2; 2 evaluations, 3 captures | 4,153,936 |
| `table` | the same; expects a violation | |
| `dashboard` | 3 results for 2 places, 2 lost sockets, 2 polls at a time, 2 dispatches, 1 stop | 74,461 |
| `evaluators` | 1 continuous column, 3 groups of 2, One = 2, Epsilon = 1, K up to 3, 8 networks, all rows | 62,110 |
| `attacks` | 1 continuous column, 2 groups of 2, One = 4, 2 steps, all versions; C&W with 4 rounds, 2 points each, 3 distances | 730,594 |
| `cw_bisection` | the search of `attacks` alone; expects a violation | |
| `training` | 2 datasets, 2 members, 3 starts, 2 kills | 641,542 |
| `evaluations` | counting: 4 batches, 2 tasks, limits 0, 1, 3, 4 starts; queue: 2 jobs, 2 workers, 2 saves, 2 starts, 1 kill | 3,958,427 |

Two runs are about two modules that have nothing in common, one in each behaviour:
`attacks` (`AttackSteps` and `CwSearch`) and `evaluations` (`CountedEvaluation` and
`SweepQueue`). The three runs that expect a violation check one property each, which states what a
comment or a message of the code says (section 5). All others hold. Every property
of a passing run has a mutant, a definition marked *mutant* in the module: a
change of the modelled code that makes TLC report that property.

**`pipeline`.** `JobNotLost` (acknowledge after publish), `ReportsFollowDeliveries` (a
second report needs a redelivery, and redeliveries do not reorder first reports),
`ImplementsAtLeastOnce` (the refinement: ready and unacknowledged jobs are
`pending`), `QueuedJobIsReported` (liveness).

**`fanout`.** `ResultsInOrder` (streams without holes, rows ascending),
`HubServesClients` (a failing client does not take the others' results; what is
closed has left the map), `ResultsKeepFlowing` and `StreamsEnd` (liveness).

**`sweep`.** `CheckpointsAreSound`: completion is announced with all files there, for
any number of drivers, and a file that is not whole needs a fault. `ScoresAreCurrent`
and `WholeIsKept` while drivers do not overlap: what skip-if-exists is worth.
`SweepIsTrained` (liveness) says that the files get there, and no more: with a
glob that works, a driver that dies in the last evaluation is not respawned.

**`study`.** `SavedCountsAreExact` for every file that can be read.
`CompleteCoversTestSet`: the script counts a batch with nothing to attack again in
each resumed run, and the regression gate turns that into a failure, so no
complete file has a wrong total. `FreshReferencesMatch`: with masks without a
gap, only resumed runs are compared with masks of other batches or fail at
them. `CaptureIsExact`: the result file counts what its batches have; a capture that
started afresh has exactly their masks, and one that continues has them as long as
every batch has had one and what it read again begins with the first.
`RowsAreOfTheTestSet`: of a row of the table, made at any time, the shares of the test set
are at most the true ones, the survivors and the broken samples are some of those of the
test set, and after a complete run every share is the true one. The share of the
attacked samples is not bounded so: in **`table`**, `AttackedShareIsNotOverstated` is
violated by a row of three batches of four, 6 of 8 where the test set has 6 of 9.

**`attacks`.** `InEpsilonBall`, `CategoriesAreRight` (one category per group after
a step of every version that snaps; only free groups flip, K of them in the
mixed-norm attack), `FlipsNeedStrongSteps` (the step-size threshold the verification
scripts argue about, for each version), `SnapsAgree` (argmax, the Rust scan and the
least distance agree on every vector an attack produces). Of the search of C&W,
`NearestSuccessIsKept`.

**`dashboard`.** `ConnectionIsKnown` (one socket, close or timer per run of the hook,
and WS LIVE is current), `OrphanIsTheLast` (a socket opened after unmount is the last),
`FeedIsInOrder`, `JournalIsHonest` (one dispatch at a time, no QUEUED without the gateway's 202;
whether its message arrives is `JobPipeline`'s matter),
`ShownOnline` (liveness, through overtaking polls).

**`evaluators`.** `EnumerationIsTheBall` (the candidates are the states within K
groups, as many as the formula says), `BreaksAreWithinBudget`, `ExhaustiveMissesNothing`
(no row is called robust that has a state nothing survives), `CertificatesAreSound`,
`CrownIsBetween` (CROWN is at least IBP and at most the true margin: the theory
`run_crown_vs_ibp.py` relies on, with the slopes of the code).

**`cw_bisection`.** `BracketNarrows` is what a binary search does with its bracket; the
code does it up to the first success only. With both ends set from every later round, as
a bisection would, the property holds. `OneConstantAfterSuccess` says what the search
amounts to instead, and is proved.

**`training`.** `HardenedFitsItsBase` (load-if-exists, file by file, through kills and
removals), `CompletedIsTrained` (completion is announced with all models with
a dataset in their name there and of that dataset), `BootableStays` (a worker
that was up once can boot again, whatever trains and is killed meanwhile).

**`evaluations`.** Of the counting scripts: `CountersAreExact`: through all resumes the
total counts the first batches once each and no task a batch twice; runs with different
`--Ks` leave gaps in the counters, but those the batch records explain, one of each
batch. `FinishedRunIsComplete`: a regular end means that the work is done; with
`eval_foolbox.py` up to the limit or to the end of the test set.

Of the queue: `OneWorkerPerJob` for starts that find no worker of another start,
whichever Python processes and scripts are killed. `AllDoneIsComplete` for a start that
found nobody at work and in which nothing was killed: of every job it found complete,
untouched (with reference masks for all its batches, or none) or interrupted with masks,
without reference masks and before any batch with nothing to attack, the file is
complete when all workers are done. This is not so of every job whose file can be read,
as the comment of the script says: `ResumedSweepCompletes` fails, because the restarted
sweep announces that all workers are done with a job that has failed.

**Bounds.** Two jobs are needed for reordering and for a prefetched second delivery; two
faults for a loss during a recovery, and to lose a job's first acknowledgement and then
the worker. Two clients show one of several failing; a buffer of one blocks at once, and
two results show what follows the first one. Two drivers are the least that can overlap,
two seeds make the driver go on after an evaluation that failed. In `study` a batch with
nothing to attack has batches with masks before and after it, the batches differ in
length, three captures give a file resumed twice, and two evaluations one that is
resumed on what the first left. Of the counting scripts, four batches are one more than
the largest limit, so limited runs pass it, and two tasks can be asked for alternately.
In `attacks` a quarter is below the threshold, a half is at it, and two steps show
whether the first is undone; groups of two have ties, and larger groups are the proofs'.
In `dashboard` two lost sockets give a timer, its socket and another timer, and three
results push one out of the feed. In `evaluators` three groups are one more than the
pairs reach, so K = 3 differs; of the eight networks some have negative factors and
neurons that a box turns on and off. The search of C&W can have its first success in
each of four rounds. In `training` two datasets compete for the members' names and two
members are the least of which one can be torn; a third start follows two that were
killed. In the queue two starts can overlap, or the second goes on after the kill of the
first; of the two saves one is periodic and one final; one job fails at the gate when it
is continued, and the other at its reference masks. `MaxFaults`, `MaxMsgs`, `MaxRuns`,
`MaxCaptures`, `MaxResults`, `MaxFails`, `MaxFires`, `MaxPolls`, `MaxStops`, `Starts`,
`Kills`, `BufCap`, `Drivers`, `Looks` and `MaxK` are bounds of the models; `MaxDials`
(30), `Every` (25), `MAX_EVENTS` (50), `LogLines` (8), `Rounds`, `Workers` (5), `Saves`,
the seeds, methods, groups and columns are the code's, with smaller values.

**Deadlock** is not checked where the system may rest: no more jobs, results, starts or
faults, or an algorithm that has ended.

**Fairness.** `JobPipeline`: RabbitMQ handles what it is sent and comes back after
a stop, the worker process runs, and somebody restarts it when it died. The last
point is an assumption on the operator: compose has no restart policy.
Nothing is assumed of the gateway. `ResultFanout`: goroutines run; a read ends at its
deadline; `Register` and `Unregister` get the lock when it is free again and
again, because a waiting writer of a Go `RWMutex` keeps new readers out (strong
fairness). That peers keep reading is a separate conjunct of the specification the
run uses. `SeedSweep`: driver processes and watchdog run, and the watchdog is started
again after a restart of the machine. `Dashboard`: timers fire, the browser runs
handlers, requests are answered or fail, and the interval polls; nothing is assumed of
the user, the network or the gateway, and `ShownOnline` speaks of behaviours in which
the gateway is up for good. Faults are never fair.

## 4. Proofs

`JobPipelineProofs` proves, for every set of jobs, every bound on dials and every
number of faults:

* `TypeCorrect`: `Spec => []TypeOK`.
* `NoJobLost`: `Spec => []JobNotLost`. `JobNotLost` is not inductive: an
  acknowledgement on its way retires a job, so the strengthening `LossInv` adds
  that for each acknowledgement frame a result of its job is before it in the wire
  or was reported already (`AcksAreBacked`), and that the worker at its ack step,
  if connected, has written the result (`NextAckIsBacked`).
* `BrokerHoldsOnce`: `Spec => []HeldOnce`. The strengthening `OnceInv` says where a
  fresh job can be: a job that is new, on the gateway's wire, in the queue or
  unacknowledged is in one of these places only, and once (`FreshInv`, `HeldInv`).

* `ReportsInOrderOfJobs`: `Spec => []ReportsFollowDeliveries`. The wire of the worker's
  connection has to be tied to what the broker waits for (`DeliveryInv`): the deliveries
  not acknowledged are, in this order, those whose acknowledgement is on the wire, the one
  under work and those the client holds; the result and the acknowledgement of the p-th lie
  side by side. Then what the broker holds is in the order of the entries (`OrderInv`),
  and each job held has had at least as many requeues as reports, but for the first while
  its result is out and its acknowledgement is not (`CreditInv`).
* `QueueIsAtLeastOnce`: `Spec => ImplementsAtLeastOnce`, the refinement. Every step is an
  entry, a report or a retirement of `AtLeastOnce`, or leaves it alone; a retirement
  is one of a reported job because of `LossInv`, and no job enters twice because of `OnceInv`.

`TelemetryProofs` proves, for any connections, results, queries and buffers:

* `TypeCorrect`, and `ClientsAreServed`: `Spec => []HubServesClients`. `HubInv` says that
  handler and map agree on who is connected, and that while `Broadcast` holds the read
  lock what it has still to visit is in the map: nobody can unregister in between.
* `StreamsInOrder`: `Spec => []ResultsInOrder`. What a client has got, with what
  its socket buffers, is a run without holes from the result after it joined
  (`RunsInv`), and ends at the last result or, where `Broadcast` has yet to come, the one
  before (`ServedInv`): without this part the next write could leave a hole.

and of the page, for any capacities of feed and journal and any number of results, lost
sockets, dispatches, polls and stops, `TabTypeCorrect` and:

* `ConnectionHolds`: `TabSpec => []ConnectionIsKnown`, and `OrphanHolds`: `TabSpec =>
  OrphanIsTheLast`. Sums of cardinalities are not inductive; `SocketsInv` is: sockets are
  numbered without gaps, of each run of the hook at most one is not through with its
  close, and none while a timer is pending (`timers` is 0 or 1). A timer can then
  become a socket, a socket a close and a close a timer, one for one; once `closed` is set the
  last of these steps is gone.
* `FeedHolds`: `TabSpec => []FeedIsInOrder`. What is on its way to a socket are the last
  results, in order (`WiresInv`), after the one called `Low(s)`. `FeedInv` says that no event is
  later than the `Low` of any socket, that the socket at work has the highest number, and
  that between the newest event and the `Low` of its own socket there is only what has no
  job_id. The last holds while the page is there: afterwards frames are read and
  dropped. `latest` is the largest by `LeastNatural`.
* `JournalHolds`: `TabSpec => []JournalIsHonest`. `JournalInv`: a call under way
  means that the buttons are disabled, so there is one; and a call that was accepted has a job
  that no line stands for yet. Putting a line in front adds one at most (`QueuedPrepend`),
  whether or not one falls off the end.

`ScriptProofs` proves, for any numbers of seeds and methods, any drivers, kills and
restarts:

* `TypeCorrect` and `CheckpointsCanBeReliedOn`: `Spec => []CheckpointsAreSound`. The
  first half, all files there at completion, follows from what a driver has behind it
  (`HasRuns`): every checkpoint of the seeds and methods it went through exists, and no
  step removes a file. The second, that a torn file needs a fault, from `SoleInv`
  and from following the file that is being saved.
* `ScoresCanBeReliedOn`: `Spec => []ScoresAreCurrent`, and `CompletedModelsAreKept`:
  `Spec => WholeIsKept`, an action property. `SoleInv` says of a sweep that was never
  doubled that one driver lives, that its file is in the state its last look or write has
  left it in, and that a score lies beside a whole checkpoint only; so what
  a driver writes was absent or torn before, and has no score.

and, for any numbers of batches, tasks, limits, runs and kills:

* `CountersHold`: `CountedSpec => []CountersAreExact`, and `CountedTypeCorrect`. The counters in
  memory and those of a file that can be read are right for the same reason (`Good`): they
  are those of the first batches, and of `eval_cw.py` each record names the tasks
  whose counters have its batch. `OneMoreBatch` is the step from one to the next.
* `FinishedRunsAreComplete`: `CountedSpec => []FinishedRunIsComplete`. In a limited run a task
  has its limit of batches, or has counted every batch of this run (`HadItsShare`);
  and at the top of the loop, once a batch was counted, the file is what the process has.

`K1StudyProofs` proves, for any number of batches of any sizes, any limits, and any
number of captures, evaluations and kills of both:

* `CaptureHolds`: `StudySpec => []CaptureIsExact`. `CaptureInv` says of masks that begin with
  the first batch that they are in place up to the first batch without one (`Ordered`),
  and as many as the batches done where all have one (`Reaching`): the assertion of
  the script keeps shorter files out, and the cut by number longer ones.
* `CountsAreExact`: `StudySpec => []SavedCountsAreExact`, and `CompleteMeansComplete`:
  `StudySpec => []CompleteCoversTestSet`. In the loop the processed batches are those
  there is something to attack in before the next one, each added once (`CountedInv`); a
  process without a limit is past the gate when it comes to the last files (`GateInv`).
* `FreshRunsMatch`: `StudySpec => []FreshReferencesMatch`. A process that found nothing
  done holds the masks of the reference up to its batch, so the next one by position is
  that of the batch; and it has counted each sample so far, so that it passes the
  gate (`FreshInv`). For that, a file that lists no batch must not have counted any sample
  (`NothingInv`).
* `RowsHold`: `StudySpec => []RowsAreOfTheTestSet`, from the first and from sums over a
  part of the batches (`RowBounds`): of the samples, of the survivors and, as sums are
  linear, of the broken samples. `TypeCorrect` with the types of the capture, whose masks the
  evaluation reads.

`AttackProofs` proves, for any columns, groups of any size, grid, budgets, step
sizes and number of steps, against any gradients:

* `TypeCorrect`; `BallHolds`: `Spec => []InEpsilonBall`; `ValidHolds`: `Spec =>
  []CategoriesAreValid` (one category per group); `CategoriesHold`: `Spec =>
  []CategoriesAreRight`, with what the subset constraint freezes and the flips the
  mixed-norm attack has spent.
* `ThresholdHolds`: `Spec => []FlipsNeedStrongSteps`. The threshold is not inductive: that
  the largest entry is the row's category says nothing of how far it is from the
  others. The strengthening `Near` bounds the distance of a group from the row's vertex
  by the reach of the start or, without a snap, by epsilon, and
  `Vertices` says that a snapped group is a vertex; together a weak step from a
  near group snaps back to the row, which is near again.
* `SnapsHold`: `Spec => []SnapsAgree`, argmax, the scan of the Rust engine and the least
  distance, for groups of any size.

It also proves, for any number of rounds and points of the C&W search and any distances,
`CwTypeCorrect`, `NearestKept` (`NearestSuccessIsKept`) and `SearchEnds`
(`OneConstantAfterSuccess`, what the search does in place of a bisection), from `Bracket`: before the first success the constant is
one step of ten above the lower end, after it the middle of the last step, and so for
ever; or 0 if there was no step before.

`ModelFilesProofs` proves, for any datasets, any number of members, any list of datasets
in `run_all_training.sh`, and any starts and kills:

* `HardenedFits`: `Spec => []HardenedFitsItsBase`. The strengthening says of the script at
  work that it has read or trained the base model that is there before it comes to
  the hardened one (`ScriptFits`), that no base is torn or missing under a hardened
  model (`ModelsFit`), and that only scripts touch these files (`TaskShape`).
* `BootsAgain`: `Spec => []BootableStays`, from `SafeMember`: the member a worker booted
  from is whole, so every `look` skips it; nothing is about to train or save it.
* `CompletedTrained`: `Spec => []CompletedIsTrained`, from `LinesDone`: lines of
  `run_all_training.sh` that are over have left their files whole, and what is
  before the current file of the current line, too (`LineShape` says which files
  are left of a line).

`ScriptProofs` also proves of the queue scripts, for any number of jobs, workers per
start, saves, starts and kills:

* `JobsHaveOneWorker`: `QueueSpec => []OneWorkerPerJob`. What holds of undisturbed starts
  (`AloneInv`): only workers of the last start live, a job is in the queue at most
  once, the one worker under the lock has read the head of the queue that is there, and
  the jobs in hand are neither equal nor in the queue.
* `DoneIsComplete`: `QueueSpec => []AllDoneIsComplete`. In a calm start (`CalmInv`) the files of a
  job nobody has taken yet are as the start has found them (`AsFound`); a job in hand that
  could be completed passes what it has to load, compare and count (`GoesOn`); every such
  job is still to be appended, in the queue, in hand, or complete (`NothingLost`); and
  a worker leaves only an empty queue. Of the jobs that fail nothing is said but that they
  do not stand in the way.

`K1EvaluatorsProofs` proves, for any networks with whole weights and any number of
neurons, any row, any number of continuous columns and of groups of any size, any
epsilon and budget. First, of the bounds:

* A layer maps what is in a box into the box computed for it (`AffineFacts`,
  `NormFacts`, `ReluFacts`, `LayersStayInBoxes`). The centre-radius form is the value at
  the corner the signs of the weights choose (`CentreAndRadius`), and no point of the box
  is beyond its corners (`CornersBound`). So no margin is below the bound of interval
  propagation (`IbpIsSound`).
* Each backward step of CROWN replaces a linear function of a layer by one of the
  layer before. Linear layers and the batch norm keep its value (`BackLinearIsExact`,
  `BackNormIsExact`); the relaxed relu does not raise it anywhere in the box
  (`ReluStepIsSound`), and its least value over the box does not fall below that of
  interval propagation (`ReluStepIsTight`). `CrownIsSoundAndTight` puts the steps together.
  The common denominator is a product over the relaxed neurons, so its quotients are
  exact (`ProductFacts`).

Then of the categorical states:

* Building in single columns and in pairs of columns of two groups reaches the states of
  `Ball` up to K = 2, and no others (`EnumerationReachesTheBall`): a state is given by the
  columns it does not share with the row. There are as many as the formula of
  `minimal_candidate_count` says: per group, and per pair of groups, those columns are
  counted as disjoint unions (`SinglesCount`, `DoublesCount`, `BallCount`).

Then of the loops:

* `VerdictsAreAccountedFor`: `EvalSpec => []Accounted`. None of the properties is
  inductive, as each speaks of a finished evaluation only. `Accounted` says what a loop
  has established on its way: each pass that is done has its state among those visited,
  those visited are in the budget (`PassesAccountedFor`); the greedy state differs from
  the row in at most as many groups as were flipped (`GreedyWithinBudget`); the verdict so
  far, and the worst margin so far, are those of an outcome of a visited state
  (`VerdictAccountedFor`).
* `EnumerationHolds`, `BreaksStayWithinBudget`, `NothingIsMissed`, `CertificatesHold` and
  `CrownStaysBetween`: `EvalSpec => []P` for the five properties of the run, from the
  invariant at the end of the loop and the facts above.

Each proof has the lemma for the initial state, one step per action under it, and
a last temporal step. Lemmas on `Append`, `Tail`, concatenation, `RemoveAt`, prefixes and
order are in `DataFacts`, proved from the definitions. Sums and recursive
functions need an induction. The library's induction theorems take an operator, which
the provers cannot instantiate, so the induction is made on sets: the counterexamples
form a set of naturals, which has a least element (`LeastNatural`, from
`NatLessThanWellFounded`), and a finite set is built up one element at a time
(`SubsetInduction`). `FoldExists` and `SumTakes` of `DataFacts`, `PickExists` of
`K1StudyProofs` and the scans of `AttackProofs` show in this way that the recursions have
a solution, and what it computes.

The assumptions are those the modules state of their constants (`JobsAssumption`,
`BoundsAssumption`, `SizesAssumption`, `BatchesAssumption`, `GridAssumption`,
`CallsAssumption`, `SearchAssumption`, `CountedAssumption`, `FilesAssumption`, `QueueAssumption`,
`TabAssumption`, `NetsAssumption`), and TLC evaluates them in the runs. `NetsAssumption`
only says that the arrays of a network fit one another and that a group has a column. Three of them state what the code's text shows: `run_all_training.sh`
names at least one dataset and none twice; the queue scripts list no job twice and no
empty line; and the samples of a batch that survive are among those classified
correctly, which are among its samples, of which there is at least one.

Two proofs that did not go through were right not to. An earlier `CaptureIsExact` said
that no mask is out of order; TLC finds it violated with four captures, where the run has
three (finding 12). And `FreshReferencesMatch` needs a batch to attack: without one a complete run
that is started again counts every sample twice, and fails at the gate although it
found nothing done. The inductive invariants were checked with TLC first, on instances
with and without such batches.

Only model-checked: liveness, as fairness and ENABLED are beyond the proof system. These
are `QueuedJobIsReported`, `ResultsKeepFlowing`, `StreamsEnd`, `SweepIsTrained` and
`ShownOnline`. All invariants and action properties of the passing runs are theorems.

## 5. Where the code disagrees with what it says

`ResultsReachGateway`, `BracketNarrows` and `AttackedShareIsNotOverstated` are runs. The
other refuted statements are in the modules as
properties or mutants, and the counterexample is one edit of a configuration away:

| Statement | Run | Edit |
|---|---|---|
| `UnavailableBrokerIsRetried` | `pipeline` | add it under `PROPERTIES` |
| `ResultsKeepFlowing` with a client that stops reading | `fanout` | `SPECIFICATION AnyPeersSpec` |
| `OnePythonAtATime` | `sweep` | `SPECIFICATION Spec`, add it as an invariant; `NumSeeds = 1`, `NumMethods = 2`, `MaxFaults = 0` show it sooner |
| `CompleteRunIsComplete` | `study` | add it as an invariant |
| `RestoredMasksAreCounted` | `study` | add it as an invariant; `MaxRuns = 0`, `MaxCaptures = 4` |
| `AccuracyIsOverAttackedBatches` | `evaluations` | add it as an invariant |
| `ResumedSweepCompletes` | `evaluations` | add it as an invariant |

1. No result reaches the gateway: `broker.go:97` binds `result.#` to an exchange both
   sides declare as direct; `main.go:51` describes the fan-out of results.
2. The worker does not start: `worker.py:15-20` imports two names `loader.py` does not
   define (`check_tensor_equality.py:33` too). It does not retry: `worker.py:233`
   raises on the connection that was lost or never made. `defence.adversarial` always
   fails: `worker.py:130` leaves out an argument.
3. One stalled dashboard stops everything: `hub.go:46` writes without a deadline
   under the lock.
4. A resumed evaluation loses the masks of the part before: `eval_deepfool_k1.py:122`
   empties what lines 114-118 have restored. A resumed capture fails for ever after
   a batch without a correct sample, and goes on silently without a mask
   file (`eval_cw_survivors.py:112-118`).
5. The sweep runs two Python processes: ADR-004 promises one; `watchdog.sh:25-26`
   cannot see a driver that is between two of them. A second start of a queue
   script hands jobs out twice (`run_exh_multiseed_cicids.sh:10`), and complete
   jobs are written again, not skipped. Line 4 calls the sweep resumable; but a job that was
   interrupted may fail at `eval_deepfool_k1.py:118` (no mask file), 160-167 (reference
   masks) or 199 (the gate), and "ALL WORKERS DONE" (line 42) is written all the same.
6. Robust accuracies of a resumed, limited Foolbox run are too low:
   `eval_foolbox.py:171` goes on for another limit of batches, line 185 does not
   attack them, line 212 divides by all. The table prints unfinished runs as
   finished ones (`consolidated_canonical_table.py:37`): too low over the test set,
   but maybe too high over the attacked samples, which line 119 calls clean-correct.
7. The threshold for a flip is a step of one half for groups of any size:
   `independent_verification.py:568` and report 004 have others. Two replications
   snap the group of before the step and never flip (`dacm_replication_test.py:185`,
   `variance_audit.py:120`).
8. The "binary search" of `cw.py:328` never narrows its bracket.
9. The docstring `crown_bound.py:54` describes slopes that are not sound; the code
   is right.
10. "Exhaustive K=1" in `eval_unified.py:67` is one category per group;
    "K-reachable" in `cw.py:95` and `eval_mixed_norm.py:54` is K = 1 for any K.
11. Smaller ones: `certified_bound.py:108` (key never found), `trace_logit_reversal.py:82`
    (other rows than those collected), `trainer.py:145` (success announced over skipped torn
    files), `train_pgd_robust.py:146` (a file name its readers do not use).
12. `eval_cw_survivors.py:114` keeps "masks for batches already counted"; line 115 keeps
    the first masks of the file, by number. After a run without a mask file, and a fresh
    one killed between its two first saves, that is the mask of another batch.

## 6. What a next step would add

Counterparts of `HardenedFitsItsBase`
for files of the sweep and of `run_all_training.sh` in one model; floating-point rounding in
the certificates, which are exact here; the streaming
loader's rows and columns.

## 7. Not modelled

Model quality, gradients and floating-point results; logging, statistics, timings and report
formats; the HTTP envelope; the content of telemetry. The evaluation loops of the
worker (`app/ml/evaluation`) add up matches over a loader and keep nothing; the data
loaders read files in order; the presentation of the dashboard is pure rendering;
`dacm-engine/src/main.rs` is a demonstration on constant data, and NaN, which the engine
does not exclude, has no place on the grid. Reads without effect (`health`,
`recentResults`) are left out, as are the Docker images but for their restart
policy. Of the verification and analysis scripts what is modelled is the attack each
re-implements and the states it visits; what they compute from the outcomes
is arithmetic on reports.
