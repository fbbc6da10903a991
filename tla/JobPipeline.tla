---------------------------- MODULE JobPipeline ----------------------------
(***************************************************************************)
(* The path of a job: POST /api/v1/jobs at the gateway, the durable queue  *)
(* ml.jobs, the ML worker's publish-then-acknowledge callback and the      *)
(* exchange ml.results.  Both processes lose connections, and both die:    *)
(* the gateway through log.Fatalf, the worker through what escapes main(). *)
(*                                                                         *)
(* A connection is a FIFO of frames written by the client and not yet      *)
(* handled by the broker.  The broker may drop it at any time (missed      *)
(* heartbeats during a long handler, restart, acknowledgement timeout);    *)
(* until the client notices, its writes vanish without an error.           *)
(***************************************************************************)
EXTENDS Naturals, SequencesExt

CONSTANTS Jobs,         \* job identities: createJob draws a fresh uuid for each
          FailingJobs,  \* jobs whose type has no handler, or one that always raises
          MaxDials,     \* attempts of broker.Connect before it gives up (30)
          MaxFaults     \* bound of the model: connection losses, kills, outages

ASSUME JobsAssumption == FailingJobs \subseteq Jobs
ASSUME BoundsAssumption == MaxDials \in Nat \ {0} /\ MaxFaults \in Nat

VARIABLES
  gpc,        \* gateway main(): "dial", "store", "serve", "down"
  dials,      \* failed dials of broker.Connect so far
  consumer,   \* the results goroutine: "off", "declare", "bind", "subscribe", "loop"
  glink,      \* the gateway's AMQP connection: "none", "up", "cut"
  gwire,      \* jobs published on it and not yet handled by the broker
  request,    \* per job: "new", "sent", "accepted", "refused", "rejected", "broken"
  brokerUp,   \* is RabbitMQ running
  queue,      \* ready messages of ml.jobs
  resultsKey, \* what the gateway's result queue is bound with; NoQueue, or Unbound
  routed,     \* per job: its results that reached the gateway's result queue
  wpc,        \* worker: "load", "connect", "declare", "consume", "handle",
              \* "publish", "ack", "except", "dead"
  conn,       \* the worker's variable conn: "none" (unbound), "open", "consuming",
              \* "channel_closed", "cut"
  inbox,      \* deliveries the worker's client holds and has not yet dispatched
  current,    \* the delivery on_message works on, with its status
  wire,       \* frames written by the worker and not yet handled by the broker
  unacked,    \* deliveries the broker waits to have acknowledged
  entered,    \* history: the jobs in the order they reached the queue
  reports,    \* history: results of each job that reached the exchange
  requeues,   \* history: how often each job went back to the queue
  faults      \* faults so far

gatewayVars == <<gpc, dials, consumer, glink, gwire, request, resultsKey>>
workerVars  == <<wpc, conn, inbox, current, wire, unacked>>
brokerVars  == <<brokerUp, queue, routed, entered, reports, requeues, faults>>
vars == <<gatewayVars, workerVars, brokerVars>>

Statuses == {"ok", "error"}
None == [job |-> "none", status |-> "none"]

\* What on_message can make of a job: an unknown type and a raising handler both
\* end in the except branch.
Outcomes(j) == IF j \in FailingJobs THEN {"error"} ELSE Statuses

ResultFrame(r) == [kind |-> "result", job |-> r.job, status |-> r.status]
AckFrame(r) == [kind |-> "ack", job |-> r.job, status |-> r.status]
Frames == [kind : {"result", "ack"}, job : Jobs, status : Statuses]

-----------------------------------------------------------------------------
(* AMQP routing.  Keys are sequences of words; "#" stands for any words.   *)

NoQueue == <<"no queue">>
Unbound == <<"unbound">>
BindingKey == <<"result", "#">>
RoutingKey(status) == <<"result", status>>

ResultsExchangeKind == "direct"

Routes(kind, binding, key) ==
  \/ binding = key
  \/ /\ kind = "topic"
     /\ binding[Len(binding)] = "#"
     /\ SubSeq(key, 1, Len(binding) - 1) = SubSeq(binding, 1, Len(binding) - 1)

-----------------------------------------------------------------------------
Init ==
  /\ gpc = "dial" /\ dials = 0 /\ consumer = "off"
  /\ glink = "none" /\ gwire = <<>>
  /\ request = [j \in Jobs |-> "new"]
  /\ brokerUp = TRUE
  /\ queue = <<>> /\ entered = <<>>
  /\ resultsKey = NoQueue
  /\ routed = [j \in Jobs |-> 0]
  /\ wpc = "load" /\ conn = "none"
  /\ inbox = <<>> /\ current = None /\ wire = <<>> /\ unacked = <<>>
  /\ reports = [j \in Jobs |-> 0]
  /\ requeues = [j \in Jobs |-> 0]
  /\ faults = 0

-----------------------------------------------------------------------------
(* The gateway process.                                                    *)

\* log.Fatalf: the process ends and every open request is reset.
GatewayExit ==
  /\ gpc' = "down"
  /\ consumer' = "off"
  /\ request' = [j \in Jobs |-> IF request[j] = "sent" THEN "broken" ELSE request[j]]

GatewayDial ==
  /\ gpc = "dial" /\ brokerUp /\ glink # "up"
  /\ gpc' = "store"
  /\ glink' = "up"
  /\ UNCHANGED <<dials, consumer, gwire, request, resultsKey, workerVars, brokerVars>>

GatewayDialFails ==
  /\ gpc = "dial" /\ ~brokerUp
  /\ dials' = dials + 1
  /\ IF dials' < MaxDials THEN UNCHANGED <<gpc, consumer, request>> ELSE GatewayExit
  /\ UNCHANGED <<glink, gwire, resultsKey, workerVars, brokerVars>>

\* store.Connect succeeded: the goroutine and the HTTP server start together.
GatewayStore ==
  /\ gpc = "store"
  /\ gpc' = "serve"
  /\ consumer' = "declare"
  /\ UNCHANGED <<dials, glink, gwire, request, resultsKey, workerVars, brokerVars>>

\* store.Connect cannot reach Postgres or apply the schema.
GatewayStoreFails ==
  /\ gpc = "store"
  /\ GatewayExit
  /\ UNCHANGED <<dials, glink, gwire, resultsKey, workerVars, brokerVars>>

\* One AMQP call of ConsumeResults after the other.
ConsumerStep(from, to, key) ==
  /\ consumer = from /\ glink = "up"
  /\ consumer' = to
  /\ resultsKey' = key
  /\ UNCHANGED <<gpc, dials, glink, gwire, request, workerVars, brokerVars>>

ConsumeResults ==
  \/ ConsumerStep("declare", "bind", Unbound)
  \/ ConsumerStep("bind", "subscribe", BindingKey)
  \/ ConsumerStep("subscribe", "loop", resultsKey)

\* A failed call, or the closed message channel, ends the whole process.
ConsumeResultsFails ==
  /\ consumer # "off" /\ glink = "cut"
  /\ GatewayExit
  /\ UNCHANGED <<dials, glink, gwire, resultsKey, workerVars, brokerVars>>

RejectJob(j) ==
  /\ gpc = "serve" /\ request[j] = "new"
  /\ request' = [request EXCEPT ![j] = "rejected"]
  /\ UNCHANGED <<gpc, dials, consumer, glink, gwire, resultsKey, workerVars, brokerVars>>

\* PublishWithContext returns once the frame is written.  On a connection the
\* broker has dropped it fails, or the frame vanishes.
PublishJob(j) ==
  /\ gpc = "serve" /\ request[j] = "new"
  /\ \/ /\ glink = "up"
        /\ gwire' = Append(gwire, j)
        /\ request' = [request EXCEPT ![j] = "sent"]
     \/ /\ glink = "cut"
        /\ \E answer \in {"sent", "refused"} : request' = [request EXCEPT ![j] = answer]
        /\ UNCHANGED gwire
  /\ UNCHANGED <<gpc, dials, consumer, glink, resultsKey, workerVars, brokerVars>>

AcceptJob(j) ==
  /\ gpc = "serve" /\ request[j] = "sent"
  /\ request' = [request EXCEPT ![j] = "accepted"]
  /\ UNCHANGED <<gpc, dials, consumer, glink, gwire, resultsKey, workerVars, brokerVars>>

\* An operator starts the container again: compose has no restart policy.
GatewayRestart ==
  /\ gpc = "down" /\ glink # "up"
  /\ gpc' = "dial" /\ dials' = 0
  /\ glink' = "none"
  /\ UNCHANGED <<consumer, gwire, request, resultsKey, workerVars, brokerVars>>

-----------------------------------------------------------------------------
(* The broker.                                                             *)

EnqueueJob ==
  /\ gwire # <<>>
  /\ queue' = Append(queue, Head(gwire))
  /\ entered' = Append(entered, Head(gwire))
  /\ gwire' = Tail(gwire)
  /\ UNCHANGED <<gpc, dials, consumer, glink, request, resultsKey, workerVars,
                 brokerUp, routed, reports, requeues, faults>>

\* Without basic_qos the broker pushes every ready message to the consumer.
Deliver ==
  /\ conn = "consuming" /\ queue # <<>>
  /\ unacked' = Append(unacked, Head(queue))
  /\ inbox' = Append(inbox, Head(queue))
  /\ queue' = Tail(queue)
  /\ UNCHANGED <<gatewayVars, wpc, conn, current, wire,
                 brokerUp, routed, entered, reports, requeues, faults>>

HandleResult ==
  /\ wire # <<>> /\ Head(wire).kind = "result"
  /\ LET job == Head(wire).job
         reaches == Routes(ResultsExchangeKind, resultsKey, RoutingKey(Head(wire).status))
     IN /\ reports' = [reports EXCEPT ![job] = @ + 1]
        /\ routed' = IF reaches THEN [routed EXCEPT ![job] = @ + 1] ELSE routed
  /\ wire' = Tail(wire)
  /\ UNCHANGED <<gatewayVars, wpc, conn, inbox, current, unacked,
                 brokerUp, queue, entered, requeues, faults>>

\* Mutant: basic_ack(multiple=True) acknowledges every outstanding delivery.
HandleAckOfAll ==
  /\ wire # <<>> /\ Head(wire).kind = "ack"
  /\ unacked' = <<>>
  /\ wire' = Tail(wire)
  /\ UNCHANGED <<gatewayVars, wpc, conn, inbox, current, brokerVars>>

HandleAck ==
  /\ wire # <<>> /\ Head(wire).kind = "ack"
  /\ \E i \in 1..Len(unacked) : /\ unacked[i] = Head(wire).job
                                 /\ unacked' = RemoveAt(unacked, i)
  /\ wire' = Tail(wire)
  /\ UNCHANGED <<gatewayVars, wpc, conn, inbox, current, brokerVars>>

\* Mutant: the requeued deliveries go to the end.
RequeueAtEnd ==
  /\ queue' = queue \o unacked
  /\ requeues' = [j \in Jobs |-> IF j \in ToSet(unacked) THEN requeues[j] + 1 ELSE requeues[j]]
  /\ unacked' = <<>>
  /\ wire' = <<>>

\* Everything the consumer held goes back to where it was in the queue.
RequeueUnacked ==
  /\ queue' = unacked \o queue
  /\ requeues' = [j \in Jobs |-> IF j \in ToSet(unacked) THEN requeues[j] + 1 ELSE requeues[j]]
  /\ unacked' = <<>>
  /\ wire' = <<>>

Linked == conn \in {"open", "consuming"}

\* The broker drops the gateway's connection; the result queue is exclusive.
DropGatewayLink ==
  /\ glink' = IF glink = "up" THEN "cut" ELSE glink
  /\ gwire' = <<>>
  /\ resultsKey' = NoQueue

CutGateway ==
  /\ glink = "up" /\ faults < MaxFaults
  /\ faults' = faults + 1
  /\ DropGatewayLink
  /\ UNCHANGED <<gpc, dials, consumer, request, workerVars,
                 brokerUp, queue, routed, entered, reports, requeues>>

\* Heartbeats missed during a long handler cut the connection; a delivery that
\* stays unacknowledged too long closes the channel only.
CutWorker(how) ==
  /\ faults < MaxFaults
  /\ \/ Linked
     \/ conn = "channel_closed" /\ how = "cut"
  /\ faults' = faults + 1
  /\ conn' = how
  /\ RequeueUnacked
  /\ UNCHANGED <<gatewayVars, wpc, inbox, current, brokerUp, routed, entered, reports>>

\* A stop of RabbitMQ keeps the durable queue (compose gives it a volume).
BrokerStop ==
  /\ brokerUp /\ faults < MaxFaults
  /\ brokerUp' = FALSE
  /\ faults' = faults + 1
  /\ DropGatewayLink
  /\ conn' = IF conn = "none" THEN "none" ELSE "cut"
  /\ RequeueUnacked
  /\ UNCHANGED <<gpc, dials, consumer, request, wpc, inbox, current, routed, entered, reports>>

BrokerStart ==
  /\ ~brokerUp
  /\ brokerUp' = TRUE
  /\ UNCHANGED <<gatewayVars, workerVars, queue, routed, entered, reports, requeues, faults>>

\* A dead process's socket closes after the broker has read what was written.
GatewayEOF ==
  /\ gpc = "down" /\ glink = "up" /\ gwire = <<>>
  /\ DropGatewayLink
  /\ UNCHANGED <<gpc, dials, consumer, request, workerVars, brokerVars>>

WorkerEOF ==
  /\ wpc = "dead" /\ conn # "none" /\ wire = <<>>
  /\ conn' = "none"
  /\ RequeueUnacked
  /\ UNCHANGED <<gatewayVars, wpc, inbox, current, brokerUp, routed, entered, reports, faults>>

-----------------------------------------------------------------------------
(* The worker process: main() and on_message.                              *)

WorkerLoad ==
  /\ wpc = "load"
  /\ wpc' = "connect"
  /\ UNCHANGED <<gatewayVars, conn, inbox, current, wire, unacked, brokerVars>>

\* The assignment conn = _connect() drops what conn was before.
WorkerConnect ==
  /\ wpc = "connect" /\ brokerUp
  /\ wpc' = "declare"
  /\ conn' = "open"
  /\ inbox' = <<>> /\ current' = None
  /\ UNCHANGED <<gatewayVars, wire, unacked, brokerVars>>

WorkerConnectFails ==
  /\ wpc = "connect" /\ ~brokerUp
  /\ wpc' = "except"
  /\ UNCHANGED <<gatewayVars, conn, inbox, current, wire, unacked, brokerVars>>

\* Mutant: after a reconnect the consumer is not registered again.
SubscribeForgotten ==
  /\ wpc = "declare" /\ conn = "open"
  /\ wpc' = "consume"
  /\ UNCHANGED <<gatewayVars, conn, inbox, current, wire, unacked, brokerVars>>

WorkerSubscribe ==
  /\ wpc = "declare" /\ conn = "open"
  /\ wpc' = "consume"
  /\ conn' = "consuming"
  /\ UNCHANGED <<gatewayVars, inbox, current, wire, unacked, brokerVars>>

\* The next delivery is dispatched even when its connection is gone unnoticed.
TakeDelivery ==
  /\ wpc = "consume" /\ inbox # <<>>
  /\ wpc' = "handle"
  /\ current' = [job |-> Head(inbox), status |-> "none"]
  /\ inbox' = Tail(inbox)
  /\ UNCHANGED <<gatewayVars, conn, wire, unacked, brokerVars>>

RunHandler ==
  /\ wpc = "handle"
  /\ \E s \in Outcomes(current.job) : current' = [current EXCEPT !.status = s]
  /\ wpc' = "publish"
  /\ UNCHANGED <<gatewayVars, conn, inbox, wire, unacked, brokerVars>>

\* basic_publish and basic_ack: the frame is written, or vanishes on a link the
\* broker has dropped.
WriteFrame(frame) ==
  wire' = IF Linked THEN Append(wire, frame) ELSE wire

\* Mutant: the delivery is acknowledged before its result is published.
AckFirst ==
  /\ wpc = "publish"
  /\ WriteFrame(AckFrame(current))
  /\ wpc' = "ack"
  /\ UNCHANGED <<gatewayVars, conn, inbox, current, unacked, brokerVars>>

PublishResult ==
  /\ wpc = "publish"
  /\ WriteFrame(ResultFrame(current))
  /\ wpc' = "ack"
  /\ UNCHANGED <<gatewayVars, conn, inbox, current, unacked, brokerVars>>

AckDelivery ==
  /\ wpc = "ack"
  /\ WriteFrame(AckFrame(current))
  /\ wpc' = "consume"
  /\ current' = None
  /\ UNCHANGED <<gatewayVars, conn, inbox, unacked, brokerVars>>

\* Any call of pika on a dropped link may raise; idle, start_consuming does.
NoticeLoss ==
  /\ wpc \in {"declare", "consume", "publish", "ack"}
  /\ ~Linked
  /\ wpc' = "except"
  /\ current' = None /\ inbox' = <<>>
  /\ UNCHANGED <<gatewayVars, conn, wire, unacked, brokerVars>>

\* conn.sleep(5): returns on a connection that lost only its channel, raises on a
\* closed one, and is a NameError when _connect() never returned.
SleepThenRetry ==
  /\ wpc = "except"
  /\ wpc' = IF conn = "channel_closed" THEN "connect" ELSE "dead"
  /\ UNCHANGED <<gatewayVars, conn, inbox, current, wire, unacked, brokerVars>>

WorkerKilled ==
  /\ wpc # "dead" /\ faults < MaxFaults
  /\ faults' = faults + 1
  /\ wpc' = "dead"
  /\ inbox' = <<>> /\ current' = None
  /\ UNCHANGED <<gatewayVars, conn, wire, unacked,
                 brokerUp, queue, routed, entered, reports, requeues>>

WorkerRestart ==
  /\ wpc = "dead" /\ conn = "none"
  /\ wpc' = "load"
  /\ inbox' = <<>>
  /\ UNCHANGED <<gatewayVars, conn, current, wire, unacked, brokerVars>>

-----------------------------------------------------------------------------
GatewayNext ==
  \/ GatewayDial \/ GatewayDialFails \/ GatewayStore \/ GatewayStoreFails \/ GatewayRestart
  \/ ConsumeResults \/ ConsumeResultsFails
  \/ \E j \in Jobs : RejectJob(j) \/ PublishJob(j) \/ AcceptJob(j)

BrokerNext ==
  \/ EnqueueJob \/ Deliver \/ HandleResult \/ HandleAck
  \/ GatewayEOF \/ WorkerEOF \/ BrokerStart

FaultNext ==
  \/ CutGateway \/ BrokerStop \/ WorkerKilled
  \/ \E how \in {"cut", "channel_closed"} : CutWorker(how)

WorkerNext ==
  \/ WorkerLoad \/ WorkerConnect \/ WorkerConnectFails \/ WorkerSubscribe
  \/ TakeDelivery \/ RunHandler \/ PublishResult \/ AckDelivery
  \/ NoticeLoss \/ SleepThenRetry \/ WorkerRestart

Next == GatewayNext \/ BrokerNext \/ FaultNext \/ WorkerNext

Spec == Init /\ [][Next]_vars

\* The broker and the processes keep running; an operator restarts what died.
FairSpec == /\ Spec
            /\ WF_vars(EnqueueJob) /\ WF_vars(Deliver)
            /\ WF_vars(HandleResult \/ HandleAck)
            /\ WF_vars(WorkerEOF) /\ WF_vars(BrokerStart)
            /\ WF_vars(WorkerNext)

-----------------------------------------------------------------------------
(* Properties.                                                             *)

GatewayTypeOK ==
  /\ gpc \in {"dial", "store", "serve", "down"}
  /\ dials \in 0..MaxDials
  /\ consumer \in {"off", "declare", "bind", "subscribe", "loop"}
  /\ glink \in {"none", "up", "cut"}
  /\ gwire \in Seq(Jobs)
  /\ request \in [Jobs -> {"new", "sent", "accepted", "refused", "rejected", "broken"}]
  /\ resultsKey \in {NoQueue, Unbound, BindingKey}

BrokerTypeOK ==
  /\ brokerUp \in BOOLEAN
  /\ queue \in Seq(Jobs)
  /\ entered \in Seq(Jobs)
  /\ routed \in [Jobs -> Nat]
  /\ reports \in [Jobs -> Nat]
  /\ requeues \in [Jobs -> Nat]
  /\ faults \in 0..MaxFaults

Deliveries == [job : Jobs \cup {"none"}, status : Statuses \cup {"none"}]

WorkerTypeOK ==
  /\ wpc \in {"load", "connect", "declare", "consume", "handle", "publish", "ack",
              "except", "dead"}
  /\ conn \in {"none", "open", "consuming", "channel_closed", "cut"}
  /\ inbox \in Seq(Jobs)
  /\ current \in Deliveries
  /\ wpc \in {"handle", "publish", "ack"} => current.job \in Jobs
  /\ wpc \in {"publish", "ack"} => current.status \in Statuses
  /\ wire \in Seq(Frames)
  /\ unacked \in Seq(Jobs)

\* Every variable has its type: broker.Connect gives up in time, and a delivery
\* under work is a job with, once the handler has run, a status.
TypeOK == GatewayTypeOK /\ BrokerTypeOK /\ WorkerTypeOK

Pending == ToSet(queue) \cup ToSet(unacked)

\* A job that reached ml.jobs is still there, ready or unacknowledged, until a
\* result of it was published, whatever connection or process was lost
\* (on_message acknowledges after it publishes, auto_ack is off).
JobNotLost == \A j \in ToSet(entered) : j \in Pending \/ reports[j] > 0

\* No step duplicates a message of ml.jobs: the broker holds each job once,
\* through redeliveries and reconnects.
HeldOnce == IsInjective(unacked \o queue)

\* A second result of a job needs a second delivery: without a lost connection
\* between publish and acknowledgement the store gets one row per job.
DuplicateNeedsRequeue == \A j \in Jobs : reports[j] <= 1 + requeues[j]

\* A requeued job keeps its place before the jobs behind it, so first results
\* appear in the order in which the jobs were queued, even across redeliveries.
FirstReportsInOrder ==
  \A i, k \in 1..Len(entered) :
    i < k /\ reports[entered[k]] > 0 => reports[entered[i]] > 0

\* The sequence of reports, from which the gateway can tell jobs apart.
ReportsFollowDeliveries == DuplicateNeedsRequeue /\ FirstReportsInOrder

\* The durable queue with the worker's publish-then-acknowledge implements the
\* at-least-once queue.
AtLeastOnceQueue == INSTANCE AtLeastOnce WITH pending <- Pending
ImplementsAtLeastOnce == AtLeastOnceQueue!Spec

\* If the worker is restarted when it died, a queued job gets its result:
\* neither a lost connection nor a worker that died in its retry branch strands it.
QueuedJobIsReported == \A j \in Jobs : (j \in ToSet(queue)) ~> (reports[j] > 0)

\* The gateway's binding is there to receive every result of the worker
\* (main.go: "Realtime fan-out: broker -> websocket hub + postgres persistence").
ResultsReachGateway ==
  [][\A j \in Jobs :
       reports'[j] > reports[j] /\ resultsKey = BindingKey => routed'[j] > routed[j]]_vars

\* worker.py:232 says that with the broker unavailable the worker is "retrying in
\* 5s": its except branch leads back to the loop, unless the process is killed.
UnavailableBrokerIsRetried ==
  [][wpc = "except" /\ wpc' = "dead" => faults' # faults]_vars
=============================================================================
