-------------------------- MODULE JobPipelineProofs --------------------------
(***************************************************************************)
(* Proofs about JobPipeline, for every set of jobs and every bound: its    *)
(* type invariant, that no queued job is lost, that the broker holds no    *)
(* job twice, that reports follow the order of the jobs and their          *)
(* requeues, and that the whole implements AtLeastOnce.                    *)
(***************************************************************************)
EXTENDS JobPipeline, DataFacts

-----------------------------------------------------------------------------
(* Types.                                                                  *)

\* A gateway that is still dialling has attempts left.
GatewayTypeInv == GatewayTypeOK /\ (gpc = "dial" => dials < MaxDials)
TypeInv == GatewayTypeInv /\ BrokerTypeOK /\ WorkerTypeOK

\* The type invariant holds initially.
LEMMA TypeInit == Init => TypeInv
<1> SUFFICES ASSUME Init PROVE TypeInv
  OBVIOUS
<1>1. None \in Deliveries
  BY DEF None, Deliveries
<1>2. <<>> \in Seq(Jobs) /\ <<>> \in Seq(Frames)
  OBVIOUS
<1>3. GatewayTypeInv
  BY <1>2, BoundsAssumption DEF Init, GatewayTypeInv, GatewayTypeOK
<1>4. BrokerTypeOK /\ WorkerTypeOK
  BY <1>1, <1>2, BoundsAssumption DEF Init, BrokerTypeOK, WorkerTypeOK
<1> QED BY <1>3, <1>4 DEF TypeInv

\* A step that leaves a process's variables alone leaves their types alone.
LEMMA UnchangedTypes ==
  /\ GatewayTypeInv /\ UNCHANGED gatewayVars => GatewayTypeInv'
  /\ WorkerTypeOK /\ UNCHANGED workerVars => WorkerTypeOK'
  /\ BrokerTypeOK /\ UNCHANGED brokerVars => BrokerTypeOK'
<1>1. GatewayTypeInv /\ UNCHANGED gatewayVars => GatewayTypeInv'
  BY DEF GatewayTypeInv, GatewayTypeOK, gatewayVars
<1>2. WorkerTypeOK /\ UNCHANGED workerVars => WorkerTypeOK'
  BY DEF WorkerTypeOK, workerVars
<1>3. BrokerTypeOK /\ UNCHANGED brokerVars => BrokerTypeOK'
  BY DEF BrokerTypeOK, brokerVars
<1> QED BY <1>1, <1>2, <1>3

\* The gateway's steps touch nothing of the worker or the broker.
LEMMA GatewayFrame == GatewayNext => UNCHANGED <<workerVars, brokerVars>>
BY DEF GatewayNext, GatewayDial, GatewayDialFails, GatewayStore, GatewayStoreFails,
       GatewayRestart, ConsumeResults, ConsumerStep, ConsumeResultsFails, RejectJob,
       PublishJob, AcceptJob

\* The worker's steps touch nothing of the gateway or the broker.
LEMMA WorkerFrame == WorkerNext => UNCHANGED <<gatewayVars, brokerVars, unacked>>
BY DEF WorkerNext, WorkerLoad, WorkerConnect, WorkerConnectFails, WorkerSubscribe,
       TakeDelivery, RunHandler, PublishResult, AckDelivery, NoticeLoss, SleepThenRetry,
       WorkerRestart

\* Every step of the gateway keeps the types.
LEMMA GatewayTypes == TypeInv /\ GatewayNext => TypeInv'
<1> SUFFICES ASSUME TypeInv, GatewayNext PROVE GatewayTypeInv'
  BY GatewayFrame, UnchangedTypes DEF TypeInv
<1> USE BoundsAssumption DEF TypeInv, GatewayTypeInv, GatewayTypeOK
<1>1. CASE GatewayDial
  BY <1>1 DEF GatewayDial
<1>2. CASE GatewayDialFails
  BY <1>2 DEF GatewayDialFails, GatewayExit
<1>3. CASE GatewayStore
  BY <1>3 DEF GatewayStore
<1>4. CASE GatewayStoreFails
  BY <1>4 DEF GatewayStoreFails, GatewayExit
<1>5. CASE GatewayRestart
  BY <1>5 DEF GatewayRestart
<1>6. ASSUME NEW from, NEW to \in {"bind", "subscribe", "loop"},
             NEW key \in {NoQueue, Unbound, BindingKey}, ConsumerStep(from, to, key)
      PROVE  GatewayTypeInv'
  BY <1>6 DEF ConsumerStep
<1>7. CASE ConsumeResultsFails
  BY <1>7 DEF ConsumeResultsFails, GatewayExit
<1>8. ASSUME NEW j \in Jobs, RejectJob(j) PROVE GatewayTypeInv'
  BY <1>8 DEF RejectJob
<1>9. ASSUME NEW j \in Jobs, PublishJob(j) PROVE GatewayTypeInv'
  <2>1. gwire' = gwire \/ gwire' = Append(gwire, j)
    BY <1>9 DEF PublishJob
  <2>2. gwire' \in Seq(Jobs)
    BY <2>1
  <2>3. request' \in [Jobs -> {"new", "sent", "accepted", "refused", "rejected", "broken"}]
    BY <1>9 DEF PublishJob
  <2> QED BY <1>9, <2>2, <2>3 DEF PublishJob
<1>10. ASSUME NEW j \in Jobs, AcceptJob(j) PROVE GatewayTypeInv'
  BY <1>10 DEF AcceptJob
<1>11. CASE ConsumeResults
  <2>1. resultsKey \in {NoQueue, Unbound, BindingKey}
    OBVIOUS
  <2> QED BY <1>6, <1>11, <2>1 DEF ConsumeResults
<1> QED BY <1>1, <1>2, <1>3, <1>4, <1>5, <1>7, <1>8, <1>9, <1>10, <1>11 DEF GatewayNext

\* Requeueing keeps the types of what it writes.
LEMMA RequeueTypes ==
  ASSUME TypeInv, RequeueUnacked
  PROVE  /\ queue' \in Seq(Jobs) /\ unacked' \in Seq(Jobs) /\ wire' \in Seq(Frames)
         /\ requeues' \in [Jobs -> Nat]
<1>1. unacked \in Seq(Jobs) /\ queue \in Seq(Jobs) /\ requeues \in [Jobs -> Nat]
  BY DEF TypeInv, WorkerTypeOK, BrokerTypeOK
<1>2. queue' = unacked \o queue /\ unacked' = <<>> /\ wire' = <<>>
  BY DEF RequeueUnacked
<1>3. unacked \o queue \in Seq(Jobs)
  BY <1>1
<1>4. requeues' \in [Jobs -> Nat]
  BY <1>1 DEF RequeueUnacked
<1> QED BY <1>2, <1>3, <1>4

\* So does dropping the gateway's connection.
LEMMA DropTypes ==
  ASSUME TypeInv, DropGatewayLink
  PROVE  /\ glink' \in {"none", "up", "cut"} /\ gwire' \in Seq(Jobs)
         /\ resultsKey' \in {NoQueue, Unbound, BindingKey}
BY DEF TypeInv, GatewayTypeInv, GatewayTypeOK, DropGatewayLink

\* Every step of the broker keeps the types.
LEMMA BrokerTypes == TypeInv /\ BrokerNext => TypeInv'
<1> SUFFICES ASSUME TypeInv, BrokerNext PROVE TypeInv'
  OBVIOUS
<1> USE DEF TypeInv
<1>1. CASE EnqueueJob
  <2> gwire \in Seq(Jobs) /\ queue \in Seq(Jobs) /\ entered \in Seq(Jobs)
    BY DEF GatewayTypeInv, GatewayTypeOK, BrokerTypeOK
  <2>1. gwire' \in Seq(Jobs) /\ Head(gwire) \in Jobs
    BY <1>1, ToSetHeadTail DEF EnqueueJob
  <2>2. queue' \in Seq(Jobs) /\ entered' \in Seq(Jobs)
    BY <1>1, <2>1 DEF EnqueueJob
  <2>3. GatewayTypeInv'
    BY <1>1, <2>1 DEF EnqueueJob, GatewayTypeInv, GatewayTypeOK
  <2>4. BrokerTypeOK'
    BY <1>1, <2>2 DEF EnqueueJob, BrokerTypeOK
  <2> QED BY <1>1, <2>3, <2>4, UnchangedTypes DEF EnqueueJob
<1>2. CASE Deliver
  <2> queue \in Seq(Jobs) /\ unacked \in Seq(Jobs) /\ inbox \in Seq(Jobs)
    BY DEF BrokerTypeOK, WorkerTypeOK
  <2>1. queue' \in Seq(Jobs) /\ Head(queue) \in Jobs
    BY <1>2, ToSetHeadTail DEF Deliver
  <2>2. unacked' \in Seq(Jobs) /\ inbox' \in Seq(Jobs)
    BY <1>2, <2>1 DEF Deliver
  <2>3. BrokerTypeOK' /\ WorkerTypeOK'
    BY <1>2, <2>1, <2>2 DEF Deliver, BrokerTypeOK, WorkerTypeOK
  <2> QED BY <1>2, <2>3, UnchangedTypes DEF Deliver
<1>3. CASE HandleResult
  <2>0. wire \in Seq(Frames) /\ reports \in [Jobs -> Nat] /\ routed \in [Jobs -> Nat]
    BY DEF BrokerTypeOK, WorkerTypeOK
  <2>1. wire' \in Seq(Frames) /\ Head(wire) \in Frames
    BY <1>3, <2>0, ToSetHeadTail DEF HandleResult
  <2> DEFINE job == Head(wire).job
  <2>2. job \in Jobs
    BY <2>1 DEF Frames
  <2>3. /\ reports' = [reports EXCEPT ![job] = @ + 1]
        /\ \/ routed' = [routed EXCEPT ![job] = @ + 1]
           \/ routed' = routed
    BY <1>3 DEF HandleResult
  <2> HIDE DEF job
  <2>4. reports' \in [Jobs -> Nat] /\ routed' \in [Jobs -> Nat]
    BY <2>0, <2>2, <2>3
  <2>5. BrokerTypeOK' /\ WorkerTypeOK'
    BY <1>3, <2>1, <2>4 DEF HandleResult, BrokerTypeOK, WorkerTypeOK
  <2> QED BY <1>3, <2>5, UnchangedTypes DEF HandleResult
<1>4. CASE HandleAck
  <2> wire \in Seq(Frames) /\ unacked \in Seq(Jobs)
    BY DEF WorkerTypeOK
  <2>1. wire' \in Seq(Frames)
    BY <1>4, ToSetHeadTail DEF HandleAck
  <2>2. unacked' \in Seq(Jobs)
    BY <1>4, RemoveAtProperties DEF HandleAck
  <2>3. WorkerTypeOK'
    BY <1>4, <2>1, <2>2 DEF HandleAck, WorkerTypeOK
  <2> QED BY <1>4, <2>3, UnchangedTypes DEF HandleAck
<1>5. CASE GatewayEOF
  <2>1. GatewayTypeInv'
    BY <1>5, DropTypes DEF GatewayEOF, GatewayTypeInv, GatewayTypeOK
  <2> QED BY <1>5, <2>1, UnchangedTypes DEF GatewayEOF
<1>6. CASE WorkerEOF
  <2>1. BrokerTypeOK' /\ WorkerTypeOK'
    BY <1>6, RequeueTypes DEF WorkerEOF, BrokerTypeOK, WorkerTypeOK
  <2> QED BY <1>6, <2>1, UnchangedTypes DEF WorkerEOF
<1>7. CASE BrokerStart
  <2>1. BrokerTypeOK'
    BY <1>7 DEF BrokerStart, BrokerTypeOK
  <2> QED BY <1>7, <2>1, UnchangedTypes DEF BrokerStart
<1> QED BY <1>1, <1>2, <1>3, <1>4, <1>5, <1>6, <1>7 DEF BrokerNext

\* Every fault keeps the types.
LEMMA FaultTypes == TypeInv /\ FaultNext => TypeInv'
<1> SUFFICES ASSUME TypeInv, FaultNext PROVE TypeInv'
  OBVIOUS
<1> USE BoundsAssumption DEF TypeInv
<1>1. CASE CutGateway
  <2>1. GatewayTypeInv'
    BY <1>1, DropTypes DEF CutGateway, GatewayTypeInv, GatewayTypeOK
  <2>2. BrokerTypeOK'
    BY <1>1 DEF CutGateway, BrokerTypeOK
  <2> QED BY <1>1, <2>1, <2>2, UnchangedTypes DEF CutGateway
<1>2. CASE BrokerStop
  <2>1. GatewayTypeInv'
    BY <1>2, DropTypes DEF BrokerStop, GatewayTypeInv, GatewayTypeOK
  <2>2. BrokerTypeOK'
    <3>1. faults' \in 0..MaxFaults
      BY <1>2 DEF BrokerStop, BrokerTypeOK
    <3>2. RequeueUnacked /\ brokerUp' = FALSE /\ UNCHANGED <<entered, routed, reports>>
      BY <1>2 DEF BrokerStop
    <3> QED BY <3>1, <3>2, RequeueTypes DEF BrokerTypeOK
  <2>3. WorkerTypeOK'
    BY <1>2, RequeueTypes DEF BrokerStop, WorkerTypeOK
  <2> QED BY <2>1, <2>2, <2>3
<1>3. CASE WorkerKilled
  <2>1. WorkerTypeOK'
    BY <1>3 DEF WorkerKilled, WorkerTypeOK, None, Deliveries
  <2>2. BrokerTypeOK'
    BY <1>3 DEF WorkerKilled, BrokerTypeOK
  <2> QED BY <1>3, <2>1, <2>2, UnchangedTypes DEF WorkerKilled
<1>4. ASSUME NEW how \in {"cut", "channel_closed"}, CutWorker(how) PROVE TypeInv'
  <2>1. BrokerTypeOK'
    BY <1>4, RequeueTypes DEF CutWorker, BrokerTypeOK
  <2>2. WorkerTypeOK'
    BY <1>4, RequeueTypes DEF CutWorker, WorkerTypeOK
  <2> QED BY <1>4, <2>1, <2>2, UnchangedTypes DEF CutWorker
<1> QED BY <1>1, <1>2, <1>3, <1>4 DEF FaultNext

\* What on_message writes is a frame.
LEMMA CurrentFrames ==
  ASSUME WorkerTypeOK, wpc \in {"publish", "ack"}
  PROVE  ResultFrame(current) \in Frames /\ AckFrame(current) \in Frames
BY DEF WorkerTypeOK, ResultFrame, AckFrame, Frames

\* Every step of the worker keeps the types.
LEMMA WorkerTypes == TypeInv /\ WorkerNext => TypeInv'
<1> SUFFICES ASSUME WorkerTypeOK, WorkerNext PROVE WorkerTypeOK'
  BY WorkerFrame, UnchangedTypes DEF TypeInv
<1>0. None \in Deliveries /\ <<>> \in Seq(Jobs)
  BY DEF None, Deliveries
<1>1. CASE WorkerLoad
  BY <1>1 DEF WorkerLoad, WorkerTypeOK
<1>2. CASE WorkerConnect
  BY <1>0, <1>2 DEF WorkerConnect, WorkerTypeOK
<1>3. CASE WorkerConnectFails
  BY <1>3 DEF WorkerConnectFails, WorkerTypeOK
<1>4. CASE WorkerSubscribe
  BY <1>4 DEF WorkerSubscribe, WorkerTypeOK
<1>5. CASE TakeDelivery
  <2>1. inbox \in Seq(Jobs)
    BY DEF WorkerTypeOK
  <2>2. inbox' \in Seq(Jobs) /\ Head(inbox) \in Jobs
    BY <1>5, <2>1, ToSetHeadTail DEF TakeDelivery
  <2>3. current' \in Deliveries /\ current'.job \in Jobs
    BY <1>5, <2>2 DEF TakeDelivery, Deliveries
  <2> QED BY <1>5, <2>2, <2>3 DEF TakeDelivery, WorkerTypeOK
<1>6. CASE RunHandler
  <2>1. PICK s \in Outcomes(current.job) : current' = [current EXCEPT !.status = s]
    BY <1>6 DEF RunHandler
  <2>2. s \in Statuses
    BY <2>1 DEF Outcomes, Statuses
  <2>3. current' \in Deliveries /\ current'.job = current.job /\ current'.status = s
    BY <2>1, <2>2 DEF WorkerTypeOK, Deliveries
  <2> QED BY <1>6, <2>2, <2>3 DEF RunHandler, WorkerTypeOK
<1>7. CASE PublishResult
  <2>1. wire' \in Seq(Frames)
    BY <1>7, CurrentFrames DEF PublishResult, WriteFrame, WorkerTypeOK
  <2> QED BY <1>7, <2>1 DEF PublishResult, WorkerTypeOK
<1>8. CASE AckDelivery
  <2>1. wire' \in Seq(Frames)
    BY <1>8, CurrentFrames DEF AckDelivery, WriteFrame, WorkerTypeOK
  <2> QED BY <1>0, <1>8, <2>1 DEF AckDelivery, WorkerTypeOK
<1>9. CASE NoticeLoss
  BY <1>0, <1>9 DEF NoticeLoss, WorkerTypeOK
<1>10. CASE SleepThenRetry
  BY <1>10 DEF SleepThenRetry, WorkerTypeOK
<1>11. CASE WorkerRestart
  BY <1>0, <1>11 DEF WorkerRestart, WorkerTypeOK
<1> QED BY <1>1, <1>2, <1>3, <1>4, <1>5, <1>6, <1>7, <1>8, <1>9, <1>10, <1>11
        DEF WorkerNext

\* Every step keeps the types.
LEMMA TypeStep == TypeInv /\ [Next]_vars => TypeInv'
<1>1. TypeInv /\ UNCHANGED vars => TypeInv'
  BY UnchangedTypes DEF TypeInv, vars
<1> QED BY <1>1, GatewayTypes, BrokerTypes, FaultTypes, WorkerTypes DEF Next

\* The types of all variables hold in every reachable state, whatever the jobs
\* and the bounds: in particular broker.Connect stops after MaxDials attempts.
THEOREM TypeCorrect == Spec => []TypeOK
<1>1. TypeInv => TypeOK
  BY DEF TypeInv, GatewayTypeInv, TypeOK
<1> QED BY TypeInit, TypeStep, <1>1, PTL DEF Spec

-----------------------------------------------------------------------------
(* No queued job is lost.  The invariant has to follow the acknowledgement *)
(* from the moment it is written: an ack on the wire has the result of its *)
(* job before it, and a worker about to write one has written the result   *)
(* on the same connection.                                                 *)

ResultAhead(job, n) == \E k \in 1..n : wire[k].kind = "result" /\ wire[k].job = job
Backed(job, n) == reports[job] > 0 \/ ResultAhead(job, n)

AcksAreBacked ==
  \A i \in 1..Len(wire) : wire[i].kind = "ack" => Backed(wire[i].job, i - 1)

NextAckIsBacked == wpc = "ack" /\ Linked => Backed(current.job, Len(wire))

LossInv == AcksAreBacked /\ NextAckIsBacked /\ JobNotLost

\* A frame that is appended leaves the frames before it where they are.
LEMMA BackedAppend ==
  ASSUME TypeInv, NEW f \in Frames, wire' = Append(wire, f), UNCHANGED reports,
         NEW job, NEW n \in 0..Len(wire), Backed(job, n)
  PROVE  Backed(job, n)'
<1>1. /\ wire \in Seq(Frames) /\ Len(wire) \in Nat
      /\ \A k \in 1..Len(wire) : wire'[k] = wire[k]
  BY DEF TypeInv, WorkerTypeOK
<1> QED BY <1>1 DEF Backed, ResultAhead

\* Requeueing and emptying the wire keep LossInv.
LEMMA RequeueKeepsJobs ==
  ASSUME TypeInv, LossInv, RequeueUnacked, ~Linked', UNCHANGED <<entered, reports>>
  PROVE  LossInv'
<1>1. wire' = <<>> /\ queue' = unacked \o queue /\ unacked' = <<>>
  BY DEF RequeueUnacked
<1>2. AcksAreBacked' /\ NextAckIsBacked'
  BY <1>1 DEF AcksAreBacked, NextAckIsBacked
<1>3. Pending \subseteq Pending'
  BY <1>1, ToSetConcat DEF Pending, TypeInv, WorkerTypeOK, BrokerTypeOK
<1>4. JobNotLost'
  BY <1>3 DEF LossInv, JobNotLost
<1> QED BY <1>2, <1>4 DEF LossInv

\* Steps that leave the wire, the queue and the histories alone keep it, if
\* they do not bring the worker to its acknowledgement.
LEMMA QuietKeepsJobs ==
  ASSUME LossInv, UNCHANGED <<wire, queue, unacked, entered, reports>>,
         wpc' # "ack" \/ ~Linked' \/ UNCHANGED <<wpc, conn, current>>
  PROVE  LossInv'
<1>1. AcksAreBacked'
  BY DEF LossInv, AcksAreBacked, Backed, ResultAhead
<1>2. NextAckIsBacked'
  BY DEF LossInv, NextAckIsBacked, Backed, ResultAhead, Linked
<1>3. JobNotLost'
  BY DEF LossInv, JobNotLost, Pending
<1> QED BY <1>1, <1>2, <1>3 DEF LossInv

\* The broker's steps keep it.
LEMMA BrokerKeepsJobs == TypeInv /\ LossInv /\ BrokerNext => LossInv'
<1> SUFFICES ASSUME TypeInv, LossInv, BrokerNext PROVE LossInv'
  OBVIOUS
<1>0. /\ wire \in Seq(Frames) /\ unacked \in Seq(Jobs) /\ queue \in Seq(Jobs)
      /\ gwire \in Seq(Jobs) /\ entered \in Seq(Jobs) /\ reports \in [Jobs -> Nat]
  BY DEF TypeInv, GatewayTypeInv, GatewayTypeOK, BrokerTypeOK, WorkerTypeOK
<1>1. CASE EnqueueJob
  <2>1. Head(gwire) \in Jobs
    BY <1>0, <1>1, ToSetHeadTail DEF EnqueueJob
  <2>2. /\ ToSet(entered') = ToSet(entered) \cup {Head(gwire)}
        /\ ToSet(queue') = ToSet(queue) \cup {Head(gwire)}
    BY <1>0, <1>1, <2>1, ToSetAppend DEF EnqueueJob
  <2>3. JobNotLost'
    BY <1>1, <2>2 DEF EnqueueJob, workerVars, LossInv, JobNotLost, Pending
  <2>4. AcksAreBacked' /\ NextAckIsBacked'
    BY <1>1 DEF EnqueueJob, workerVars, LossInv, AcksAreBacked, NextAckIsBacked, Backed,
                ResultAhead, Linked
  <2> QED BY <2>3, <2>4 DEF LossInv
<1>2. CASE Deliver
  <2>1. Head(queue) \in Jobs /\ ToSet(queue) = ToSet(queue') \cup {Head(queue)}
    BY <1>0, <1>2, ToSetHeadTail DEF Deliver
  <2>2. ToSet(unacked') = ToSet(unacked) \cup {Head(queue)}
    BY <1>0, <1>2, <2>1, ToSetAppend DEF Deliver
  <2>3. JobNotLost'
    BY <1>2, <2>1, <2>2 DEF Deliver, LossInv, JobNotLost, Pending
  <2>4. AcksAreBacked' /\ NextAckIsBacked'
    BY <1>2 DEF Deliver, LossInv, AcksAreBacked, NextAckIsBacked, Backed, ResultAhead, Linked
  <2> QED BY <2>3, <2>4 DEF LossInv
<1>3. /\ wire # <<>> /\ wire' = Tail(wire)
      /\ UNCHANGED <<wpc, conn, current>>
      /\ \A j \in Jobs : reports[j] > 0 => reports'[j] > 0
      /\ Head(wire).kind = "result" => reports'[Head(wire).job] > 0
      => AcksAreBacked' /\ NextAckIsBacked'
  <2> SUFFICES ASSUME wire # <<>>, wire' = Tail(wire), UNCHANGED <<wpc, conn, current>>,
                      \A j \in Jobs : reports[j] > 0 => reports'[j] > 0,
                      Head(wire).kind = "result" => reports'[Head(wire).job] > 0
               PROVE  AcksAreBacked' /\ NextAckIsBacked'
    OBVIOUS
  <2>1. PICK n \in Nat \ {0} : n = Len(wire)
    BY <1>0
  <2>2. /\ Len(wire') = n - 1 /\ Head(wire) = wire[1]
        /\ \A k \in 1..(n - 1) : wire'[k] = wire[k + 1]
        /\ \A k \in 1..n : wire[k].job \in Jobs
    <3>1. /\ Len(wire') = n - 1 /\ Head(wire) = wire[1]
          /\ \A k \in 1..(n - 1) : wire'[k] = wire[k + 1]
      BY <1>0, <2>1
    <3>2. \A k \in 1..n : wire[k] \in Frames
      BY <1>0, <2>1
    <3> QED BY <3>1, <3>2 DEF Frames
  <2>3. ASSUME NEW job \in Jobs, NEW m \in 0..n, Backed(job, m) PROVE Backed(job, m - 1)'
    <3>1. CASE reports[job] > 0
      BY <3>1 DEF Backed
    <3>2. ASSUME NEW k \in 1..m, wire[k].kind = "result" /\ wire[k].job = job
          PROVE  Backed(job, m - 1)'
      <4>1. CASE k = 1
        BY <2>2, <3>2, <4>1 DEF Backed
      <4>2. CASE k # 1
        <5>1. k - 1 \in 1..(m - 1) /\ k - 1 \in 1..(n - 1) /\ (k - 1) + 1 = k
          BY <4>2
        <5>2. wire'[k - 1] = wire[k]
          BY <2>2, <5>1
        <5> QED BY <3>2, <5>1, <5>2 DEF Backed, ResultAhead
      <4> QED BY <4>1, <4>2
    <3> QED BY <2>3, <3>1, <3>2 DEF Backed, ResultAhead
  <2>4. AcksAreBacked'
    <3> SUFFICES ASSUME NEW i \in 1..(n - 1), wire'[i].kind = "ack"
                 PROVE  Backed(wire[i].job, i - 1)'
      BY <2>2 DEF AcksAreBacked
    <3>1. i + 1 \in 1..n /\ (i + 1) - 1 = i /\ i \in 0..n
      OBVIOUS
    <3>2. PICK job \in Jobs : job = wire[i + 1].job
      BY <2>2, <3>1
    <3>3. wire'[i].job = job /\ wire[i + 1].kind = "ack"
      BY <2>2, <3>2
    <3>4. Backed(job, i)
      BY <2>1, <3>1, <3>2, <3>3 DEF LossInv, AcksAreBacked
    <3>5. Backed(job, i - 1)'
      BY <2>3, <3>1, <3>4
    <3> QED BY <3>3, <3>5
  <2>5. NextAckIsBacked'
    <3> SUFFICES ASSUME wpc = "ack", Linked PROVE Backed(current.job, Len(wire))'
      BY DEF NextAckIsBacked, Linked
    <3>1. PICK job \in Jobs : job = current.job
      BY DEF TypeInv, WorkerTypeOK
    <3>2. Backed(job, n) /\ n \in 0..n
      BY <2>1, <3>1 DEF LossInv, NextAckIsBacked
    <3>3. Backed(job, n - 1)'
      BY <2>3, <3>2
    <3> QED BY <2>2, <3>1, <3>3
  <2> QED BY <2>4, <2>5
<1>4. CASE HandleResult
  <2> DEFINE job == Head(wire).job
  <2>1. Head(wire) \in Frames /\ job \in Jobs
    <3>1. Head(wire) \in Frames
      BY <1>0, <1>4, ToSetHeadTail DEF HandleResult
    <3> QED BY <3>1 DEF Frames
  <2>2. reports' = [reports EXCEPT ![job] = @ + 1]
    BY <1>4 DEF HandleResult
  <2>3. (\A j \in Jobs : reports[j] > 0 => reports'[j] > 0) /\ reports'[job] > 0
    <3> HIDE DEF job
    <3> QED BY <1>0, <2>1, <2>2
  <2>4. AcksAreBacked' /\ NextAckIsBacked'
    BY <1>3, <1>4, <2>3 DEF HandleResult
  <2>5. JobNotLost'
    <3>1. UNCHANGED <<queue, unacked, entered>>
      BY <1>4 DEF HandleResult
    <3>2. ToSet(entered) \subseteq Jobs
      BY <1>0 DEF ToSet
    <3> HIDE DEF job
    <3> QED BY <2>3, <3>1, <3>2 DEF LossInv, JobNotLost, Pending
  <2> QED BY <2>4, <2>5 DEF LossInv
<1>5. CASE HandleAck
  <2>1. AcksAreBacked' /\ NextAckIsBacked'
    BY <1>0, <1>3, <1>5 DEF HandleAck, brokerVars
  <2>2. PICK i \in 1..Len(unacked) : unacked[i] = Head(wire).job
                                     /\ unacked' = RemoveAt(unacked, i)
    BY <1>5 DEF HandleAck
  <2>3. ToSet(unacked) = ToSet(unacked') \cup {Head(wire).job}
    BY <1>0, <2>2, RemoveAtElements
  <2>4. reports[Head(wire).job] > 0
    <3>1. Len(wire) \in Nat /\ 1 \in 1..Len(wire) /\ Head(wire) = wire[1]
      BY <1>0, <1>5 DEF HandleAck
    <3>2. wire[1].kind = "ack"
      BY <1>5, <3>1 DEF HandleAck
    <3>3. Backed(wire[1].job, 0)
      BY <3>1, <3>2 DEF LossInv, AcksAreBacked
    <3> QED BY <3>1, <3>3 DEF Backed, ResultAhead
  <2>5. JobNotLost'
    BY <1>5, <2>3, <2>4 DEF HandleAck, brokerVars, LossInv, JobNotLost, Pending
  <2> QED BY <2>1, <2>5 DEF LossInv
<1>6. CASE GatewayEOF
  BY <1>6, QuietKeepsJobs DEF GatewayEOF, workerVars, brokerVars
<1>7. CASE WorkerEOF
  BY <1>7, RequeueKeepsJobs DEF WorkerEOF, Linked
<1>8. CASE BrokerStart
  BY <1>8, QuietKeepsJobs DEF BrokerStart, workerVars
<1> QED BY <1>1, <1>2, <1>4, <1>5, <1>6, <1>7, <1>8 DEF BrokerNext

\* The faults keep it.
LEMMA FaultKeepsJobs == TypeInv /\ LossInv /\ FaultNext => LossInv'
<1> SUFFICES ASSUME TypeInv, LossInv, FaultNext PROVE LossInv'
  OBVIOUS
<1>1. CASE CutGateway
  BY <1>1, QuietKeepsJobs DEF CutGateway, workerVars
<1>2. CASE BrokerStop
  BY <1>2, RequeueKeepsJobs DEF BrokerStop, Linked
<1>3. CASE WorkerKilled
  BY <1>3, QuietKeepsJobs DEF WorkerKilled
<1>4. ASSUME NEW how \in {"cut", "channel_closed"}, CutWorker(how) PROVE LossInv'
  BY <1>4, RequeueKeepsJobs DEF CutWorker, Linked
<1> QED BY <1>1, <1>2, <1>3, <1>4 DEF FaultNext

\* The worker's steps keep it: it publishes before it acknowledges, on the
\* same connection.
LEMMA WorkerKeepsJobs == TypeInv /\ LossInv /\ WorkerNext => LossInv'
<1> SUFFICES ASSUME TypeInv, LossInv, WorkerNext PROVE LossInv'
  OBVIOUS
<1>0. /\ UNCHANGED <<queue, unacked, entered, reports>>
      /\ wire \in Seq(Frames) /\ Len(wire) \in Nat
  BY WorkerFrame DEF brokerVars, TypeInv, WorkerTypeOK
<1>1. CASE PublishResult
  <2> DEFINE f == ResultFrame(current)
  <2>1. f \in Frames /\ f.kind = "result" /\ f.job = current.job
    BY <1>1, CurrentFrames DEF PublishResult, TypeInv, ResultFrame
  <2>2. CASE ~Linked
    BY <1>0, <1>1, <2>2, QuietKeepsJobs DEF PublishResult, WriteFrame, Linked
  <2>3. CASE Linked
    <3> HIDE DEF f
    <3>1. wire' = Append(wire, f) /\ UNCHANGED <<conn, current>>
      BY <1>1, <2>3 DEF PublishResult, WriteFrame, f
    <3>2. /\ Len(wire') = Len(wire) + 1 /\ wire'[Len(wire) + 1] = f
          /\ \A k \in 1..Len(wire) : wire'[k] = wire[k]
      BY <1>0, <2>1, <3>1
    <3>3. AcksAreBacked'
      <4> SUFFICES ASSUME NEW i \in 1..(Len(wire) + 1), wire'[i].kind = "ack"
                   PROVE  Backed(wire[i].job, i - 1)' /\ wire'[i] = wire[i]
        BY <3>2 DEF AcksAreBacked
      <4>1. i # Len(wire) + 1
        BY <2>1, <3>2
      <4>2. i \in 1..Len(wire) /\ i - 1 \in 0..Len(wire)
        BY <1>0, <4>1
      <4>3. wire'[i] = wire[i] /\ Backed(wire[i].job, i - 1)
        BY <3>2, <4>2 DEF LossInv, AcksAreBacked
      <4>4. Backed(wire[i].job, i - 1)'
        BY <1>0, <2>1, <3>1, <4>2, <4>3 DEF Backed, ResultAhead
      <4> QED BY <4>3, <4>4
    <3>4. NextAckIsBacked'
      BY <1>0, <2>1, <3>1, <3>2 DEF NextAckIsBacked, Backed, ResultAhead
    <3>5. JobNotLost'
      BY <1>0 DEF LossInv, JobNotLost, Pending
    <3> QED BY <3>3, <3>4, <3>5 DEF LossInv
  <2> QED BY <2>2, <2>3
<1>2. CASE AckDelivery
  <2> DEFINE f == AckFrame(current)
  <2>1. f \in Frames /\ f.kind = "ack" /\ f.job = current.job
    BY <1>2, CurrentFrames DEF AckDelivery, TypeInv, AckFrame
  <2>2. CASE ~Linked
    BY <1>0, <1>2, <2>2, QuietKeepsJobs DEF AckDelivery, WriteFrame, Linked
  <2>3. CASE Linked
    <3> HIDE DEF f
    <3>1. wire' = Append(wire, f) /\ Backed(current.job, Len(wire))
      BY <1>2, <2>3 DEF AckDelivery, WriteFrame, LossInv, NextAckIsBacked, f
    <3>2. /\ Len(wire') = Len(wire) + 1 /\ wire'[Len(wire) + 1] = f
          /\ \A k \in 1..Len(wire) : wire'[k] = wire[k]
      BY <1>0, <2>1, <3>1
    <3>3. AcksAreBacked'
      <4> SUFFICES ASSUME NEW i \in 1..(Len(wire) + 1), wire'[i].kind = "ack"
                   PROVE  Backed(wire[i].job, i - 1)'
        BY <3>2 DEF AcksAreBacked
      <4>1. PICK job \in Jobs : job = current.job
        BY <1>2 DEF AckDelivery, TypeInv, WorkerTypeOK
      <4>2. CASE i = Len(wire) + 1
        <5>1. i - 1 = Len(wire) /\ i - 1 \in 0..Len(wire) /\ wire'[i].job = job
          BY <1>0, <2>1, <3>2, <4>1, <4>2
        <5>2. Backed(job, i - 1)'
          BY <1>0, <2>1, <3>1, <4>1, <5>1, BackedAppend
        <5> QED BY <5>1, <5>2
      <4>3. CASE i # Len(wire) + 1
        <5>1. i \in 1..Len(wire) /\ i - 1 \in 0..Len(wire)
          BY <1>0, <4>3
        <5>2. wire'[i] = wire[i] /\ Backed(wire[i].job, i - 1)
          BY <3>2, <5>1 DEF LossInv, AcksAreBacked
        <5>3. Backed(wire[i].job, i - 1)'
          BY <1>0, <2>1, <3>1, <5>1, <5>2 DEF Backed, ResultAhead
        <5> QED BY <5>3
      <4> QED BY <4>2, <4>3
    <3>4. NextAckIsBacked'
      BY <1>2 DEF AckDelivery, NextAckIsBacked
    <3>5. JobNotLost'
      BY <1>0 DEF LossInv, JobNotLost, Pending
    <3> QED BY <3>3, <3>4, <3>5 DEF LossInv
  <2> QED BY <2>2, <2>3
<1>3. CASE WorkerLoad \/ WorkerConnect \/ WorkerConnectFails \/ WorkerSubscribe
           \/ TakeDelivery \/ RunHandler \/ NoticeLoss \/ SleepThenRetry \/ WorkerRestart
  <2>1. wire' = wire /\ wpc' # "ack"
    BY <1>3 DEF WorkerLoad, WorkerConnect, WorkerConnectFails, WorkerSubscribe, TakeDelivery,
                RunHandler, NoticeLoss, SleepThenRetry, WorkerRestart
  <2> QED BY <1>0, <2>1, QuietKeepsJobs
<1> QED BY <1>1, <1>2, <1>3 DEF WorkerNext

LEMMA LossInit == Init => LossInv
BY DEF Init, LossInv, AcksAreBacked, NextAckIsBacked, JobNotLost, ToSet

LEMMA LossStep == TypeInv /\ LossInv /\ [Next]_vars => LossInv'
<1>1. LossInv /\ UNCHANGED vars => LossInv'
  BY QuietKeepsJobs DEF vars, workerVars, brokerVars
<1>2. LossInv /\ GatewayNext => LossInv'
  BY GatewayFrame, QuietKeepsJobs DEF workerVars, brokerVars
<1> QED BY <1>1, <1>2, BrokerKeepsJobs, FaultKeepsJobs, WorkerKeepsJobs DEF Next

\* A job that entered ml.jobs is pending there until a result of it was
\* published, for every interleaving of losses, kills and redeliveries.
THEOREM NoJobLost == Spec => []JobNotLost
<1>1. LossInv => JobNotLost
  BY DEF LossInv
<1> QED BY TypeInit, TypeStep, LossInit, LossStep, <1>1, PTL DEF Spec

-----------------------------------------------------------------------------
(* The broker holds no job twice.  A job is published for one request only, *)
(* so what is on the gateway's connection has not been queued before; and   *)
(* what is queued or unacknowledged, read as the one sequence the broker    *)
(* keeps, changes only at its end, or by taking an element out.             *)

Held == unacked \o queue

Seen == ToSet(gwire) \cup ToSet(entered)

FreshInv == /\ IsInjective(gwire)
            /\ ToSet(gwire) \cap ToSet(entered) = {}
            /\ \A j \in Seen : request[j] # "new"

HeldInv == /\ ToSet(Held) \subseteq ToSet(entered)
           /\ IsInjective(Held)

OnceInv == FreshInv /\ HeldInv

\* The sequences of the model are sequences of jobs.
LEMMA SequenceTypes ==
  ASSUME TypeInv
  PROVE  /\ gwire \in Seq(Jobs) /\ entered \in Seq(Jobs)
         /\ queue \in Seq(Jobs) /\ unacked \in Seq(Jobs) /\ Held \in Seq(Jobs)
<1>1. /\ gwire \in Seq(Jobs) /\ entered \in Seq(Jobs)
      /\ queue \in Seq(Jobs) /\ unacked \in Seq(Jobs)
  BY DEF TypeInv, GatewayTypeInv, GatewayTypeOK, BrokerTypeOK, WorkerTypeOK
<1> QED BY <1>1 DEF Held

LEMMA SeenJobs == ASSUME TypeInv PROVE Seen \subseteq Jobs
BY SequenceTypes DEF Seen, ToSet

\* No request becomes new again.
LEMMA RequestsAge ==
  ASSUME TypeInv, [Next]_vars, NEW j \in Jobs, request[j] # "new"
  PROVE  request'[j] # "new"
<1> request \in [Jobs -> {"new", "sent", "accepted", "refused", "rejected", "broken"}]
  BY DEF TypeInv, GatewayTypeInv, GatewayTypeOK
<1>1. CASE UNCHANGED request
  BY <1>1
<1>2. CASE GatewayExit
  BY <1>2 DEF GatewayExit
<1>3. ASSUME NEW k \in Jobs, RejectJob(k) \/ PublishJob(k) \/ AcceptJob(k)
      PROVE  request'[j] # "new"
  <2>1. \E answer \in {"rejected", "sent", "refused", "accepted"} :
          request' = [request EXCEPT ![k] = answer]
    BY <1>3 DEF RejectJob, PublishJob, AcceptJob
  <2> QED BY <2>1
<1>4. GatewayNext => UNCHANGED request \/ GatewayExit
                     \/ \E k \in Jobs : RejectJob(k) \/ PublishJob(k) \/ AcceptJob(k)
  BY DEF GatewayNext, GatewayDial, GatewayDialFails, GatewayStore, GatewayStoreFails,
         GatewayRestart, ConsumeResults, ConsumerStep, ConsumeResultsFails
<1>5. WorkerNext => UNCHANGED request
  BY WorkerFrame DEF gatewayVars
<1>6. BrokerNext => UNCHANGED request
  BY DEF BrokerNext, EnqueueJob, Deliver, HandleResult, HandleAck, GatewayEOF, WorkerEOF,
         BrokerStart, gatewayVars
<1>7. FaultNext => UNCHANGED request
  BY DEF FaultNext, CutGateway, BrokerStop, WorkerKilled, CutWorker, gatewayVars
<1>8. UNCHANGED vars => UNCHANGED request
  BY DEF vars, gatewayVars
<1> QED BY <1>1, <1>2, <1>3, <1>4, <1>5, <1>6, <1>7, <1>8 DEF Next

\* Steps that publish and queue nothing keep FreshInv.
LEMMA QuietIsFresh ==
  ASSUME TypeInv, OnceInv, [Next]_vars, gwire' = gwire \/ gwire' = <<>>, UNCHANGED entered
  PROVE  FreshInv'
<1>1. ToSet(gwire') \subseteq ToSet(gwire) /\ IsInjective(gwire')
  BY DEF OnceInv, FreshInv, ToSet, IsInjective
<1>2. Seen' \subseteq Seen /\ Seen \subseteq Jobs
  BY <1>1, SeenJobs DEF Seen
<1>3. \A j \in Seen' : request'[j] # "new"
  BY <1>2, RequestsAge DEF OnceInv, FreshInv
<1> QED BY <1>1, <1>3 DEF OnceInv, FreshInv

\* Steps that keep what the broker holds keep HeldInv.
LEMMA SameHeld ==
  ASSUME OnceInv, Held' = Held, UNCHANGED entered
  PROVE  HeldInv'
BY DEF OnceInv, HeldInv

LEMMA RequeueHolds ==
  ASSUME TypeInv, RequeueUnacked
  PROVE  Held' = Held
<1>1. Held' = <<>> \o Held
  BY DEF RequeueUnacked, Held
<1> QED BY <1>1, SequenceTypes

\* Every step keeps OnceInv.
LEMMA OnceStep == TypeInv /\ OnceInv /\ [Next]_vars => OnceInv'
<1> SUFFICES ASSUME TypeInv, OnceInv, [Next]_vars PROVE OnceInv'
  OBVIOUS
<1>1. ASSUME NEW j \in Jobs, PublishJob(j) PROVE OnceInv'
  <2>1. HeldInv'
    BY <1>1, SameHeld DEF PublishJob, workerVars, brokerVars, Held
  <2>2. CASE gwire' = gwire
    BY <1>1, <2>1, <2>2, QuietIsFresh DEF PublishJob, brokerVars, OnceInv
  <2>3. CASE gwire' = Append(gwire, j)
    <3>1. j \notin Seen /\ request'[j] # "new"
      <4>1. request \in [Jobs -> {"new", "sent", "accepted", "refused", "rejected", "broken"}]
        BY DEF TypeInv, GatewayTypeInv, GatewayTypeOK
      <4> QED BY <1>1, <4>1 DEF PublishJob, OnceInv, FreshInv
    <3>2. ToSet(gwire') = ToSet(gwire) \cup {j} /\ IsInjective(gwire')
      BY <2>3, <3>1, SequenceTypes, ToSetAppend, FreshAppend DEF Seen, OnceInv, FreshInv
    <3>3. UNCHANGED entered
      BY <1>1 DEF PublishJob, brokerVars
    <3>4. Seen' = Seen \cup {j} /\ Seen \subseteq Jobs
      BY <3>2, <3>3, SeenJobs DEF Seen
    <3>5. \A k \in Seen' : request'[k] # "new"
      BY <3>1, <3>4, RequestsAge DEF OnceInv, FreshInv
    <3>6. ToSet(gwire') \cap ToSet(entered') = {}
      BY <3>1, <3>2, <3>3 DEF Seen, OnceInv, FreshInv
    <3> QED BY <2>1, <3>2, <3>5, <3>6 DEF OnceInv, FreshInv
  <2> QED BY <1>1, <2>2, <2>3 DEF PublishJob
<1>2. CASE EnqueueJob
  <2> DEFINE job == Head(gwire)
  <2>1. /\ ToSet(gwire) = ToSet(gwire') \cup {job} /\ job \in Jobs
        /\ IsInjective(gwire') /\ job \notin ToSet(gwire')
    BY <1>2, SequenceTypes, ToSetHeadTail, TailInjective DEF EnqueueJob, OnceInv, FreshInv
  <2>2. /\ entered' = Append(entered, job) /\ queue' = Append(queue, job)
        /\ UNCHANGED unacked
    BY <1>2 DEF EnqueueJob, workerVars
  <2>3. job \notin ToSet(entered)
    BY <2>1 DEF OnceInv, FreshInv
  <2> HIDE DEF job
  <2>4. ToSet(entered') = ToSet(entered) \cup {job}
    BY <2>1, <2>2, SequenceTypes, ToSetAppend
  <2>5. Held' = Append(Held, job)
    BY <2>1, <2>2, SequenceTypes, AppendToBack DEF Held
  <2>6. ToSet(Held') = ToSet(Held) \cup {job} /\ IsInjective(Held')
    BY <2>1, <2>3, <2>5, SequenceTypes, ToSetAppend, FreshAppend DEF OnceInv, HeldInv
  <2>7. HeldInv'
    BY <2>4, <2>6 DEF OnceInv, HeldInv
  <2>8. Seen' = Seen /\ Seen \subseteq Jobs
    BY <2>1, <2>4, SeenJobs DEF Seen
  <2>9. FreshInv'
    <3>1. \A k \in Seen' : request'[k] # "new"
      BY <2>8, RequestsAge DEF OnceInv, FreshInv
    <3> QED BY <2>1, <2>4, <3>1 DEF OnceInv, FreshInv
  <2> QED BY <2>7, <2>9 DEF OnceInv
<1>3. CASE Deliver
  <2>1. FreshInv'
    BY <1>3, QuietIsFresh DEF Deliver, gatewayVars
  <2>2. Held' = Held
    BY <1>3, SequenceTypes, MoveBoundary DEF Deliver, Held
  <2> QED BY <1>3, <2>1, <2>2, SameHeld DEF Deliver, OnceInv
<1>4. CASE HandleAck
  <2>1. FreshInv' /\ UNCHANGED <<entered, queue>>
    BY <1>4, QuietIsFresh DEF HandleAck, gatewayVars, brokerVars
  <2>2. PICK i \in 1..Len(unacked) : unacked' = RemoveAt(unacked, i)
    BY <1>4 DEF HandleAck
  <2>3. i \in 1..Len(Held) /\ Held' = RemoveAt(Held, i)
    BY <2>1, <2>2, SequenceTypes, RemoveFromFront DEF Held
  <2>4. ToSet(Held') \subseteq ToSet(Held) /\ IsInjective(Held')
    BY <2>3, SequenceTypes, RemoveAtElements DEF OnceInv, HeldInv
  <2> QED BY <2>1, <2>4 DEF OnceInv, HeldInv
<1>5. CASE WorkerEOF \/ BrokerStop \/ \E how \in {"cut", "channel_closed"} : CutWorker(how)
  <2>1. RequeueUnacked /\ UNCHANGED entered /\ (gwire' = gwire \/ gwire' = <<>>)
    BY <1>5 DEF WorkerEOF, BrokerStop, CutWorker, DropGatewayLink, gatewayVars
  <2> QED BY <2>1, QuietIsFresh, RequeueHolds, SameHeld DEF OnceInv
<1>6. CASE HandleResult \/ GatewayEOF \/ BrokerStart \/ CutGateway \/ WorkerKilled
  <2>1. UNCHANGED <<entered, queue, unacked>> /\ (gwire' = gwire \/ gwire' = <<>>)
    BY <1>6 DEF HandleResult, GatewayEOF, BrokerStart, CutGateway, WorkerKilled,
                DropGatewayLink, gatewayVars, workerVars, brokerVars
  <2> QED BY <2>1, QuietIsFresh, SameHeld DEF OnceInv, Held
<1>7. CASE WorkerNext \/ UNCHANGED vars
  <2>1. UNCHANGED <<entered, queue, unacked, gwire>>
    BY <1>7, WorkerFrame DEF gatewayVars, workerVars, brokerVars, vars
  <2> QED BY <2>1, QuietIsFresh, SameHeld DEF OnceInv, Held
<1>8. ASSUME GatewayNext, ~\E j \in Jobs : PublishJob(j) PROVE OnceInv'
  <2>1. UNCHANGED <<entered, queue, unacked>>
    BY <1>8, GatewayFrame DEF workerVars, brokerVars
  <2>2. UNCHANGED gwire
    BY <1>8 DEF GatewayNext, GatewayDial, GatewayDialFails, GatewayStore, GatewayStoreFails,
                GatewayRestart, ConsumeResults, ConsumerStep, ConsumeResultsFails, RejectJob,
                AcceptJob
  <2> QED BY <2>1, <2>2, QuietIsFresh, SameHeld DEF OnceInv, Held
<1> QED BY <1>1, <1>2, <1>3, <1>4, <1>5, <1>6, <1>7, <1>8 DEF Next, BrokerNext, FaultNext

LEMMA OnceInit == Init => OnceInv
BY DEF Init, OnceInv, FreshInv, HeldInv, Held, Seen, ToSet, IsInjective

\* The broker holds each job once, ready or unacknowledged, through every
\* redelivery, reconnection and crash.
THEOREM BrokerHoldsOnce == Spec => []HeldOnce
<1>1. OnceInv => HeldOnce
  BY DEF OnceInv, HeldInv, Held, HeldOnce
<1> QED BY TypeInit, TypeStep, OnceInit, OnceStep, <1>1, PTL DEF Spec
-----------------------------------------------------------------------------
(* What the worker's connection has to do with what the broker waits for.  *)
(* Until one of the two drops it, the unacknowledged deliveries are, in    *)
(* this order: those whose acknowledgement is on the wire, the one under   *)
(* work and those the client holds.  The p-th of them has its result and   *)
(* its acknowledgement side by side on the wire, from place 2p - 1 on; one *)
(* place earlier when the result of the first was handled already.         *)

Offset == IF wire # <<>> /\ wire[1].kind = "ack" THEN 1 ELSE 0
Busy == IF wpc \in {"handle", "publish", "ack"} THEN 1 ELSE 0

\* A connection that was dropped or closed carries nothing and is owed nothing.
LinkInv ==
  /\ ~Linked => wire = <<>> /\ unacked = <<>>
  /\ Linked => wpc \in {"declare", "consume", "handle", "publish", "ack", "dead"}

Framed(i, p) ==
  /\ wire[i].job = unacked[p]
  /\ \/ wire[i].kind = "result" /\ i + Offset + 1 = 2 * p
     \/ wire[i].kind = "ack" /\ i + Offset = 2 * p

WireInv == \A i \in 1..Len(wire) : \E p \in 1..Len(unacked) : Framed(i, p)

\* a deliveries have their acknowledgement on the wire.
Answered(a) ==
  /\ Len(unacked) = a + Busy + Len(inbox)
  /\ Busy = 1 => unacked[a + 1] = current.job
  /\ \A k \in 1..Len(inbox) : unacked[a + Busy + k] = inbox[k]
  /\ \/ wpc # "ack" /\ Len(wire) + Offset = 2 * a
     \/ wpc = "ack" /\ wire = <<>> /\ a = 0
     \/ wpc = "ack" /\ wire # <<>> /\ Len(wire) + Offset = 2 * a + 1

ClientInv == Linked /\ wpc # "dead" => \E a \in 0..Len(unacked) : Answered(a)

DeliveryInv == LinkInv /\ WireInv /\ ClientInv

LEMMA DeliveryTypes ==
  ASSUME TypeInv
  PROVE  /\ wire \in Seq(Frames) /\ Len(wire) \in Nat
         /\ unacked \in Seq(Jobs) /\ Len(unacked) \in Nat
         /\ inbox \in Seq(Jobs) /\ Len(inbox) \in Nat
         /\ queue \in Seq(Jobs) /\ Len(queue) \in Nat
         /\ \A i \in 1..Len(wire) : wire[i] \in Frames
         /\ Offset \in {0, 1} /\ Busy \in {0, 1}
<1>1. wire \in Seq(Frames) /\ unacked \in Seq(Jobs) /\ inbox \in Seq(Jobs) /\ queue \in Seq(Jobs)
  BY DEF TypeInv, WorkerTypeOK, BrokerTypeOK
<1>2. Offset \in {0, 1} /\ Busy \in {0, 1}
  BY DEF Offset, Busy
<1> QED BY <1>1, <1>2

LEMMA FrameKinds == \A f \in Frames : f.kind \in {"result", "ack"} /\ f.job \in Jobs
BY DEF Frames

\* The connection is not looked at.
LEMMA SameDeliveries ==
  ASSUME DeliveryInv, UNCHANGED <<wpc, conn, inbox, current, wire, unacked>>
  PROVE  DeliveryInv'
<1>1. Offset' = Offset /\ Busy' = Busy /\ (Linked' <=> Linked)
  BY DEF Offset, Busy, Linked
<1>2. LinkInv'
  BY <1>1 DEF DeliveryInv, LinkInv
<1>3. WireInv'
  BY <1>1 DEF DeliveryInv, WireInv, Framed
<1>4. ClientInv'
  BY <1>1 DEF DeliveryInv, ClientInv, Answered
<1> QED BY <1>2, <1>3, <1>4 DEF DeliveryInv

\* Nothing is left of a connection that is dropped.
LEMMA DroppedDeliveries ==
  ASSUME ~Linked', wire' = <<>>, unacked' = <<>>
  PROVE  DeliveryInv'
BY DEF DeliveryInv, LinkInv, WireInv, ClientInv

\* The first frame on the wire concerns the first delivery.
LEMMA FirstFrame ==
  ASSUME TypeInv, WireInv, wire # <<>>
  PROVE  /\ 1 \in 1..Len(wire) /\ Head(wire) = wire[1] /\ unacked # <<>>
         /\ wire[1].job = unacked[1]
         /\ wire[1].kind = "ack" => Offset = 1
         /\ wire[1].kind = "result" => Offset = 0
<1>1. 1 \in 1..Len(wire) /\ Head(wire) = wire[1]
  BY DeliveryTypes
<1>2. PICK p \in 1..Len(unacked) : Framed(1, p)
  BY <1>1 DEF WireInv
<1>3. /\ wire[1].kind = "ack" => Offset = 1
      /\ wire[1].kind = "result" => Offset = 0
  BY DEF Offset
<1>4. p = 1
  BY <1>2, <1>3, DeliveryTypes DEF Framed
<1>5. unacked # <<>>
  BY <1>4, DeliveryTypes
<1> QED BY <1>1, <1>2, <1>3, <1>4, <1>5 DEF Framed

\* A result that was handled leaves the acknowledgement of the same delivery first.
LEMMA ResultIsHandled ==
  ASSUME TypeInv, DeliveryInv, HandleResult
  PROVE  DeliveryInv'
<1>1. /\ wire # <<>> /\ Head(wire).kind = "result" /\ wire' = Tail(wire)
      /\ UNCHANGED <<wpc, conn, inbox, current, unacked>>
  BY DEF HandleResult
<1>2. /\ Offset = 0 /\ Len(wire) \in Nat \ {0} /\ Len(wire') = Len(wire) - 1
      /\ \A i \in 1..(Len(wire) - 1) : wire'[i] = wire[i + 1]
  BY <1>1, DeliveryTypes, FirstFrame, TailPlaces DEF DeliveryInv
<1>3. /\ \A i \in 1..(Len(wire) - 1) : i + 1 \in 1..Len(wire)
      /\ Len(wire) = 1 => wire' = <<>>
  <2>1. wire' \in Seq(Frames)
    BY <1>1, DeliveryTypes, TailPlaces
  <2> QED BY <1>2, <2>1
<1>4. Offset' = IF Len(wire) = 1 THEN 0 ELSE 1
  <2>1. CASE Len(wire) = 1
    <3> QED BY <1>3, <2>1 DEF Offset
  <2>2. CASE Len(wire) # 1
    <3>1. 2 \in 1..Len(wire) /\ 1 \in 1..(Len(wire) - 1) /\ wire' # <<>>
      BY <1>2, <2>2
    <3>2. PICK p \in 1..Len(unacked) : Framed(2, p)
      BY <3>1 DEF DeliveryInv, WireInv
    <3>3. wire[2].kind = "ack"
      BY <1>2, <3>1, <3>2, DeliveryTypes DEF Framed
    <3>4. wire'[1] = wire[2]
      BY <1>2, <3>1
    <3> QED BY <2>2, <3>1, <3>3, <3>4 DEF Offset
  <2> QED BY <2>1, <2>2
<1>5. WireInv'
  <2> SUFFICES ASSUME NEW i \in 1..(Len(wire) - 1)
               PROVE  \E p \in 1..Len(unacked) : Framed(i, p)'
    BY <1>1, <1>2 DEF WireInv
  <2>1. PICK p \in 1..Len(unacked) : Framed(i + 1, p)
    BY <1>3 DEF DeliveryInv, WireInv
  <2>2. Offset' = 1
    BY <1>2, <1>4
  <2>3. Framed(i, p)'
    BY <1>1, <1>2, <2>1, <2>2 DEF Framed
  <2> QED BY <2>3
<1>6. ClientInv'
  <2> SUFFICES ASSUME Linked, wpc # "dead"
               PROVE  \E a \in 0..Len(unacked) : Answered(a)'
    BY <1>1 DEF ClientInv, Linked
  <2>1. PICK a \in 0..Len(unacked) : Answered(a)
    BY DEF DeliveryInv, ClientInv
  <2>2. Busy' = Busy
    BY <1>1 DEF Busy
  <2>3. /\ Len(unacked) = a + Busy + Len(inbox)
        /\ Busy = 1 => unacked[a + 1] = current.job
        /\ \A k \in 1..Len(inbox) : unacked[a + Busy + k] = inbox[k]
        /\ \/ wpc # "ack" /\ Len(wire) + Offset = 2 * a
           \/ wpc = "ack" /\ wire = <<>> /\ a = 0
           \/ wpc = "ack" /\ wire # <<>> /\ Len(wire) + Offset = 2 * a + 1
    BY <2>1, Zenon DEF Answered
  <2>4. \/ wpc # "ack" /\ Len(wire') + Offset' = 2 * a
        \/ wpc = "ack" /\ wire' = <<>> /\ a = 0
        \/ wpc = "ack" /\ wire' # <<>> /\ Len(wire') + Offset' = 2 * a + 1
    <3>1. \/ wpc # "ack" /\ Len(wire) = 2 * a
          \/ wpc = "ack" /\ Len(wire) = 2 * a + 1
      <4>1. Len(wire) + Offset = Len(wire)
        BY <1>2
      <4> QED BY <1>1, <2>3, <4>1
    <3>2. CASE Len(wire) = 1
      <4>1. a = 0 /\ wpc = "ack"
        BY <3>1, <3>2
      <4> QED BY <1>3, <3>2, <4>1
    <3>3. CASE Len(wire) # 1
      <4>1. wire' # <<>> /\ Len(wire') + Offset' = Len(wire)
        BY <1>2, <1>4, <3>3
      <4> QED BY <3>1, <4>1
    <3> QED BY <3>2, <3>3
  <2>5. Answered(a)'
    BY <1>1, <2>2, <2>3, <2>4 DEF Answered
  <2> QED BY <2>5
<1>7. LinkInv'
  BY <1>1, FirstFrame DEF DeliveryInv, LinkInv, Linked
<1> QED BY <1>5, <1>6, <1>7 DEF DeliveryInv

\* Acknowledgements are handled in the order of the deliveries.
LEMMA AckTakesFirst ==
  ASSUME TypeInv, OnceInv, WireInv, HandleAck
  PROVE  /\ wire # <<>> /\ wire[1].kind = "ack" /\ wire' = Tail(wire)
         /\ unacked # <<>> /\ unacked' = Tail(unacked) /\ wire[1].job = unacked[1]
<1>1. wire # <<>> /\ Head(wire).kind = "ack" /\ wire' = Tail(wire)
  BY DEF HandleAck
<1>2. /\ Head(wire) = wire[1] /\ unacked # <<>> /\ wire[1].job = unacked[1]
      /\ unacked \in Seq(Jobs) /\ 1 \in 1..Len(unacked)
  BY <1>1, FirstFrame, DeliveryTypes
<1>3. PICK i \in 1..Len(unacked) : unacked[i] = Head(wire).job /\ unacked' = RemoveAt(unacked, i)
  BY DEF HandleAck
<1>4. i = 1
  <2>1. Held \in Seq(Jobs) /\ Len(Held) \in Nat /\ IsInjective(Held)
    BY SequenceTypes DEF OnceInv, HeldInv
  <2>2. \A k \in 1..Len(unacked) : k \in 1..Len(Held) /\ Held[k] = unacked[k]
    BY DeliveryTypes, ConcatFacts DEF Held
  <2>3. Held[i] = Held[1]
    BY <1>2, <1>3, <2>2
  <2> QED BY <1>2, <2>1, <2>2, <2>3 DEF IsInjective
<1> QED BY <1>1, <1>2, <1>3, <1>4, RemoveAtHead

LEMMA AckIsHandled ==
  ASSUME TypeInv, OnceInv, DeliveryInv, HandleAck
  PROVE  DeliveryInv'
<1>1. /\ wire # <<>> /\ wire[1].kind = "ack" /\ wire' = Tail(wire)
      /\ unacked # <<>> /\ unacked' = Tail(unacked)
      /\ UNCHANGED <<wpc, conn, inbox, current>>
  BY AckTakesFirst DEF HandleAck, DeliveryInv
<1>2. /\ Offset = 1 /\ Len(wire) \in Nat \ {0} /\ Len(wire') = Len(wire) - 1
      /\ \A i \in 1..(Len(wire) - 1) : wire'[i] = wire[i + 1]
      /\ Len(unacked) \in Nat \ {0} /\ Len(unacked') = Len(unacked) - 1
      /\ \A i \in 1..(Len(unacked) - 1) : unacked'[i] = unacked[i + 1]
  BY <1>1, DeliveryTypes, TailPlaces DEF Offset
<1>3. /\ \A i \in 1..(Len(wire) - 1) : i + 1 \in 1..Len(wire)
      /\ Len(wire) = 1 => wire' = <<>>
      /\ Len(wire) # 1 => wire' # <<>>
  <2>1. wire' \in Seq(Frames)
    BY <1>1, DeliveryTypes, TailPlaces
  <2> QED BY <1>2, <2>1
<1>4. Offset' = 0
  <2>1. CASE Len(wire) = 1
    BY <1>3, <2>1 DEF Offset
  <2>2. CASE Len(wire) # 1
    <3>1. 2 \in 1..Len(wire) /\ 1 \in 1..(Len(wire) - 1)
      BY <1>2, <2>2
    <3>2. PICK p \in 1..Len(unacked) : Framed(2, p)
      BY <3>1 DEF DeliveryInv, WireInv
    <3>3. wire[2].kind = "result"
      BY <1>2, <3>1, <3>2, DeliveryTypes DEF Framed
    <3>4. wire'[1] = wire[2]
      BY <1>2, <3>1
    <3> QED BY <3>1, <3>3, <3>4 DEF Offset
  <2> QED BY <2>1, <2>2
<1>5. WireInv'
  <2> SUFFICES ASSUME NEW i \in 1..(Len(wire) - 1)
               PROVE  \E p \in 1..(Len(unacked) - 1) : Framed(i, p)'
    BY <1>1, <1>2 DEF WireInv
  <2>1. PICK p \in 1..Len(unacked) : Framed(i + 1, p)
    BY <1>3 DEF DeliveryInv, WireInv
  <2>2. p - 1 \in 1..(Len(unacked) - 1) /\ unacked'[p - 1] = unacked[p]
    <3>1. p # 1
      BY <1>2, <2>1 DEF Framed
    <3>2. p - 1 \in 1..(Len(unacked) - 1) /\ (p - 1) + 1 = p
      BY <1>2, <3>1
    <3> QED BY <1>2, <3>2
  <2>3. Framed(i, p - 1)'
    BY <1>2, <1>4, <2>1, <2>2 DEF Framed
  <2> QED BY <2>2, <2>3
<1>6. ClientInv'
  <2> SUFFICES ASSUME Linked, wpc # "dead"
               PROVE  \E a \in 0..(Len(unacked) - 1) : Answered(a)'
    BY <1>1, <1>2 DEF ClientInv, Linked
  <2>1. PICK a \in 0..Len(unacked) : Answered(a)
    BY DEF DeliveryInv, ClientInv
  <2>2. Busy' = Busy /\ Busy \in {0, 1} /\ Len(inbox) \in Nat
    BY <1>1, DeliveryTypes DEF Busy
  <2>3. /\ Len(unacked) = a + Busy + Len(inbox)
        /\ Busy = 1 => unacked[a + 1] = current.job
        /\ \A k \in 1..Len(inbox) : unacked[a + Busy + k] = inbox[k]
        /\ \/ wpc # "ack" /\ Len(wire) + Offset = 2 * a
           \/ wpc = "ack" /\ wire = <<>> /\ a = 0
           \/ wpc = "ack" /\ wire # <<>> /\ Len(wire) + Offset = 2 * a + 1
    BY <2>1, Zenon DEF Answered
  <2>4. \/ wpc # "ack" /\ Len(wire) + 1 = 2 * a
        \/ wpc = "ack" /\ Len(wire) + 1 = 2 * a + 1
    BY <1>1, <1>2, <2>3
  <2>5. a - 1 \in 0..(Len(unacked) - 1)
    BY <1>2, <2>4
  <2>6. /\ Len(unacked') = (a - 1) + Busy + Len(inbox)
        /\ Busy = 1 => unacked'[(a - 1) + 1] = current.job
        /\ \A k \in 1..Len(inbox) : unacked'[(a - 1) + Busy + k] = inbox[k]
    <3>1. Len(unacked') = (a - 1) + Busy + Len(inbox)
      BY <1>2, <2>2, <2>3, <2>5
    <3>2. ASSUME Busy = 1 PROVE unacked'[(a - 1) + 1] = current.job
      <4>1. (a - 1) + 1 \in 1..(Len(unacked) - 1) /\ ((a - 1) + 1) + 1 = a + 1
        BY <1>2, <2>2, <2>3, <2>5, <3>2
      <4> QED BY <1>2, <2>3, <3>2, <4>1
    <3>3. ASSUME NEW k \in 1..Len(inbox) PROVE unacked'[(a - 1) + Busy + k] = inbox[k]
      <4>1. /\ (a - 1) + Busy + k \in 1..(Len(unacked) - 1)
            /\ ((a - 1) + Busy + k) + 1 = a + Busy + k
        BY <1>2, <2>2, <2>3, <2>5
      <4> QED BY <1>2, <2>3, <4>1
    <3> QED BY <3>1, <3>2, <3>3
  <2>7. \/ wpc # "ack" /\ Len(wire') + Offset' = 2 * (a - 1)
        \/ wpc = "ack" /\ wire' # <<>> /\ Len(wire') + Offset' = 2 * (a - 1) + 1
    <3>0. Len(wire') + Offset' = Len(wire) - 1 /\ Len(wire) \in Nat
      BY <1>2, <1>4
    <3>1. CASE wpc # "ack"
      <4>1. Len(wire) + 1 = 2 * a
        BY <2>4, <3>1
      <4>2. Len(wire) - 1 = 2 * (a - 1)
        BY <3>0, <4>1
      <4> QED BY <1>1, <3>0, <3>1, <4>2
    <3>2. CASE wpc = "ack"
      <4>1. Len(wire) + 1 = 2 * a + 1
        BY <2>4, <3>2
      <4>2. a \in Nat /\ 2 * a # 1
        BY <1>2
      <4>3. Len(wire) = 2 * a
        BY <3>0, <4>1, <4>2
      <4>4. Len(wire) - 1 = 2 * (a - 1) + 1 /\ Len(wire) # 1
        BY <4>2, <4>3
      <4> QED BY <1>1, <1>3, <3>0, <3>2, <4>4
    <3> QED BY <3>1, <3>2
  <2>8. Answered(a - 1)'
    BY <1>1, <2>2, <2>6, <2>7, Zenon DEF Answered
  <2> QED BY <2>5, <2>8
<1>7. LinkInv'
  BY <1>1 DEF DeliveryInv, LinkInv, Linked
<1> QED BY <1>5, <1>6, <1>7 DEF DeliveryInv

LEMMA DeliveryIsSent ==
  ASSUME TypeInv, DeliveryInv, Deliver
  PROVE  DeliveryInv'
<1> DEFINE j == Head(queue)
<1>1. /\ conn = "consuming" /\ queue # <<>>
      /\ unacked' = Append(unacked, j) /\ inbox' = Append(inbox, j)
      /\ UNCHANGED <<wpc, conn, current, wire>>
  BY DEF Deliver
<1>2. j \in Jobs
  BY <1>1, DeliveryTypes, TailPlaces
<1> HIDE DEF j
<1>3. /\ Len(unacked') = Len(unacked) + 1 /\ unacked'[Len(unacked) + 1] = j
      /\ \A i \in 1..Len(unacked) : unacked'[i] = unacked[i]
      /\ Len(inbox') = Len(inbox) + 1 /\ inbox'[Len(inbox) + 1] = j
      /\ \A i \in 1..Len(inbox) : inbox'[i] = inbox[i]
      /\ Len(unacked) \in Nat /\ Len(inbox) \in Nat /\ Busy \in {0, 1}
  BY <1>1, <1>2, DeliveryTypes, AppendPlaces
<1>4. Offset' = Offset /\ Busy' = Busy /\ (Linked' <=> Linked)
  BY <1>1 DEF Offset, Busy, Linked
<1>5. LinkInv'
  BY <1>1, <1>4 DEF DeliveryInv, LinkInv, Linked
<1>6. WireInv'
  <2> SUFFICES ASSUME NEW i \in 1..Len(wire)
               PROVE  \E p \in 1..(Len(unacked) + 1) : Framed(i, p)'
    BY <1>1, <1>3 DEF WireInv
  <2>1. PICK p \in 1..Len(unacked) : Framed(i, p)
    BY DEF DeliveryInv, WireInv
  <2>2. p \in 1..(Len(unacked) + 1) /\ Framed(i, p)'
    BY <1>1, <1>3, <1>4, <2>1 DEF Framed
  <2> QED BY <2>2
<1>7. ClientInv'
  <2> SUFFICES ASSUME Linked, wpc # "dead"
               PROVE  \E a \in 0..(Len(unacked) + 1) : Answered(a)'
    BY <1>1, <1>3, <1>4 DEF ClientInv
  <2>1. PICK a \in 0..Len(unacked) : Answered(a)
    BY DEF DeliveryInv, ClientInv
  <2>2. /\ Len(unacked) = a + Busy + Len(inbox)
        /\ Busy = 1 => unacked[a + 1] = current.job
        /\ \A k \in 1..Len(inbox) : unacked[a + Busy + k] = inbox[k]
        /\ \/ wpc # "ack" /\ Len(wire) + Offset = 2 * a
           \/ wpc = "ack" /\ wire = <<>> /\ a = 0
           \/ wpc = "ack" /\ wire # <<>> /\ Len(wire) + Offset = 2 * a + 1
    BY <2>1, Zenon DEF Answered
  <2>3. Busy = 1 => unacked'[a + 1] = current.job
    <3>1. Busy = 1 => a + 1 \in 1..Len(unacked)
      BY <1>3, <2>2
    <3> QED BY <1>3, <2>2, <3>1
  <2>4. ASSUME NEW k \in 1..(Len(inbox) + 1) PROVE unacked'[a + Busy + k] = inbox'[k]
    <3>1. CASE k = Len(inbox) + 1
      BY <1>3, <2>2, <3>1
    <3>2. CASE k # Len(inbox) + 1
      <4>1. k \in 1..Len(inbox) /\ a + Busy + k \in 1..Len(unacked)
        BY <1>3, <2>2, <3>2
      <4> QED BY <1>3, <2>2, <4>1
    <3> QED BY <3>1, <3>2
  <2>5. Len(unacked') = a + Busy + Len(inbox')
    BY <1>3, <2>2
  <2>6. \A k \in 1..Len(inbox') : unacked'[a + Busy + k] = inbox'[k]
    BY <1>3, <2>4
  <2>7. Answered(a)'
    BY <1>1, <1>4, <2>2, <2>3, <2>5, <2>6, Zenon DEF Answered
  <2>8. a \in 0..(Len(unacked) + 1)
    BY <1>3
  <2> QED BY <2>7, <2>8
<1> QED BY <1>5, <1>6, <1>7 DEF DeliveryInv

\* A connection that is gone stays gone, whatever the worker does.
LEMMA GoneDeliveries ==
  ASSUME DeliveryInv, ~Linked, ~Linked', UNCHANGED <<wire, unacked>>
  PROVE  DeliveryInv'
BY DroppedDeliveries DEF DeliveryInv, LinkInv

LEMMA WireStays ==
  ASSUME DeliveryInv, UNCHANGED <<wire, unacked>>
  PROVE  WireInv' /\ Offset' = Offset
<1>1. Offset' = Offset
  BY DEF Offset
<1> QED BY <1>1 DEF DeliveryInv, WireInv, Framed

\* What Answered says, its four parts one by one.
LEMMA AnsweredParts ==
  ASSUME DeliveryInv, Linked, wpc # "dead"
  PROVE  \E a \in 0..Len(unacked) :
           /\ Answered(a)
           /\ Len(unacked) = a + Busy + Len(inbox)
           /\ Busy = 1 => unacked[a + 1] = current.job
           /\ \A k \in 1..Len(inbox) : unacked[a + Busy + k] = inbox[k]
           /\ wpc # "ack" => Len(wire) + Offset = 2 * a
           /\ wpc = "ack" /\ wire = <<>> => a = 0
           /\ wpc = "ack" /\ wire # <<>> => Len(wire) + Offset = 2 * a + 1
<1>1. PICK a \in 0..Len(unacked) : Answered(a)
  BY DEF DeliveryInv, ClientInv
<1> WITNESS a \in 0..Len(unacked)
<1> QED BY <1>1, Zenon DEF Answered

\* A new connection owes nothing; a new consumer has got nothing yet.
LEMMA ConnectionIsMade ==
  ASSUME TypeInv, DeliveryInv, WorkerConnect \/ WorkerSubscribe
  PROVE  DeliveryInv'
<1>1. WireInv' /\ Offset' = Offset
  BY WireStays DEF WorkerConnect, WorkerSubscribe
<1>2. LinkInv'
  BY DEF WorkerConnect, WorkerSubscribe, DeliveryInv, LinkInv, Linked
<1>3. CASE WorkerConnect
  <2>1. /\ wire' = <<>> /\ unacked' = <<>> /\ inbox' = <<>> /\ wpc' = "declare"
    BY <1>3 DEF WorkerConnect, DeliveryInv, LinkInv, Linked
  <2>2. Offset' = 0 /\ Busy' = 0
    BY <2>1 DEF Offset, Busy
  <2>3. Answered(0)'
    BY <2>1, <2>2 DEF Answered
  <2>4. 0 \in 0..Len(unacked')
    BY <2>1
  <2> QED BY <1>1, <1>2, <2>3, <2>4 DEF DeliveryInv, ClientInv
<1>4. CASE WorkerSubscribe
  <2>1. /\ wpc = "declare" /\ conn = "open" /\ wpc' = "consume"
        /\ UNCHANGED <<inbox, current, wire, unacked>>
    BY <1>4 DEF WorkerSubscribe
  <2>2. PICK a \in 0..Len(unacked) : Answered(a)
    BY <2>1 DEF DeliveryInv, ClientInv, Linked
  <2>3. Busy' = Busy
    BY <2>1 DEF Busy
  <2>4. Answered(a)'
    BY <1>1, <2>1, <2>2, <2>3 DEF Answered
  <2> QED BY <1>1, <1>2, <2>1, <2>4 DEF DeliveryInv, ClientInv
<1> QED BY <1>3, <1>4

\* The delivery that is taken is the first that is not answered yet.
LEMMA DeliveryIsTaken ==
  ASSUME TypeInv, DeliveryInv, TakeDelivery
  PROVE  DeliveryInv'
<1>1. /\ wpc = "consume" /\ inbox # <<>> /\ wpc' = "handle"
      /\ current'.job = Head(inbox) /\ inbox' = Tail(inbox)
      /\ UNCHANGED <<conn, wire, unacked>>
  BY DEF TakeDelivery
<1>2. CASE ~Linked
  BY <1>1, <1>2, GoneDeliveries DEF Linked
<1>3. CASE Linked
  <2>1. WireInv' /\ Offset' = Offset
    BY <1>1, WireStays
  <2>2. LinkInv'
    BY <1>1, <1>3 DEF DeliveryInv, LinkInv, Linked
  <2>3. Busy = 0 /\ Busy' = 1
    BY <1>1 DEF Busy
  <2>4. PICK a \in 0..Len(unacked) :
          /\ Len(unacked) = a + Busy + Len(inbox)
          /\ \A k \in 1..Len(inbox) : unacked[a + Busy + k] = inbox[k]
          /\ wpc # "ack" => Len(wire) + Offset = 2 * a
    BY <1>1, <1>3, AnsweredParts
  <2>5. /\ Len(inbox) \in Nat \ {0} /\ Len(inbox') = Len(inbox) - 1 /\ Head(inbox) = inbox[1]
        /\ \A k \in 1..(Len(inbox) - 1) : inbox'[k] = inbox[k + 1]
    BY <1>1, DeliveryTypes, TailPlaces
  <2>6. a \in Nat
    BY DeliveryTypes
  <2>7. Len(unacked') = a + Busy' + Len(inbox')
    BY <1>1, <2>3, <2>4, <2>5, <2>6
  <2>8. unacked'[a + 1] = current'.job
    <3>1. 1 \in 1..Len(inbox) /\ a + 0 + 1 = a + 1
      BY <2>5, <2>6
    <3> QED BY <1>1, <2>3, <2>4, <2>5, <3>1
  <2>9. ASSUME NEW k \in 1..Len(inbox') PROVE unacked'[a + Busy' + k] = inbox'[k]
    <3>1. /\ k + 1 \in 1..Len(inbox) /\ k \in 1..(Len(inbox) - 1)
          /\ a + 0 + (k + 1) = a + 1 + k
      BY <2>5, <2>6
    <3> QED BY <1>1, <2>3, <2>4, <2>5, <3>1
  <2>10. wpc' # "ack" /\ Len(wire') + Offset' = 2 * a
    BY <1>1, <2>1, <2>4
  <2>11. Answered(a)'
    BY <2>7, <2>8, <2>9, <2>10, Zenon DEF Answered
  <2> QED BY <1>1, <2>1, <2>2, <2>11 DEF DeliveryInv, ClientInv
<1> QED BY <1>2, <1>3

LEMMA HandlerIsRun ==
  ASSUME TypeInv, DeliveryInv, RunHandler
  PROVE  DeliveryInv'
<1>1. /\ wpc = "handle" /\ wpc' = "publish"
      /\ UNCHANGED <<conn, inbox, wire, unacked>>
      /\ \E s \in Outcomes(current.job) : current' = [current EXCEPT !.status = s]
  BY DEF RunHandler
<1>2. current'.job = current.job
  BY <1>1 DEF TypeInv, WorkerTypeOK, Deliveries
<1>3. CASE ~Linked
  BY <1>1, <1>3, GoneDeliveries DEF Linked
<1>4. CASE Linked
  <2>1. WireInv' /\ Offset' = Offset /\ Busy' = Busy
    BY <1>1, WireStays DEF Busy
  <2>2. LinkInv'
    BY <1>1, <1>4 DEF DeliveryInv, LinkInv, Linked
  <2>3. PICK a \in 0..Len(unacked) : Answered(a)
    BY <1>1, <1>4 DEF DeliveryInv, ClientInv
  <2>4. Answered(a)'
    BY <1>1, <1>2, <2>1, <2>3 DEF Answered
  <2> QED BY <1>1, <2>1, <2>2, <2>4 DEF DeliveryInv, ClientInv
<1> QED BY <1>3, <1>4

\* A frame that is written behind others moves none of them.
LEMMA FrameIsWritten ==
  ASSUME TypeInv, DeliveryInv, NEW f \in Frames, wire' = Append(wire, f), UNCHANGED unacked
  PROVE  /\ Len(wire) \in Nat /\ Len(wire') = Len(wire) + 1 /\ wire' # <<>>
         /\ wire'[Len(wire) + 1] = f
         /\ wire # <<>> => Offset' = Offset
         /\ wire = <<>> => Offset = 0 /\ Offset' = IF f.kind = "ack" THEN 1 ELSE 0
         /\ \A n \in Nat, p \in 1..Len(unacked) : n = Len(wire) + 1 /\ Framed(n, p)' => WireInv'
<1>1. /\ wire' \in Seq(Frames) /\ Len(wire) \in Nat /\ Len(wire') = Len(wire) + 1
      /\ wire'[Len(wire) + 1] = f
      /\ \A i \in 1..Len(wire) : wire'[i] = wire[i]
  BY DeliveryTypes, AppendPlaces
<1>2. wire' # <<>>
  BY <1>1
<1>3. ASSUME wire # <<>> PROVE Offset' = Offset
  <2>1. 1 \in 1..Len(wire)
    BY <1>3, DeliveryTypes
  <2> QED BY <1>1, <1>2, <1>3, <2>1 DEF Offset
<1>4. ASSUME wire = <<>> PROVE Offset = 0 /\ Offset' = IF f.kind = "ack" THEN 1 ELSE 0
  <2>1. wire'[1] = f
    BY <1>1, <1>4
  <2> QED BY <1>2, <1>4, <2>1 DEF Offset
<1>5. ASSUME NEW n \in Nat, NEW p \in 1..Len(unacked), n = Len(wire) + 1, Framed(n, p)'
      PROVE  WireInv'
  <2> SUFFICES ASSUME NEW i \in 1..(Len(wire) + 1)
               PROVE  \E q \in 1..Len(unacked) : Framed(i, q)'
    BY <1>1 DEF WireInv
  <2>1. CASE i = n
    BY <1>5, <2>1
  <2>2. CASE i # n
    <3>1. i \in 1..Len(wire) /\ wire # <<>>
      BY <1>1, <1>5, <2>2
    <3>2. PICK q \in 1..Len(unacked) : Framed(i, q)
      BY <3>1 DEF DeliveryInv, WireInv
    <3>3. Framed(i, q)'
      BY <1>1, <1>3, <3>1, <3>2 DEF Framed
    <3> QED BY <3>3
  <2> QED BY <2>1, <2>2
<1> QED BY <1>1, <1>2, <1>3, <1>4, <1>5

\* The result is written at the place its delivery has.
LEMMA ResultIsWritten ==
  ASSUME TypeInv, DeliveryInv, PublishResult
  PROVE  DeliveryInv'
<1> DEFINE f == ResultFrame(current)
<1>1. /\ wpc = "publish" /\ wpc' = "ack"
      /\ UNCHANGED <<conn, inbox, current, unacked>>
      /\ wire' = IF Linked THEN Append(wire, f) ELSE wire
  BY DEF PublishResult, WriteFrame
<1>2. CASE ~Linked
  BY <1>1, <1>2, GoneDeliveries DEF Linked
<1>3. CASE Linked
  <2>1. f \in Frames /\ f.kind = "result" /\ f.job = current.job
    BY <1>1, CurrentFrames DEF TypeInv, ResultFrame
  <2> HIDE DEF f
  <2>2. /\ Len(wire) \in Nat /\ Len(wire') = Len(wire) + 1 /\ wire' # <<>>
        /\ wire'[Len(wire) + 1] = f
        /\ wire # <<>> => Offset' = Offset
        /\ wire = <<>> => Offset = 0 /\ Offset' = IF f.kind = "ack" THEN 1 ELSE 0
        /\ \A n \in Nat, p \in 1..Len(unacked) : n = Len(wire) + 1 /\ Framed(n, p)' => WireInv'
    BY <1>1, <1>3, <2>1, FrameIsWritten
  <2>3. Offset' = Offset /\ Busy = 1 /\ Busy' = 1
    BY <1>1, <2>1, <2>2 DEF Busy
  <2>4. PICK a \in 0..Len(unacked) :
          /\ Len(unacked) = a + Busy + Len(inbox)
          /\ Busy = 1 => unacked[a + 1] = current.job
          /\ \A k \in 1..Len(inbox) : unacked[a + Busy + k] = inbox[k]
          /\ wpc # "ack" => Len(wire) + Offset = 2 * a
    BY <1>1, <1>3, AnsweredParts
  <2>5. a \in Nat /\ Len(inbox) \in Nat /\ Offset \in {0, 1}
    BY DeliveryTypes
  <2>6. Len(wire) + Offset = 2 * a
    BY <1>1, <2>4
  <2>7. WireInv'
    <3>1. PICK n \in Nat : n = Len(wire) + 1
      BY <2>2
    <3>2. a + 1 \in 1..Len(unacked) /\ n + Offset + 1 = 2 * (a + 1)
      <4>1. Len(unacked) = a + 1 + Len(inbox)
        BY <2>3, <2>4
      <4> QED BY <2>2, <2>5, <2>6, <3>1, <4>1
    <3>3. wire'[n].job = unacked'[a + 1] /\ wire'[n].kind = "result"
      BY <1>1, <2>1, <2>2, <2>3, <2>4, <3>1
    <3>4. Framed(n, a + 1)'
      BY <2>3, <3>2, <3>3, Zenon DEF Framed
    <3> QED BY <2>2, <3>1, <3>2, <3>4
  <2>8. Len(wire') + Offset' = 2 * a + 1
    BY <2>2, <2>3, <2>5, <2>6
  <2>9. Answered(a)'
    BY <1>1, <2>2, <2>3, <2>4, <2>8, Zenon DEF Answered
  <2>10. LinkInv'
    BY <1>1, <1>3 DEF DeliveryInv, LinkInv, Linked
  <2> QED BY <1>1, <2>7, <2>9, <2>10 DEF DeliveryInv, ClientInv
<1> QED BY <1>2, <1>3

\* So is its acknowledgement, and the delivery is answered.
LEMMA AckIsWritten ==
  ASSUME TypeInv, DeliveryInv, AckDelivery
  PROVE  DeliveryInv'
<1> DEFINE f == AckFrame(current)
<1>1. /\ wpc = "ack" /\ wpc' = "consume"
      /\ UNCHANGED <<conn, inbox, unacked>>
      /\ wire' = IF Linked THEN Append(wire, f) ELSE wire
  BY DEF AckDelivery, WriteFrame
<1>2. CASE ~Linked
  BY <1>1, <1>2, GoneDeliveries DEF Linked
<1>3. CASE Linked
  <2>1. f \in Frames /\ f.kind = "ack" /\ f.job = current.job
    BY <1>1, CurrentFrames DEF TypeInv, AckFrame
  <2> HIDE DEF f
  <2>2. /\ Len(wire) \in Nat /\ Len(wire') = Len(wire) + 1 /\ wire' # <<>>
        /\ wire'[Len(wire) + 1] = f
        /\ wire # <<>> => Offset' = Offset
        /\ wire = <<>> => Offset = 0 /\ Offset' = IF f.kind = "ack" THEN 1 ELSE 0
        /\ \A n \in Nat, p \in 1..Len(unacked) : n = Len(wire) + 1 /\ Framed(n, p)' => WireInv'
    BY <1>1, <1>3, <2>1, FrameIsWritten
  <2>3. Busy = 1 /\ Busy' = 0
    BY <1>1 DEF Busy
  <2>4. PICK a \in 0..Len(unacked) :
          /\ Len(unacked) = a + Busy + Len(inbox)
          /\ Busy = 1 => unacked[a + 1] = current.job
          /\ \A k \in 1..Len(inbox) : unacked[a + Busy + k] = inbox[k]
          /\ wpc = "ack" /\ wire = <<>> => a = 0
          /\ wpc = "ack" /\ wire # <<>> => Len(wire) + Offset = 2 * a + 1
    BY <1>1, <1>3, AnsweredParts
  <2>5. a \in Nat /\ Len(inbox) \in Nat /\ Offset \in {0, 1}
    BY DeliveryTypes
  <2>6. Len(wire) + Offset' = 2 * a + 1
    <3>1. CASE wire = <<>>
      <4>1. Len(wire) = 0 /\ a = 0 /\ Offset' = 1
        BY <1>1, <2>1, <2>2, <2>4, <3>1
      <4> QED BY <4>1
    <3>2. CASE wire # <<>>
      BY <1>1, <2>2, <2>4, <3>2
    <3> QED BY <3>1, <3>2
  <2>7. Offset' \in {0, 1}
    BY DEF Offset
  <2>8. a + 1 \in 1..Len(unacked) /\ (Len(wire) + 1) + Offset' = 2 * (a + 1)
    <3>1. Len(unacked) = a + 1 + Len(inbox) /\ Len(wire) \in Nat
      BY <2>2, <2>3, <2>4
    <3> QED BY <2>5, <2>6, <2>7, <3>1
  <2>9. WireInv'
    <3>1. PICK n \in Nat : n = Len(wire) + 1
      BY <2>2
    <3>2. wire'[n].job = unacked'[a + 1] /\ wire'[n].kind = "ack" /\ n + Offset' = 2 * (a + 1)
      BY <1>1, <2>1, <2>2, <2>3, <2>4, <2>8, <3>1
    <3>3. Framed(n, a + 1)'
      BY <3>2, Zenon DEF Framed
    <3> QED BY <2>2, <2>8, <3>1, <3>3
  <2>10. Len(unacked') = (a + 1) + Busy' + Len(inbox')
    BY <1>1, <2>3, <2>4, <2>5
  <2>11. ASSUME NEW k \in 1..Len(inbox') PROVE unacked'[(a + 1) + Busy' + k] = inbox'[k]
    <3>1. k \in 1..Len(inbox) /\ (a + 1) + 0 + k = a + 1 + k
      BY <1>1, <2>5
    <3> QED BY <1>1, <2>3, <2>4, <3>1
  <2>12. Len(wire') + Offset' = 2 * (a + 1)
    BY <2>2, <2>8
  <2>13. Busy' # 1 /\ wpc' # "ack"
    BY <1>1, <2>3
  <2>14. Answered(a + 1)'
    BY <2>10, <2>11, <2>12, <2>13, Zenon DEF Answered
  <2>15. LinkInv'
    BY <1>1, <1>3 DEF DeliveryInv, LinkInv, Linked
  <2>16. a + 1 \in 0..Len(unacked')
    BY <1>1, <2>5, <2>8
  <2> QED BY <2>9, <2>14, <2>15, <2>16 DEF DeliveryInv, ClientInv
<1> QED BY <1>2, <1>3

LEMMA DeliveryInit == Init => DeliveryInv
BY DEF Init, DeliveryInv, LinkInv, WireInv, ClientInv, Linked

\* Every step keeps the connection and the broker in agreement.
LEMMA DeliveryStep == TypeInv /\ OnceInv /\ DeliveryInv /\ [Next]_vars => DeliveryInv'
<1> SUFFICES ASSUME TypeInv, OnceInv, DeliveryInv, [Next]_vars PROVE DeliveryInv'
  OBVIOUS
<1>1. CASE GatewayNext \/ EnqueueJob \/ GatewayEOF \/ BrokerStart \/ CutGateway \/ UNCHANGED vars
  <2>1. UNCHANGED <<wpc, conn, inbox, current, wire, unacked>>
    BY <1>1, GatewayFrame DEF EnqueueJob, GatewayEOF, BrokerStart, CutGateway, vars, workerVars
  <2> QED BY <2>1, SameDeliveries
<1>2. CASE WorkerEOF \/ BrokerStop \/ \E how \in {"cut", "channel_closed"} : CutWorker(how)
  <2>1. ~Linked' /\ wire' = <<>> /\ unacked' = <<>>
    BY <1>2 DEF WorkerEOF, BrokerStop, CutWorker, RequeueUnacked, Linked
  <2> QED BY <2>1, DroppedDeliveries
<1>3. CASE WorkerLoad \/ WorkerConnectFails \/ NoticeLoss \/ SleepThenRetry \/ WorkerRestart
  <2>1. ~Linked /\ ~Linked' /\ UNCHANGED <<wire, unacked>>
    BY <1>3 DEF WorkerLoad, WorkerConnectFails, NoticeLoss, SleepThenRetry, WorkerRestart,
                DeliveryInv, LinkInv, Linked
  <2> QED BY <2>1, GoneDeliveries
<1>4. CASE WorkerKilled
  <2>1. wpc' = "dead" /\ UNCHANGED <<conn, wire, unacked>>
    BY <1>4 DEF WorkerKilled
  <2>2. LinkInv' /\ ClientInv'
    BY <2>1 DEF DeliveryInv, LinkInv, ClientInv, Linked
  <2> QED BY <2>1, <2>2, WireStays DEF DeliveryInv
<1> QED BY <1>1, <1>2, <1>3, <1>4, DeliveryIsSent, ResultIsHandled, AckIsHandled,
           ConnectionIsMade, DeliveryIsTaken, HandlerIsRun, ResultIsWritten, AckIsWritten
        DEF Next, BrokerNext, FaultNext, WorkerNext

-----------------------------------------------------------------------------
(* Reports follow the deliveries.  What the broker holds lies in the order *)
(* in which it entered the queue, and the wire lets only the first of it   *)
(* be reported.                                                            *)

OrderInv ==
  /\ IsInjective(entered)
  /\ InOrder(Held, entered)
  /\ \A j \in Jobs : reports[j] > 0 => j \in ToSet(entered)
  /\ FirstReportsInOrder

\* Nothing is reported, and what the broker holds stays as it is.
QuietReports == UNCHANGED <<entered, reports>> /\ Held' = Held

LEMMA QuietIsOrdered ==
  ASSUME OrderInv, QuietReports
  PROVE  OrderInv'
BY DEF OrderInv, QuietReports, InOrder, FirstReportsInOrder

\* The result that is handled is that of the first job the broker holds.
LEMMA ResultOfFirst ==
  ASSUME TypeInv, DeliveryInv, HandleResult
  PROVE  /\ unacked # <<>> /\ Len(Held) \in Nat /\ 1 \in 1..Len(Held)
         /\ Held[1] = unacked[1] /\ Held[1] \in Jobs
         /\ reports' = [reports EXCEPT ![Held[1]] = @ + 1]
         /\ wire[1].kind = "result" /\ wire # <<>>
         /\ UNCHANGED <<entered, queue, unacked, requeues>>
<1>1. /\ wire # <<>> /\ Head(wire).kind = "result"
      /\ reports' = [reports EXCEPT ![Head(wire).job] = @ + 1]
      /\ UNCHANGED <<entered, queue, unacked, requeues>>
  BY DEF HandleResult
<1>2. Head(wire) = wire[1] /\ unacked # <<>> /\ wire[1].job = unacked[1]
  BY <1>1, FirstFrame DEF DeliveryInv
<1>3. 1 \in 1..Len(unacked) /\ unacked[1] \in Jobs
  BY <1>2, DeliveryTypes
<1>4. Len(Held) \in Nat /\ 1 \in 1..Len(Held) /\ Held[1] = unacked[1]
  BY <1>3, DeliveryTypes, ConcatFacts DEF Held
<1> QED BY <1>1, <1>2, <1>3, <1>4

LEMMA ReportIsOrdered ==
  ASSUME TypeInv, OnceInv, DeliveryInv, JobNotLost, OrderInv, HandleResult
  PROVE  OrderInv'
<1>1. /\ Len(Held) \in Nat /\ 1 \in 1..Len(Held) /\ Held[1] \in Jobs
      /\ reports' = [reports EXCEPT ![Held[1]] = @ + 1]
      /\ UNCHANGED <<entered, queue, unacked>>
  BY ResultOfFirst
<1>2. Held \in Seq(Jobs) /\ entered \in Seq(Jobs) /\ reports \in [Jobs -> Nat]
  BY SequenceTypes DEF TypeInv, BrokerTypeOK
<1> DEFINE first == Held[1]
<1>3. first \in ToSet(entered)
  <2>1. first \in ToSet(Held)
    BY <1>1, <1>2 DEF ToSet
  <2> QED BY <2>1 DEF OnceInv, HeldInv
<1>4. \A j \in Jobs : reports'[j] = IF j = first THEN reports[j] + 1 ELSE reports[j]
  BY <1>1, <1>2
<1>5. \A j \in Jobs : reports'[j] > 0 => j \in ToSet(entered)
  BY <1>3, <1>4 DEF OrderInv
<1>6. ASSUME NEW i \in 1..Len(entered), NEW k \in 1..Len(entered),
             i < k, reports'[entered[k]] > 0
      PROVE  reports'[entered[i]] > 0
  <2>1. entered[i] \in Jobs /\ entered[k] \in Jobs /\ entered[i] \in ToSet(entered)
    BY <1>2 DEF ToSet
  <2>2. reports[entered[i]] \in Nat /\ reports[entered[k]] \in Nat
    BY <1>2, <2>1
  <2>3. CASE reports[entered[i]] > 0 \/ entered[i] = first
    BY <1>4, <2>1, <2>2, <2>3
  <2>4. CASE ~(reports[entered[i]] > 0) /\ entered[i] # first
    <3>1. entered[k] = first
      <4>1. ~(reports[entered[k]] > 0)
        BY <1>6, <2>4 DEF OrderInv, FirstReportsInOrder
      <4> QED BY <1>4, <1>6, <2>1, <4>1
    <3>2. entered[i] \in ToSet(Held)
      <4>1. entered[i] \in Pending
        BY <2>1, <2>4 DEF JobNotLost
      <4> QED BY <4>1, SequenceTypes, ToSetConcat DEF Pending, Held
    <3>3. PICK p \in 1..Len(Held) : Held[p] = entered[i]
      BY <1>2, <3>2 DEF ToSet
    <3>4. 1 < p
      BY <1>1, <2>4, <3>3
    <3>5. k < i
      BY <1>1, <3>1, <3>3, <3>4 DEF OrderInv, InOrder
    <3> QED BY <1>6, <3>5
  <2> QED BY <2>3, <2>4
<1>7. UNCHANGED Held
  BY <1>1 DEF Held
<1>8. FirstReportsInOrder'
  BY <1>1, <1>6 DEF FirstReportsInOrder
<1> HIDE DEF first
<1> QED BY <1>1, <1>5, <1>7, <1>8 DEF OrderInv, InOrder

\* A job joins the queue and the order of entry at the same end.
LEMMA EntryIsOrdered ==
  ASSUME TypeInv, OnceInv, OrderInv, EnqueueJob
  PROVE  OrderInv'
<1> DEFINE job == Head(gwire)
<1>1. /\ gwire # <<>> /\ entered' = Append(entered, job) /\ queue' = Append(queue, job)
      /\ UNCHANGED <<unacked, reports>>
  BY DEF EnqueueJob, workerVars
<1>2. job \in Jobs /\ job \in ToSet(gwire)
  BY <1>1, SequenceTypes, ToSetHeadTail
<1>3. job \notin ToSet(entered)
  BY <1>2 DEF OnceInv, FreshInv
<1> HIDE DEF job
<1>4. Held \in Seq(Jobs) /\ entered \in Seq(Jobs) /\ reports \in [Jobs -> Nat]
  BY SequenceTypes DEF TypeInv, BrokerTypeOK
<1>5. Held' = Append(Held, job)
  BY <1>1, <1>2, SequenceTypes, AppendToBack DEF Held
<1>6. IsInjective(entered') /\ ToSet(entered') = ToSet(entered) \cup {job}
  BY <1>1, <1>2, <1>3, <1>4, FreshAppend, ToSetAppend DEF OrderInv
<1>7. InOrder(Held', entered')
  BY <1>1, <1>2, <1>3, <1>4, <1>5, InOrderAppend DEF OrderInv, OnceInv, HeldInv
<1>8. /\ Len(entered) \in Nat /\ Len(entered') = Len(entered) + 1
      /\ entered'[Len(entered) + 1] = job
      /\ \A i \in 1..Len(entered) : entered'[i] = entered[i]
  BY <1>1, <1>2, <1>4, AppendPlaces
<1>9. ~(reports[job] > 0)
  BY <1>2, <1>3 DEF OrderInv
<1>10. ASSUME NEW i \in 1..(Len(entered) + 1), NEW k \in 1..(Len(entered) + 1),
              i < k, reports[entered'[k]] > 0
       PROVE  reports[entered'[i]] > 0
  <2>1. k # Len(entered) + 1
    BY <1>8, <1>9, <1>10
  <2>2. k \in 1..Len(entered) /\ i \in 1..Len(entered)
    BY <1>8, <1>10, <2>1
  <2> QED BY <1>8, <1>10, <2>2 DEF OrderInv, FirstReportsInOrder
<1>11. FirstReportsInOrder'
  BY <1>1, <1>8, <1>10 DEF FirstReportsInOrder
<1> QED BY <1>1, <1>6, <1>7, <1>11 DEF OrderInv

\* An acknowledgement takes out the first job that is held.
LEMMA AckIsOrdered ==
  ASSUME TypeInv, OnceInv, DeliveryInv, OrderInv, HandleAck
  PROVE  /\ OrderInv' /\ Held \in Seq(Jobs) /\ Held # <<>> /\ Held' = Tail(Held)
         /\ Held[1] = unacked[1] /\ UNCHANGED <<entered, reports, requeues>>
<1>1. /\ unacked # <<>> /\ unacked' = Tail(unacked)
      /\ UNCHANGED <<queue, entered, reports, requeues>>
  BY AckTakesFirst DEF HandleAck, brokerVars, DeliveryInv
<1>2. /\ unacked \in Seq(Jobs) /\ queue \in Seq(Jobs) /\ entered \in Seq(Jobs)
      /\ Held \in Seq(Jobs) /\ 1 \in 1..Len(unacked)
  BY <1>1, SequenceTypes, DeliveryTypes
<1>3. unacked' = RemoveAt(unacked, 1)
  BY <1>1, <1>2, RemoveAtHead
<1>4. 1 \in 1..Len(Held) /\ Held' = RemoveAt(Held, 1) /\ Held[1] = unacked[1]
  <2>1. 1 \in 1..Len(Held) /\ RemoveAt(unacked, 1) \o queue = RemoveAt(Held, 1)
    BY <1>2, RemoveFromFront DEF Held
  <2>2. Held' = RemoveAt(unacked, 1) \o queue
    BY <1>1, <1>3 DEF Held
  <2>3. Held[1] = unacked[1]
    BY <1>2, RemoveFromFront DEF Held
  <2> QED BY <2>1, <2>2, <2>3
<1>5. Held # <<>> /\ Held' = Tail(Held)
  BY <1>2, <1>4, RemoveAtHead
<1>6. InOrder(Held', entered')
  BY <1>1, <1>2, <1>4, InOrderRemove DEF OrderInv
<1>7. OrderInv'
  BY <1>1, <1>6 DEF OrderInv, FirstReportsInOrder
<1> QED BY <1>1, <1>2, <1>4, <1>5, <1>7

\* All other steps report nothing and keep what is held.
LEMMA OtherStepsAreQuiet ==
  ASSUME TypeInv, [Next]_vars, ~EnqueueJob, ~HandleResult, ~HandleAck
  PROVE  QuietReports
<1>1. CASE GatewayNext \/ GatewayEOF \/ BrokerStart \/ CutGateway \/ WorkerKilled
           \/ UNCHANGED vars
  BY <1>1, GatewayFrame DEF GatewayEOF, BrokerStart, CutGateway, WorkerKilled, vars, workerVars,
                            brokerVars, QuietReports, Held
<1>2. CASE WorkerNext
  BY <1>2, WorkerFrame DEF brokerVars, QuietReports, Held
<1>3. CASE Deliver
  BY <1>3, SequenceTypes, MoveBoundary DEF Deliver, QuietReports, Held
<1>4. CASE WorkerEOF \/ BrokerStop \/ \E how \in {"cut", "channel_closed"} : CutWorker(how)
  <2>1. RequeueUnacked /\ UNCHANGED <<entered, reports>>
    BY <1>4 DEF WorkerEOF, BrokerStop, CutWorker
  <2> QED BY <2>1, RequeueHolds DEF QuietReports
<1> QED BY <1>1, <1>2, <1>3, <1>4 DEF Next, BrokerNext, FaultNext

LEMMA OrderInit == Init => OrderInv
BY DEF Init, OrderInv, FirstReportsInOrder, InOrder, Held, IsInjective

LEMMA OrderStep ==
  TypeInv /\ OnceInv /\ LossInv /\ DeliveryInv /\ OrderInv /\ [Next]_vars => OrderInv'
BY EntryIsOrdered, ReportIsOrdered, AckIsOrdered, OtherStepsAreQuiet, QuietIsOrdered DEF LossInv

-----------------------------------------------------------------------------
(* Every result beyond the first was paid for by a requeue: what is held   *)
(* has one left, except the first job while its result is out and its      *)
(* acknowledgement is not.                                                 *)

FirstReported ==
  /\ unacked # <<>>
  /\ IF wire = <<>> THEN wpc \in {"ack", "dead"} ELSE wire[1].kind = "ack"

CreditInv ==
  /\ DuplicateNeedsRequeue
  /\ \A i \in 1..Len(Held) :
       i > 1 \/ ~FirstReported => reports[Held[i]] <= requeues[Held[i]]

\* The first job keeps its exemption in every step that leaves it unacknowledged.
LEMMA ExemptionStays ==
  ASSUME TypeInv, DeliveryInv, [Next]_vars, FirstReported,
         ~RequeueUnacked, ~HandleAck, ~HandleResult
  PROVE  FirstReported'
<1>1. unacked # <<>> /\ Linked
  BY DEF FirstReported, DeliveryInv, LinkInv
<1>2. CASE GatewayNext \/ EnqueueJob \/ GatewayEOF \/ BrokerStart \/ CutGateway \/ UNCHANGED vars
  <2>1. UNCHANGED <<wire, wpc, unacked>>
    BY <1>2, GatewayFrame DEF EnqueueJob, GatewayEOF, BrokerStart, CutGateway, vars, workerVars
  <2> QED BY <2>1 DEF FirstReported
<1>3. CASE Deliver
  <2>1. UNCHANGED <<wire, wpc>> /\ unacked' = Append(unacked, Head(queue)) /\ queue # <<>>
    BY <1>3 DEF Deliver
  <2>2. unacked' # <<>>
    BY <2>1, DeliveryTypes, TailPlaces, AppendPlaces
  <2> QED BY <2>1, <2>2 DEF FirstReported
<1>4. CASE WorkerKilled
  BY <1>1, <1>4 DEF WorkerKilled, FirstReported
<1>5. CASE PublishResult \/ AckDelivery
  <2>1. UNCHANGED unacked /\ (wire = <<>> => wpc = "ack")
    BY <1>1, <1>5 DEF PublishResult, AckDelivery, FirstReported
  <2>2. PICK f \in Frames : wire' = Append(wire, f) /\ (wpc = "ack" => f.kind = "ack")
    BY <1>1, <1>5, CurrentFrames
       DEF PublishResult, AckDelivery, WriteFrame, TypeInv, AckFrame
  <2>3. /\ wire' # <<>> /\ Len(wire) \in Nat /\ wire'[Len(wire) + 1] = f
        /\ \A i \in 1..Len(wire) : wire'[i] = wire[i]
    BY <2>2, DeliveryTypes, AppendPlaces
  <2>4. wire'[1].kind = "ack"
    <3>1. CASE wire = <<>>
      <4>1. Len(wire) + 1 = 1
        BY <3>1
      <4> QED BY <2>1, <2>2, <2>3, <3>1, <4>1
    <3>2. CASE wire # <<>>
      <4>1. 1 \in 1..Len(wire)
        BY <3>2, DeliveryTypes
      <4> QED BY <2>3, <3>2, <4>1 DEF FirstReported
    <3> QED BY <3>1, <3>2
  <2> QED BY <1>1, <2>1, <2>3, <2>4 DEF FirstReported
<1>6. CASE WorkerSubscribe \/ TakeDelivery \/ RunHandler
  <2>1. UNCHANGED <<wire, unacked>> /\ wpc \notin {"ack", "dead"}
    BY <1>6 DEF WorkerSubscribe, TakeDelivery, RunHandler
  <2> QED BY <2>1 DEF FirstReported
<1>7. CASE WorkerLoad \/ WorkerConnect \/ WorkerConnectFails \/ NoticeLoss \/ SleepThenRetry
           \/ WorkerRestart
  <2>1. ~Linked
    BY <1>7 DEF WorkerLoad, WorkerConnect, WorkerConnectFails, NoticeLoss, SleepThenRetry,
                WorkerRestart, DeliveryInv, LinkInv, Linked
  <2> QED BY <1>1, <2>1
<1>8. ~WorkerEOF /\ ~BrokerStop /\ ~\E how \in {"cut", "channel_closed"} : CutWorker(how)
  BY DEF WorkerEOF, BrokerStop, CutWorker
<1> QED BY <1>2, <1>3, <1>4, <1>5, <1>6, <1>7, <1>8 DEF Next, BrokerNext, FaultNext, WorkerNext

\* A result uses up what its job has left; the job is the first that is held,
\* and is exempt until it is acknowledged.
LEMMA ReportIsPaid ==
  ASSUME TypeInv, OnceInv, DeliveryInv, CreditInv, HandleResult
  PROVE  CreditInv'
<1>1. /\ unacked # <<>> /\ Len(Held) \in Nat /\ 1 \in 1..Len(Held) /\ Held[1] \in Jobs
      /\ reports' = [reports EXCEPT ![Held[1]] = @ + 1]
      /\ wire[1].kind = "result" /\ wire # <<>>
      /\ UNCHANGED <<entered, queue, unacked, requeues>>
  BY ResultOfFirst
<1>2. /\ Held \in Seq(Jobs) /\ reports \in [Jobs -> Nat] /\ requeues \in [Jobs -> Nat]
      /\ Held' = Held
  BY <1>1, SequenceTypes DEF TypeInv, BrokerTypeOK, Held
<1>3. \A i \in 1..Len(Held) : Held[i] \in Jobs /\ (i # 1 => Held[i] # Held[1])
  BY <1>1, <1>2 DEF OnceInv, HeldInv, IsInjective
<1>4. reports[Held[1]] <= requeues[Held[1]]
  BY <1>1 DEF CreditInv, FirstReported
<1> DEFINE first == Held[1]
<1>5. /\ \A j \in Jobs : reports'[j] = IF j = first THEN reports[j] + 1 ELSE reports[j]
      /\ \A j \in Jobs : reports[j] \in Nat /\ requeues[j] \in Nat
  BY <1>1, <1>2
<1>6. DuplicateNeedsRequeue'
  <2> SUFFICES ASSUME NEW j \in Jobs PROVE reports'[j] <= 1 + requeues[j]
    BY <1>1 DEF DuplicateNeedsRequeue
  <2>1. reports[j] <= 1 + requeues[j]
    BY DEF CreditInv, DuplicateNeedsRequeue
  <2> QED BY <1>4, <1>5, <2>1
<1>7. FirstReported'
  <2>1. wire' = Tail(wire) /\ UNCHANGED <<wpc, unacked>>
    BY DEF HandleResult
  <2>2. /\ Offset = 0 /\ wire' \in Seq(Frames) /\ Len(wire) \in Nat \ {0}
        /\ Len(wire') = Len(wire) - 1 /\ \A i \in 1..(Len(wire) - 1) : wire'[i] = wire[i + 1]
    BY <1>1, <2>1, DeliveryTypes, TailPlaces, FirstFrame DEF DeliveryInv
  <2>3. CASE Len(wire) = 1
    <3>1. wire' = <<>> /\ Linked
      BY <1>1, <2>2, <2>3 DEF DeliveryInv, LinkInv
    <3>2. ASSUME wpc \notin {"ack", "dead"} PROVE FALSE
      <4>1. PICK a \in 0..Len(unacked) : Len(wire) + Offset = 2 * a
        BY <3>1, <3>2, AnsweredParts
      <4>2. a \in Nat
        BY DeliveryTypes
      <4> QED BY <2>2, <2>3, <4>1, <4>2
    <3> QED BY <1>1, <2>1, <3>1, <3>2 DEF FirstReported
  <2>4. CASE Len(wire) # 1
    <3>1. 2 \in 1..Len(wire) /\ 1 \in 1..(Len(wire) - 1) /\ wire' # <<>>
      BY <2>2, <2>4
    <3>2. PICK p \in 1..Len(unacked) : Framed(2, p)
      BY <3>1 DEF DeliveryInv, WireInv
    <3>3. wire[2].kind = "ack"
      BY <2>2, <3>1, <3>2, DeliveryTypes DEF Framed
    <3>4. wire'[1] = wire[2]
      BY <2>2, <3>1
    <3> QED BY <1>1, <2>1, <3>1, <3>3, <3>4 DEF FirstReported
  <2> QED BY <2>3, <2>4
<1>8. ASSUME NEW i \in 1..Len(Held), i > 1 PROVE reports'[Held[i]] <= requeues[Held[i]]
  <2>1. Held[i] \in Jobs /\ Held[i] # first /\ reports[Held[i]] <= requeues[Held[i]]
    BY <1>3, <1>8 DEF CreditInv
  <2> HIDE DEF first
  <2> QED BY <1>5, <2>1
<1> HIDE DEF first
<1> QED BY <1>1, <1>2, <1>6, <1>7, <1>8 DEF CreditInv

\* The second in line becomes the first, with all it had left.
LEMMA AckIsPaid ==
  ASSUME TypeInv, OnceInv, DeliveryInv, OrderInv, CreditInv, HandleAck
  PROVE  CreditInv'
<1>1. /\ Held \in Seq(Jobs) /\ Held # <<>> /\ Held' = Tail(Held)
      /\ UNCHANGED <<entered, reports, requeues>>
  BY AckIsOrdered
<1>2. /\ Len(Held) \in Nat \ {0} /\ Len(Held') = Len(Held) - 1
      /\ \A i \in 1..(Len(Held) - 1) : Held'[i] = Held[i + 1]
  BY <1>1, TailPlaces
<1>3. ASSUME NEW i \in 1..(Len(Held) - 1) PROVE reports[Held'[i]] <= requeues[Held'[i]]
  <2>1. i + 1 \in 1..Len(Held) /\ i + 1 > 1
    BY <1>2
  <2> QED BY <1>2, <2>1 DEF CreditInv
<1>4. DuplicateNeedsRequeue'
  BY <1>1 DEF CreditInv, DuplicateNeedsRequeue
<1> QED BY <1>1, <1>2, <1>3, <1>4 DEF CreditInv

\* Whatever is requeued gets one more, so the exemption ends.
LEMMA RequeueIsPaid ==
  ASSUME TypeInv, CreditInv, RequeueUnacked, UNCHANGED reports
  PROVE  CreditInv'
<1>1. /\ Held \in Seq(Jobs) /\ Held' = Held /\ unacked \in Seq(Jobs) /\ queue \in Seq(Jobs)
      /\ reports \in [Jobs -> Nat] /\ requeues \in [Jobs -> Nat]
  BY SequenceTypes, RequeueHolds DEF TypeInv, BrokerTypeOK
<1>2. \A j \in Jobs : requeues'[j] = IF j \in ToSet(unacked) THEN requeues[j] + 1 ELSE requeues[j]
  BY DEF RequeueUnacked
<1>3. \A j \in Jobs : reports[j] \in Nat /\ requeues[j] \in Nat /\ requeues'[j] \in Nat
                      /\ requeues[j] <= requeues'[j]
  <2> SUFFICES ASSUME NEW j \in Jobs
               PROVE  /\ reports[j] \in Nat /\ requeues[j] \in Nat /\ requeues'[j] \in Nat
                      /\ requeues[j] <= requeues'[j]
    OBVIOUS
  <2>1. reports[j] \in Nat /\ requeues[j] \in Nat
    BY <1>1
  <2> QED BY <1>2, <2>1
<1>4. DuplicateNeedsRequeue'
  <2> SUFFICES ASSUME NEW j \in Jobs PROVE reports[j] <= 1 + requeues'[j]
    BY DEF DuplicateNeedsRequeue
  <2> QED BY <1>3 DEF CreditInv, DuplicateNeedsRequeue
<1>5. ASSUME NEW i \in 1..Len(Held) PROVE reports[Held[i]] <= requeues'[Held[i]]
  <2>1. Held[i] \in Jobs
    BY <1>1
  <2>2. CASE i > 1 \/ ~FirstReported
    BY <1>3, <2>1, <2>2 DEF CreditInv
  <2>3. CASE i = 1 /\ FirstReported
    <3>1. 1 \in 1..Len(unacked)
      BY <1>1, <2>3 DEF FirstReported
    <3>2. Held[i] \in ToSet(unacked)
      BY <1>1, <2>3, <3>1, RemoveFromFront DEF Held, ToSet
    <3> QED BY <1>2, <1>3, <2>1, <3>2 DEF CreditInv, DuplicateNeedsRequeue
  <2> QED BY <1>1, <2>2, <2>3
<1> QED BY <1>1, <1>4, <1>5 DEF CreditInv

\* A job that joins the queue has not been reported.
LEMMA EntryIsPaid ==
  ASSUME TypeInv, OnceInv, DeliveryInv, OrderInv, CreditInv, EnqueueJob
  PROVE  CreditInv'
<1> DEFINE job == Head(gwire)
<1>1. /\ gwire # <<>> /\ queue' = Append(queue, job)
      /\ UNCHANGED <<unacked, wire, wpc, reports, requeues>>
  BY DEF EnqueueJob, workerVars
<1>2. job \in Jobs /\ job \in ToSet(gwire)
  BY <1>1, SequenceTypes, ToSetHeadTail
<1>3. job \notin ToSet(entered)
  BY <1>2 DEF OnceInv, FreshInv
<1> HIDE DEF job
<1>4. /\ Held \in Seq(Jobs) /\ reports \in [Jobs -> Nat] /\ requeues \in [Jobs -> Nat]
      /\ Held' = Append(Held, job)
  <2>1. Held' = Append(Held, job)
    BY <1>1, <1>2, SequenceTypes, AppendToBack DEF Held
  <2> QED BY <2>1, SequenceTypes DEF TypeInv, BrokerTypeOK
<1>5. /\ Len(Held) \in Nat /\ Len(Held') = Len(Held) + 1 /\ Held'[Len(Held) + 1] = job
      /\ \A i \in 1..Len(Held) : Held'[i] = Held[i]
  BY <1>2, <1>4, AppendPlaces
<1>6. reports[job] <= requeues[job]
  <2>1. ~(reports[job] > 0)
    BY <1>2, <1>3 DEF OrderInv
  <2>2. reports[job] \in Nat /\ requeues[job] \in Nat
    BY <1>2, <1>4
  <2> QED BY <2>1, <2>2
<1>7. FirstReported' <=> FirstReported
  BY <1>1 DEF FirstReported
<1>8. ASSUME NEW i \in 1..(Len(Held) + 1), i > 1 \/ ~FirstReported
      PROVE  reports[Held'[i]] <= requeues[Held'[i]]
  <2>1. CASE i = Len(Held) + 1
    BY <1>5, <1>6, <2>1
  <2>2. CASE i # Len(Held) + 1
    <3>1. i \in 1..Len(Held)
      BY <1>5, <2>2
    <3> QED BY <1>5, <1>8, <3>1 DEF CreditInv
  <2> QED BY <2>1, <2>2
<1>9. DuplicateNeedsRequeue'
  BY <1>1 DEF CreditInv, DuplicateNeedsRequeue
<1> QED BY <1>1, <1>5, <1>7, <1>8, <1>9 DEF CreditInv

LEMMA CreditInit == Init => CreditInv
<1> SUFFICES ASSUME Init PROVE CreditInv
  OBVIOUS
<1>1. Len(Held) = 0
  BY DEF Init, Held
<1>2. DuplicateNeedsRequeue
  BY DEF Init, DuplicateNeedsRequeue
<1> QED BY <1>1, <1>2 DEF CreditInv

LEMMA CreditStep ==
  TypeInv /\ OnceInv /\ DeliveryInv /\ OrderInv /\ CreditInv /\ [Next]_vars => CreditInv'
<1> SUFFICES ASSUME TypeInv, OnceInv, DeliveryInv, OrderInv, CreditInv, [Next]_vars
             PROVE  CreditInv'
  OBVIOUS
<1>1. CASE RequeueUnacked /\ UNCHANGED reports
  BY <1>1, RequeueIsPaid
<1>2. ASSUME ~RequeueUnacked \/ reports' # reports, ~EnqueueJob, ~HandleResult, ~HandleAck
      PROVE  CreditInv'
  <2>1. QuietReports
    BY <1>2, OtherStepsAreQuiet
  <2>2. ~RequeueUnacked
    BY <1>2, <2>1 DEF QuietReports
  <2>3. UNCHANGED requeues
    <3>1. ~WorkerEOF /\ ~BrokerStop /\ ~\E how \in {"cut", "channel_closed"} : CutWorker(how)
      BY <2>2 DEF WorkerEOF, BrokerStop, CutWorker
    <3>2. CASE GatewayNext \/ WorkerNext
      BY <3>2, GatewayFrame, WorkerFrame DEF brokerVars
    <3>3. CASE UNCHANGED vars \/ Deliver \/ GatewayEOF \/ BrokerStart \/ CutGateway \/ WorkerKilled
      BY <3>3 DEF vars, brokerVars, Deliver, GatewayEOF, BrokerStart, CutGateway, WorkerKilled
    <3> QED BY <1>2, <3>1, <3>2, <3>3 DEF Next, BrokerNext, FaultNext
  <2>4. FirstReported => FirstReported'
    BY <1>2, <2>2, ExemptionStays
  <2>5. DuplicateNeedsRequeue'
    BY <2>1, <2>3 DEF QuietReports, CreditInv, DuplicateNeedsRequeue
  <2> QED BY <2>1, <2>3, <2>4, <2>5 DEF QuietReports, CreditInv
<1> QED BY <1>1, <1>2, EntryIsPaid, ReportIsPaid, AckIsPaid

\* A job has a second result only when it was requeued, once for every result
\* beyond the first; and the first results of the jobs appear in the order in
\* which the jobs were queued, whatever connections and processes are lost.
THEOREM ReportsInOrderOfJobs == Spec => []ReportsFollowDeliveries
<1> DEFINE Inv == TypeInv /\ OnceInv /\ LossInv /\ DeliveryInv /\ OrderInv /\ CreditInv
<1>1. Init => Inv
  BY TypeInit, OnceInit, LossInit, DeliveryInit, OrderInit, CreditInit
<1>2. Inv /\ [Next]_vars => Inv'
  BY TypeStep, OnceStep, LossStep, DeliveryStep, OrderStep, CreditStep
<1>3. Inv => ReportsFollowDeliveries
  BY DEF OrderInv, CreditInv, ReportsFollowDeliveries
<1> QED BY <1>1, <1>2, <1>3, PTL DEF Spec

-----------------------------------------------------------------------------
(* The queue with its worker implements AtLeastOnce: what is ready or      *)
(* unacknowledged is pending.  A job is submitted when the broker queues   *)
(* it, reported when the broker handles its result, retired when it        *)
(* handles its acknowledgement; no other step is seen.                     *)

LEMMA PendingIsHeld == ASSUME TypeInv PROVE Pending = ToSet(Held) /\ Pending \subseteq Jobs
<1>1. Pending = ToSet(Held)
  BY SequenceTypes, ToSetConcat DEF Pending, Held
<1>2. ToSet(Held) \subseteq Jobs
  BY SequenceTypes DEF ToSet
<1> QED BY <1>1, <1>2

LEMMA InitImplements == Init => AtLeastOnceQueue!Init
<1> SUFFICES ASSUME Init PROVE AtLeastOnceQueue!Init
  OBVIOUS
<1>1. Pending = {}
  BY DEF Init, Pending, ToSet
<1> QED BY <1>1 DEF Init, AtLeastOnceQueue!Init

LEMMA EnqueueSubmits ==
  ASSUME TypeInv, OnceInv, OrderInv, EnqueueJob
  PROVE  AtLeastOnceQueue!Next
<1> DEFINE job == Head(gwire)
<1>1. /\ gwire # <<>> /\ queue' = Append(queue, job) /\ UNCHANGED <<unacked, reports>>
  BY DEF EnqueueJob, workerVars
<1>2. job \in Jobs /\ job \in ToSet(gwire)
  BY <1>1, SequenceTypes, ToSetHeadTail
<1>3. job \notin ToSet(entered)
  BY <1>2 DEF OnceInv, FreshInv
<1> HIDE DEF job
<1>4. job \notin Pending
  BY <1>3, PendingIsHeld DEF OnceInv, HeldInv
<1>5. reports[job] = 0
  <2>1. ~(reports[job] > 0)
    BY <1>2, <1>3 DEF OrderInv
  <2>2. reports[job] \in Nat
    BY <1>2 DEF TypeInv, BrokerTypeOK
  <2> QED BY <2>1, <2>2
<1>6. Pending' = Pending \cup {job}
  <2>1. ToSet(queue') = ToSet(queue) \cup {job}
    BY <1>1, <1>2, SequenceTypes, ToSetAppend
  <2> QED BY <1>1, <2>1 DEF Pending
<1>7. AtLeastOnceQueue!Submit(job)
  BY <1>1, <1>4, <1>5, <1>6 DEF AtLeastOnceQueue!Submit
<1> QED BY <1>2, <1>7 DEF AtLeastOnceQueue!Next

LEMMA ResultReports ==
  ASSUME TypeInv, DeliveryInv, HandleResult
  PROVE  AtLeastOnceQueue!Next
<1>1. /\ Held[1] \in Jobs /\ 1 \in 1..Len(Held)
      /\ reports' = [reports EXCEPT ![Held[1]] = @ + 1]
      /\ UNCHANGED <<entered, queue, unacked, requeues>>
  BY ResultOfFirst
<1>2. Held[1] \in Pending
  <2>1. Held[1] \in ToSet(Held)
    BY <1>1, SequenceTypes DEF ToSet
  <2> QED BY <2>1, PendingIsHeld
<1>3. UNCHANGED Pending
  BY <1>1 DEF Pending
<1>4. AtLeastOnceQueue!Report(Held[1])
  BY <1>1, <1>2, <1>3 DEF AtLeastOnceQueue!Report
<1> QED BY <1>1, <1>4 DEF AtLeastOnceQueue!Next

LEMMA AckRetires ==
  ASSUME TypeInv, OnceInv, LossInv, DeliveryInv, OrderInv, HandleAck
  PROVE  AtLeastOnceQueue!Next
<1>1. /\ Held \in Seq(Jobs) /\ Held # <<>> /\ Held' = Tail(Held)
      /\ Held[1] = unacked[1] /\ UNCHANGED reports
  BY AckIsOrdered
<1> DEFINE job == Held[1]
<1>2. /\ Head(Held) = job /\ job \in Jobs /\ ToSet(Held) = ToSet(Held') \cup {job}
      /\ job \notin ToSet(Held')
  BY <1>1, TailPlaces, ToSetHeadTail, TailInjective DEF OnceInv, HeldInv
<1>3. /\ wire # <<>> /\ wire[1].kind = "ack" /\ wire[1].job = job
      /\ unacked \in Seq(Jobs) /\ unacked' = Tail(unacked) /\ unacked # <<>>
      /\ UNCHANGED queue
  BY <1>1, AckTakesFirst, SequenceTypes DEF HandleAck, brokerVars, DeliveryInv
<1>4. reports[job] > 0
  <2>1. 1 \in 1..Len(wire)
    BY <1>3, DeliveryTypes
  <2>2. Backed(wire[1].job, 0)
    BY <1>3, <2>1 DEF LossInv, AcksAreBacked
  <2> QED BY <1>3, <2>2 DEF Backed, ResultAhead
<1>5. Pending' = ToSet(Held')
  <2>1. unacked' \in Seq(Jobs) /\ queue' \in Seq(Jobs)
    BY <1>3, SequenceTypes, TailPlaces
  <2> QED BY <2>1, ToSetConcat DEF Pending, Held
<1>6. Pending' = Pending \ {job} /\ job \in Pending
  BY <1>2, <1>5, PendingIsHeld
<1> HIDE DEF job
<1>7. AtLeastOnceQueue!Retire(job)
  BY <1>1, <1>4, <1>6 DEF AtLeastOnceQueue!Retire
<1> QED BY <1>2, <1>7 DEF AtLeastOnceQueue!Next

LEMMA QuietIsStutter ==
  ASSUME TypeInv, TypeInv', QuietReports
  PROVE  UNCHANGED <<Pending, reports>>
<1>1. Pending = ToSet(Held) /\ Pending' = ToSet(Held')
  <2>1. Pending' = ToSet(Held')
    <3>1. queue' \in Seq(Jobs) /\ unacked' \in Seq(Jobs)
      BY DEF TypeInv, BrokerTypeOK, WorkerTypeOK
    <3> QED BY <3>1, ToSetConcat DEF Pending, Held
  <2> QED BY <2>1, PendingIsHeld
<1> QED BY <1>1 DEF QuietReports

\* The durable queue with the worker that publishes and then acknowledges is an
\* at-least-once queue, through every loss, kill and redelivery.
THEOREM QueueIsAtLeastOnce == Spec => ImplementsAtLeastOnce
<1> DEFINE Inv == TypeInv /\ OnceInv /\ LossInv /\ DeliveryInv /\ OrderInv
<1>1. Init => Inv
  BY TypeInit, OnceInit, LossInit, DeliveryInit, OrderInit
<1>2. Inv /\ [Next]_vars => Inv'
  BY TypeStep, OnceStep, LossStep, DeliveryStep, OrderStep
<1>3. Inv /\ [Next]_vars => [AtLeastOnceQueue!Next]_<<Pending, reports>>
  <2> SUFFICES ASSUME Inv, [Next]_vars
               PROVE  AtLeastOnceQueue!Next \/ UNCHANGED <<Pending, reports>>
    OBVIOUS
  <2>1. CASE EnqueueJob
    BY <2>1, EnqueueSubmits
  <2>2. CASE HandleResult
    BY <2>2, ResultReports
  <2>3. CASE HandleAck
    BY <2>3, AckRetires
  <2>4. CASE ~EnqueueJob /\ ~HandleResult /\ ~HandleAck
    BY <2>4, <1>2, OtherStepsAreQuiet, QuietIsStutter
  <2> QED BY <2>1, <2>2, <2>3, <2>4
<1> HIDE DEF Inv
<1> QED BY <1>1, <1>2, <1>3, InitImplements, PTL
        DEF Spec, ImplementsAtLeastOnce, AtLeastOnceQueue!Spec
=============================================================================
