---------------------------- MODULE TelemetryProofs ----------------------------
(***************************************************************************)
(* Proofs about the way of a result from the broker to the page, for every *)
(* set of connections and every bound.  ResultFanout: its types, that      *)
(* clients and store see the results in order, and that the hub serves the *)
(* clients it should.  Dashboard: its types, that the hook has one         *)
(* connection and the page shows it as it is, that feed and figures are in *)
(* order, and that the journal has no line without a job.                  *)
(***************************************************************************)
EXTENDS ResultFanout, Dashboard, DataFacts

-----------------------------------------------------------------------------
(* Types.                                                                  *)

\* A result that is being handled has a number.
TypeInv == TypeOK /\ (cpc # "recv" => seen \in 1..MaxMsgs)

LEMMA TypeInit == Init => TypeInv
<1> SUFFICES ASSUME Init PROVE TypeInv
  OBVIOUS
<1>1. <<>> \in Seq(1..MaxMsgs)
  OBVIOUS
<1>2. /\ buf \in [Conns -> Seq(1..MaxMsgs)] /\ got \in [Conns -> Seq(1..MaxMsgs)]
      /\ rows \in Seq(1..MaxMsgs)
  BY <1>1 DEF Init
<1>3. seen \in 0..MaxMsgs /\ joined \in [Conns -> 0..MaxMsgs]
  <2>1. 0 \in 0..MaxMsgs
    BY BoundsAssumption
  <2> QED BY <2>1 DEF Init
<1> QED BY <1>2, <1>3 DEF Init, TypeInv, TypeOK

\* The handler and the peer of one connection keep the types.
LEMMA ConnectionTypes ==
  ASSUME TypeInv, NEW c \in Conns, Stream(c) \/ PeerReads(c) \/ PeerLeaves(c)
  PROVE  TypeInv'
<1> USE DEF TypeInv, TypeOK
<1>1. CASE Upgrade(c)
  BY <1>1 DEF Upgrade, consumerVars
<1>2. CASE Register(c)
  BY <1>2 DEF Register, consumerVars
<1>3. CASE ReadFails(c)
  BY <1>3 DEF ReadFails, consumerVars
<1>4. CASE Unregister(c)
  BY <1>4 DEF Unregister, consumerVars
<1>5. CASE PeerReads(c)
  <2>1. buf[c] \in Seq(1..MaxMsgs) /\ got[c] \in Seq(1..MaxMsgs) /\ buf[c] # <<>>
    BY <1>5 DEF PeerReads
  <2>2. Tail(buf[c]) \in Seq(1..MaxMsgs) /\ Head(buf[c]) \in 1..MaxMsgs
    BY <2>1, ToSetHeadTail
  <2>3. Append(got[c], Head(buf[c])) \in Seq(1..MaxMsgs)
    BY <2>1, <2>2, AppendPlaces
  <2> QED BY <1>5, <2>2, <2>3 DEF PeerReads, consumerVars, streamVars
<1>6. CASE PeerLeaves(c)
  <2>1. <<>> \in Seq(1..MaxMsgs)
    OBVIOUS
  <2> QED BY <1>6, <2>1 DEF PeerLeaves, consumerVars, streamVars
<1> QED BY <1>1, <1>2, <1>3, <1>4, <1>5, <1>6 DEF Stream

\* So does the results goroutine.
LEMMA ConsumerTypes == TypeInv /\ (ReceiveResult \/ Consumer) => TypeInv'
<1> SUFFICES ASSUME TypeInv, ReceiveResult \/ Consumer PROVE TypeInv'
  OBVIOUS
<1> USE BoundsAssumption DEF TypeInv, TypeOK, streamVars
<1>1. CASE ReceiveResult
  BY <1>1 DEF ReceiveResult
<1>2. CASE StartBroadcast
  BY <1>2 DEF StartBroadcast
<1>3. ASSUME NEW c \in Conns, PickClient(c) PROVE TypeInv'
  BY <1>3 DEF PickClient
<1>4. CASE WriteMessage
  <2>1. buf' = [buf EXCEPT ![writing] = Append(@, seen)] /\ seen \in 1..MaxMsgs
    BY <1>4 DEF WriteMessage
  <2>2. buf' \in [Conns -> Seq(1..MaxMsgs)]
    <3>1. ASSUME writing \in Conns PROVE Append(buf[writing], seen) \in Seq(1..MaxMsgs)
      BY <2>1, <3>1
    <3> QED BY <2>1, <3>1
  <2> QED BY <1>4, <2>1, <2>2 DEF WriteMessage
<1>5. CASE WriteVanishes
  BY <1>5 DEF WriteVanishes
<1>6. CASE WriteFails
  BY <1>6 DEF WriteFails
<1>7. CASE EndBroadcast
  BY <1>7 DEF EndBroadcast
<1>8. CASE DecodeResult
  BY <1>8 DEF DecodeResult
<1>9. CASE SaveResult
  <2>1. rows \in Seq(1..MaxMsgs) /\ seen \in 1..MaxMsgs
    BY <1>9 DEF SaveResult
  <2>2. Append(rows, seen) \in Seq(1..MaxMsgs)
    BY <2>1, AppendPlaces
  <2>3. rows' \in Seq(1..MaxMsgs)
    BY <1>9, <2>1, <2>2 DEF SaveResult
  <2> QED BY <1>9, <2>3 DEF SaveResult
<1> QED BY <1>1, <1>2, <1>3, <1>4, <1>5, <1>6, <1>7, <1>8, <1>9 DEF Consumer

LEMMA TypeStep == TypeInv /\ [Next]_vars => TypeInv'
<1>1. TypeInv /\ UNCHANGED vars => TypeInv'
  BY DEF TypeInv, TypeOK, vars, consumerVars, streamVars
<1> QED BY <1>1, ConnectionTypes, ConsumerTypes DEF Next

\* The types of all variables hold in every reachable state.
THEOREM TypeCorrect == Spec => []TypeOK
<1>1. TypeInv => TypeOK
  BY DEF TypeInv
<1> QED BY TypeInit, TypeStep, <1>1, PTL DEF Spec

-----------------------------------------------------------------------------
(* The map of the hub and the loop of Broadcast.                           *)

\* The handler of a connection and the map agree on who is in it; a connection
\* leaves it only by being closed.
MapInv ==
  \A c \in Conns :
    /\ c \in clients => spc[c] \in {"reading", "unregister"} /\ sock[c] # "closed"
    /\ spc[c] \in {"reading", "unregister"} /\ c \notin clients => sock[c] = "closed"
    /\ spc[c] = "done" => sock[c] = "closed"
    /\ spc[c] \in {"new", "register"} =>
         got[c] = <<>> /\ buf[c] = <<>> /\ sock[c] # "closed"

\* While the read lock is held, what is left to visit is in the map.
LoopInv ==
  /\ rlocked <=> cpc \in {"range", "write"}
  /\ cpc = "write" => writing \in clients \ todo
  /\ cpc # "write" => writing = NoConn
  /\ todo \subseteq clients
  /\ ~rlocked => todo = {}

HubInv == MapInv /\ LoopInv

\* Every step of a connection keeps the map right.
LEMMA ConnectionKeepsHub ==
  ASSUME TypeInv, HubInv, NEW c \in Conns, Stream(c) \/ PeerReads(c) \/ PeerLeaves(c)
  PROVE  HubInv'
<1> USE DEF TypeInv, TypeOK, HubInv
<1>1. CASE Upgrade(c)
  BY <1>1 DEF Upgrade, consumerVars, MapInv, LoopInv
<1>2. CASE Register(c)
  BY <1>2 DEF Register, consumerVars, MapInv, LoopInv
<1>3. CASE ReadFails(c)
  BY <1>3 DEF ReadFails, consumerVars, MapInv, LoopInv
<1>4. CASE Unregister(c)
  BY <1>4 DEF Unregister, consumerVars, MapInv, LoopInv
<1>5. CASE PeerReads(c)
  BY <1>5 DEF PeerReads, consumerVars, streamVars, MapInv, LoopInv
<1>6. CASE PeerLeaves(c)
  BY <1>6 DEF PeerLeaves, consumerVars, streamVars, MapInv, LoopInv
<1> QED BY <1>1, <1>2, <1>3, <1>4, <1>5, <1>6 DEF Stream

\* So does the results goroutine, also when it drops a connection.
LEMMA ConsumerKeepsHub == TypeInv /\ HubInv /\ (ReceiveResult \/ Consumer) => HubInv'
<1> SUFFICES ASSUME TypeInv, HubInv, ReceiveResult \/ Consumer PROVE HubInv'
  OBVIOUS
<1> USE NoConnAssumption DEF TypeInv, TypeOK, HubInv, streamVars, LoopInv
<1>1. CASE ReceiveResult
  BY <1>1 DEF ReceiveResult, MapInv
<1>2. CASE StartBroadcast
  BY <1>2 DEF StartBroadcast, MapInv
<1>3. ASSUME NEW c \in Conns, PickClient(c) PROVE HubInv'
  BY <1>3 DEF PickClient, MapInv
<1>4. CASE WriteMessage
  <2>1. MapInv'
    <3>1. writing \in clients /\ writing \in Conns
      BY <1>4 DEF WriteMessage
    <3> QED BY <1>4, <3>1 DEF WriteMessage, MapInv
  <2> QED BY <1>4, <2>1 DEF WriteMessage
<1>5. CASE WriteVanishes
  BY <1>5 DEF WriteVanishes, MapInv
<1>6. CASE WriteFails
  BY <1>6 DEF WriteFails, MapInv
<1>7. CASE EndBroadcast
  BY <1>7 DEF EndBroadcast, MapInv
<1>8. CASE DecodeResult
  BY <1>8 DEF DecodeResult, MapInv
<1>9. CASE SaveResult
  BY <1>9 DEF SaveResult, MapInv
<1> QED BY <1>1, <1>2, <1>3, <1>4, <1>5, <1>6, <1>7, <1>8, <1>9 DEF Consumer

LEMMA HubInit == Init => HubInv
BY DEF Init, HubInv, MapInv, LoopInv

LEMMA HubStep == TypeInv /\ HubInv /\ [Next]_vars => HubInv'
<1>1. HubInv /\ UNCHANGED vars => HubInv'
  BY DEF HubInv, MapInv, LoopInv, vars, consumerVars, streamVars
<1> QED BY <1>1, ConnectionKeepsHub, ConsumerKeepsHub DEF Next

-----------------------------------------------------------------------------
(* A client's stream: a run of consecutive results from j or j + 1 on,     *)
(* which result n can continue, or which is complete up to n.              *)

Run(s, j) ==
  /\ s # <<>> => s[1] \in {j, j + 1}
  /\ \A i \in 1..(Len(s) - 1) : s[i + 1] = s[i] + 1

Follows(s, j, n) == IF s = <<>> THEN n \in {j, j + 1} ELSE n = s[Len(s)] + 1
UpTo(s, j, n) == IF s = <<>> THEN n = j ELSE s[Len(s)] = n

LEMMA RunAppend ==
  ASSUME NEW s \in Seq(Nat), NEW j \in Nat, NEW n \in Nat, Run(s, j), Follows(s, j, n)
  PROVE  Run(Append(s, n), j) /\ UpTo(Append(s, n), j, n)
<1> DEFINE t == Append(s, n)
<1>1. /\ Len(s) \in Nat /\ Len(t) = Len(s) + 1 /\ t[Len(s) + 1] = n
      /\ \A i \in 1..Len(s) : t[i] = s[i]
  BY AppendPlaces
<1> HIDE DEF t
<1>2. t # <<>> /\ t[Len(t)] = n
  BY <1>1
<1>3. t[1] \in {j, j + 1}
  <2>1. CASE s = <<>>
    <3>1. Len(s) + 1 = 1
      BY <2>1
    <3> QED BY <1>1, <2>1, <3>1 DEF Follows
  <2>2. CASE s # <<>>
    <3>1. 1 \in 1..Len(s)
      BY <2>2
    <3> QED BY <1>1, <2>2, <3>1 DEF Run
  <2> QED BY <2>1, <2>2
<1>4. ASSUME NEW i \in 1..Len(s) PROVE t[i + 1] = t[i] + 1
  <2>1. CASE i = Len(s)
    <3>1. s # <<>>
      BY <1>1, <2>1
    <3> QED BY <1>1, <2>1, <3>1 DEF Follows
  <2>2. CASE i # Len(s)
    <3>1. i \in 1..(Len(s) - 1) /\ i + 1 \in 1..Len(s)
      BY <1>1, <2>2
    <3> QED BY <1>1, <3>1 DEF Run
  <2> QED BY <2>1, <2>2
<1>5. Len(t) - 1 = Len(s)
  BY <1>1
<1>6. Run(t, j) /\ UpTo(t, j, n)
  BY <1>2, <1>3, <1>4, <1>5 DEF Run, UpTo
<1> QED BY <1>6 DEF t

LEMMA RunPrefix ==
  ASSUME NEW s \in Seq(Nat), NEW t \in Seq(Nat), NEW j \in Nat, Run(s \o t, j)
  PROVE  Run(s, j)
<1> DEFINE u == s \o t
<1>1. /\ Len(s) \in Nat /\ Len(t) \in Nat /\ Len(u) = Len(s) + Len(t)
      /\ \A i \in 1..Len(s) : u[i] = s[i]
  BY ConcatFacts
<1> HIDE DEF u
<1>2. Run(u, j)
  BY DEF u
<1>3. ASSUME s # <<>> PROVE s[1] \in {j, j + 1}
  <2>1. 1 \in 1..Len(s) /\ u # <<>>
    BY <1>1, <1>3
  <2> QED BY <1>1, <1>2, <2>1 DEF Run
<1>4. ASSUME NEW i \in 1..(Len(s) - 1) PROVE s[i + 1] = s[i] + 1
  <2>1. i \in 1..(Len(u) - 1) /\ i \in 1..Len(s) /\ i + 1 \in 1..Len(s)
    BY <1>1
  <2> QED BY <1>1, <1>2, <2>1 DEF Run
<1> QED BY <1>3, <1>4 DEF Run

\* What was sent to a connection, read or not.
LEMMA SentTypes ==
  ASSUME TypeInv, NEW c \in Conns
  PROVE  /\ got[c] \in Seq(Nat) /\ buf[c] \in Seq(Nat) /\ Sent(c) \in Seq(Nat)
         /\ joined[c] \in Nat /\ seen \in Nat
<1>1. got[c] \in Seq(1..MaxMsgs) /\ buf[c] \in Seq(1..MaxMsgs)
  BY DEF TypeInv, TypeOK
<1>2. got[c] \in Seq(Nat) /\ buf[c] \in Seq(Nat)
  <2>1. \A i \in 1..MaxMsgs : i \in Nat
    BY BoundsAssumption
  <2> QED BY <1>1, <2>1, SeqOfSubset
<1>3. joined[c] \in Nat /\ seen \in Nat
  BY BoundsAssumption DEF TypeInv, TypeOK
<1> QED BY <1>2, <1>3 DEF Sent

-----------------------------------------------------------------------------
(* Every live client of the hub has all results so far, without the one    *)
(* that Broadcast is about to write to it.                                 *)

Pending(c) == cpc = "rlock" \/ c \in todo \/ c = writing

RunsInv == \A c \in Conns : Run(Sent(c), joined[c])

ServedInv ==
  \A c \in clients : sock[c] = "open" =>
    /\ Pending(c) => Follows(Sent(c), joined[c], seen)
    /\ ~Pending(c) => UpTo(Sent(c), joined[c], seen)

StreamInv == RunsInv /\ ServedInv

\* Nothing is sent or read, and no client gets live or loses its turn.
LEMMA SameStreams ==
  ASSUME StreamInv, UNCHANGED <<seen, buf, got, joined>>, clients' \subseteq clients,
         \A c \in clients' : sock'[c] = "open" => sock[c] = "open" /\ (Pending(c)' <=> Pending(c))
  PROVE  StreamInv'
<1>1. \A c : Sent(c)' = Sent(c)
  BY DEF Sent
<1>2. RunsInv'
  BY <1>1 DEF StreamInv, RunsInv
<1>3. ServedInv'
  BY <1>1 DEF StreamInv, ServedInv
<1> QED BY <1>2, <1>3 DEF StreamInv

\* A connection that registers has seen nothing, and is served from here on.
LEMMA RegisterKeepsStreams ==
  ASSUME TypeInv, HubInv, StreamInv, NEW c \in Conns, Register(c)
  PROVE  StreamInv'
<1>1. /\ joined' = [joined EXCEPT ![c] = seen] /\ clients' = clients \cup {c}
      /\ UNCHANGED <<cpc, seen, todo, writing, sock, buf, got>> /\ spc[c] = "register"
      /\ joined \in [Conns -> 0..MaxMsgs] /\ clients \subseteq Conns
  BY DEF Register, consumerVars, TypeInv, TypeOK
<1>2. \A d : Sent(d)' = Sent(d) /\ (Pending(d)' <=> Pending(d))
  BY <1>1 DEF Sent, Pending
<1>3. Sent(c) = <<>> /\ joined'[c] = seen /\ seen \in Nat
  <2>1. got[c] = <<>> /\ buf[c] = <<>>
    BY <1>1 DEF HubInv, MapInv
  <2> QED BY <1>1, <2>1, SentTypes DEF Sent
<1>4. Run(<<>>, seen) /\ Follows(<<>>, seen, seen) /\ UpTo(<<>>, seen, seen)
  BY DEF Run, Follows, UpTo
<1>5. \A d \in Conns \ {c} : joined'[d] = joined[d]
  BY <1>1
<1>6. RunsInv'
  BY <1>2, <1>3, <1>4, <1>5 DEF StreamInv, RunsInv
<1>7. ServedInv'
  BY <1>1, <1>2, <1>3, <1>4, <1>5 DEF StreamInv, ServedInv
<1> QED BY <1>6, <1>7 DEF StreamInv

\* Reading moves the first message over; leaving loses the unread ones.
LEMMA PeersKeepStreams ==
  ASSUME TypeInv, StreamInv, NEW c \in Conns, PeerReads(c) \/ PeerLeaves(c)
  PROVE  StreamInv'
<1>1. /\ UNCHANGED <<cpc, seen, todo, writing, clients, joined>>
      /\ \A d \in Conns \ {c} : got'[d] = got[d] /\ buf'[d] = buf[d] /\ sock'[d] = sock[d]
      /\ sock'[c] = "open" => sock[c] = "open"
  BY DEF PeerReads, PeerLeaves, consumerVars, streamVars, TypeInv, TypeOK
<1>2. \A d : Pending(d)' <=> Pending(d)
  BY <1>1 DEF Pending
<1>3. \A d \in Conns \ {c} : Sent(d)' = Sent(d)
  BY <1>1 DEF Sent
<1>4. CASE PeerReads(c)
  <2>1. /\ buf[c] # <<>> /\ got'[c] = Append(got[c], Head(buf[c])) /\ buf'[c] = Tail(buf[c])
    BY <1>4 DEF PeerReads, TypeInv, TypeOK
  <2>2. Sent(c)' = Sent(c)
    BY <2>1, SentTypes, MoveBoundary DEF Sent
  <2>3. \A d \in Conns : Sent(d)' = Sent(d)
    BY <1>3, <2>2
  <2>4. RunsInv'
    BY <1>1, <2>3 DEF StreamInv, RunsInv
  <2>5. ServedInv'
    BY <1>1, <1>2, <2>3 DEF StreamInv, ServedInv, TypeInv, TypeOK
  <2> QED BY <2>4, <2>5 DEF StreamInv
<1>5. CASE PeerLeaves(c)
  <2>1. got'[c] = got[c] /\ buf'[c] = <<>> /\ sock'[c] = "gone"
    BY <1>5 DEF PeerLeaves, TypeInv, TypeOK
  <2>2. Sent(c)' = got[c]
    BY <2>1, SentTypes DEF Sent
  <2>3. Run(got[c], joined[c])
    BY SentTypes, RunPrefix DEF StreamInv, RunsInv, Sent
  <2>4. RunsInv'
    BY <1>1, <1>3, <2>2, <2>3 DEF StreamInv, RunsInv
  <2>5. ServedInv'
    BY <1>1, <1>2, <1>3, <2>1 DEF StreamInv, ServedInv, TypeInv, TypeOK
  <2> QED BY <2>4, <2>5 DEF StreamInv
<1> QED BY <1>4, <1>5

\* The results goroutine writes to each client what comes next in its stream.
LEMMA ConsumerKeepsStreams ==
  TypeInv /\ HubInv /\ StreamInv /\ (ReceiveResult \/ Consumer) => StreamInv'
<1> SUFFICES ASSUME TypeInv, HubInv, StreamInv, ReceiveResult \/ Consumer PROVE StreamInv'
  OBVIOUS
<1>0. clients \subseteq Conns
  BY DEF TypeInv, TypeOK
<1>1. CASE ReceiveResult
  <2>1. /\ cpc = "recv" /\ cpc' = "rlock" /\ seen' = seen + 1
        /\ UNCHANGED <<todo, writing, joined, clients, sock, buf, got>>
    BY <1>1 DEF ReceiveResult, streamVars
  <2>2. \A c \in clients : ~Pending(c) /\ Pending(c)'
    BY <1>0, <2>1, NoConnAssumption DEF Pending, HubInv, LoopInv
  <2>3. \A c : Sent(c)' = Sent(c)
    BY <2>1 DEF Sent
  <2>4. RunsInv'
    BY <2>1, <2>3 DEF StreamInv, RunsInv
  <2>5. ASSUME NEW c \in clients, sock[c] = "open" PROVE Follows(Sent(c), joined[c], seen')
    <3>1. UpTo(Sent(c), joined[c], seen)
      BY <2>2, <2>5 DEF StreamInv, ServedInv
    <3> QED BY <2>1, <3>1 DEF UpTo, Follows
  <2>6. ServedInv'
    BY <2>1, <2>2, <2>3, <2>5 DEF ServedInv
  <2> QED BY <2>4, <2>6 DEF StreamInv
<1>2. CASE WriteMessage
  <2> DEFINE d == writing
  <2>1. /\ cpc = "write" /\ cpc' = "range" /\ writing' = NoConn
        /\ buf' = [buf EXCEPT ![d] = Append(@, seen)] /\ sock[d] = "open"
        /\ UNCHANGED <<todo, seen, joined, clients, sock, got>>
        /\ d \in clients \ todo /\ d \in Conns
    BY <1>0, <1>2 DEF WriteMessage, streamVars, HubInv, LoopInv
  <2>2. PICK c \in clients : c = d
    BY <2>1
  <2> HIDE DEF d
  <2>3. /\ buf'[c] = Append(buf[c], seen) /\ \A e \in Conns \ {c} : buf'[e] = buf[e]
    BY <1>0, <2>1, <2>2 DEF TypeInv, TypeOK
  <2>4. /\ Sent(c)' = Append(Sent(c), seen) /\ \A e \in Conns \ {c} : Sent(e)' = Sent(e)
    <3>1. Sent(c)' = got[c] \o Append(buf[c], seen)
      BY <2>1, <2>3 DEF Sent
    <3>2. Sent(c)' = Append(Sent(c), seen)
      <4> DEFINE g == got[c]
                 b == buf[c]
      <4>1. c \in Conns
        BY <1>0
      <4>2. g \in Seq(Nat) /\ b \in Seq(Nat) /\ seen \in Nat
        BY <4>1, SentTypes
      <4> HIDE DEF g, b
      <4>3. g \o Append(b, seen) = Append(g \o b, seen)
        BY <4>2, AppendToBack
      <4> QED BY <3>1, <4>3 DEF Sent, g, b
    <3> QED BY <2>1, <2>3, <3>2 DEF Sent
  <2>5. Follows(Sent(c), joined[c], seen) /\ Run(Sent(c), joined[c])
    BY <1>0, <2>1, <2>2 DEF StreamInv, ServedInv, RunsInv, Pending, d
  <2>6. Run(Append(Sent(c), seen), joined[c]) /\ UpTo(Append(Sent(c), seen), joined[c], seen)
    BY <1>0, <2>5, SentTypes, RunAppend
  <2>7. RunsInv'
    BY <2>1, <2>4, <2>6 DEF StreamInv, RunsInv
  <2>8. ~Pending(c)' /\ \A e \in clients \ {c} : Pending(e)' <=> Pending(e)
    BY <1>0, <2>1, <2>2, NoConnAssumption DEF Pending, d
  <2>9. ServedInv'
    BY <1>0, <2>1, <2>4, <2>6, <2>8 DEF StreamInv, ServedInv
  <2> QED BY <2>7, <2>9 DEF StreamInv
<1>3. CASE StartBroadcast \/ WriteVanishes \/ EndBroadcast \/ DecodeResult \/ SaveResult
           \/ \E c \in Conns : PickClient(c)
  <2>1. UNCHANGED <<seen, buf, got, joined, clients, sock>>
    BY <1>3 DEF StartBroadcast, WriteVanishes, EndBroadcast, DecodeResult, SaveResult, PickClient,
                streamVars
  <2>2. \A c \in clients : sock[c] = "open" => (Pending(c)' <=> Pending(c))
    BY <1>0, <1>3, NoConnAssumption
       DEF StartBroadcast, WriteVanishes, EndBroadcast, DecodeResult, SaveResult, PickClient,
           HubInv, LoopInv, Pending
  <2> QED BY <2>1, <2>2, SameStreams
<1>4. CASE WriteFails
  <2>1. UNCHANGED <<seen, buf, got, joined>> /\ clients' = clients \ {writing}
    BY <1>4 DEF WriteFails, streamVars
  <2>2. \A c \in clients' : sock'[c] = sock[c] /\ (Pending(c)' <=> Pending(c))
    BY <1>0, <1>4, <2>1, NoConnAssumption DEF WriteFails, HubInv, LoopInv, Pending, TypeInv, TypeOK
  <2> QED BY <2>1, <2>2, SameStreams
<1> QED BY <1>1, <1>2, <1>3, <1>4 DEF Consumer

\* Every step keeps the streams right.
LEMMA StreamStep == TypeInv /\ HubInv /\ StreamInv /\ [Next]_vars => StreamInv'
<1> SUFFICES ASSUME TypeInv, HubInv, StreamInv, [Next]_vars PROVE StreamInv'
  OBVIOUS
<1>1. ASSUME NEW c \in Conns, Upgrade(c) \/ ReadFails(c) \/ Unregister(c) PROVE StreamInv'
  <2>1. /\ UNCHANGED <<seen, buf, got, joined, cpc, todo, writing>> /\ clients' \subseteq clients
    BY <1>1 DEF Upgrade, ReadFails, Unregister, consumerVars
  <2>2. \A d : Pending(d)' <=> Pending(d)
    BY <2>1 DEF Pending
  <2>3. \A d \in clients' : sock'[d] = sock[d]
    BY <1>1 DEF Upgrade, ReadFails, Unregister, HubInv, MapInv, TypeInv, TypeOK
  <2> QED BY <2>1, <2>2, <2>3, SameStreams
<1>2. CASE UNCHANGED vars
  <2>1. UNCHANGED <<seen, buf, got, joined, cpc, todo, writing, clients, sock>>
    BY <1>2 DEF vars, consumerVars, streamVars
  <2> QED BY <2>1, SameStreams DEF Pending
<1> QED BY <1>1, <1>2, RegisterKeepsStreams, PeersKeepStreams, ConsumerKeepsStreams
        DEF Next, Stream

LEMMA StreamInit == Init => StreamInv
<1> SUFFICES ASSUME Init PROVE StreamInv
  OBVIOUS
<1>1. \A c \in Conns : Sent(c) = <<>>
  BY DEF Init, Sent
<1>2. Run(<<>>, 0)
  BY DEF Run
<1>3. \A c \in Conns : joined[c] = 0
  BY DEF Init
<1>4. RunsInv
  BY <1>1, <1>2, <1>3 DEF RunsInv
<1>5. ServedInv
  BY DEF Init, ServedInv
<1> QED BY <1>4, <1>5 DEF StreamInv

-----------------------------------------------------------------------------
(* The rows.                                                               *)

\* The stored results are older than the one at work.
RowsInv ==
  /\ RowsInOrder
  /\ \A i \in 1..Len(rows) : rows[i] <= seen /\ (cpc # "recv" => rows[i] < seen)

LEMMA RowsStep == TypeInv /\ RowsInv /\ [Next]_vars => RowsInv'
<1> SUFFICES ASSUME TypeInv, RowsInv, [Next]_vars PROVE RowsInv'
  OBVIOUS
<1>0. rows \in Seq(Nat) /\ Len(rows) \in Nat /\ seen \in Nat
  <2>1. 1..MaxMsgs \subseteq Nat
    BY BoundsAssumption
  <2>2. rows \in Seq(1..MaxMsgs)
    BY DEF TypeInv, TypeOK
  <2> QED BY <2>1, <2>2, BoundsAssumption DEF TypeInv, TypeOK
<1>1. CASE UNCHANGED rows /\ (UNCHANGED seen /\ (cpc = "recv" => cpc' = "recv"))
  BY <1>1 DEF RowsInv, RowsInOrder
<1>2. CASE ReceiveResult
  <2>1. cpc = "recv" /\ seen' = seen + 1 /\ rows' = rows
    BY <1>2 DEF ReceiveResult
  <2>2. \A i \in 1..Len(rows) : rows[i] \in Nat
    BY <1>0
  <2>3. \A i \in 1..Len(rows) : rows[i] <= seen + 1 /\ rows[i] < seen + 1
    BY <1>0, <2>2 DEF RowsInv
  <2> QED BY <2>1, <2>3 DEF RowsInv, RowsInOrder
<1>3. CASE SaveResult
  <2>1. cpc = "save" /\ cpc' = "recv" /\ seen' = seen
    BY <1>3 DEF SaveResult
  <2>2. CASE rows' = rows
    BY <2>1, <2>2 DEF RowsInv, RowsInOrder
  <2>3. CASE rows' = Append(rows, seen)
    <3>1. /\ Len(rows') = Len(rows) + 1 /\ rows'[Len(rows) + 1] = seen
          /\ \A i \in 1..Len(rows) : rows'[i] = rows[i]
      BY <1>0, <2>3, AppendPlaces
    <3>2. \A i \in 1..Len(rows) : rows[i] < seen
      BY <2>1 DEF RowsInv
    <3>3. ASSUME NEW i \in 1..(Len(rows) + 1), NEW k \in 1..(Len(rows) + 1), i < k
          PROVE  rows'[i] < rows'[k]
      <4>1. i \in 1..Len(rows) /\ rows'[i] = rows[i]
        <5>1. i \in 1..Len(rows)
          BY <1>0, <3>3
        <5> QED BY <3>1, <5>1
      <4>2. CASE k = Len(rows) + 1
        BY <3>1, <3>2, <4>1, <4>2
      <4>3. CASE k # Len(rows) + 1
        <5>1. k \in 1..Len(rows)
          BY <1>0, <4>3
        <5> QED BY <3>1, <3>3, <4>1, <5>1 DEF RowsInv, RowsInOrder
      <4> QED BY <4>2, <4>3
    <3>4. ASSUME NEW i \in 1..(Len(rows) + 1) PROVE rows'[i] <= seen
      <4>1. CASE i = Len(rows) + 1
        BY <1>0, <3>1, <4>1
      <4>2. CASE i # Len(rows) + 1
        <5>1. i \in 1..Len(rows)
          BY <1>0, <4>2
        <5> QED BY <3>1, <5>1 DEF RowsInv
      <4> QED BY <4>1, <4>2
    <3> QED BY <2>1, <3>1, <3>3, <3>4 DEF RowsInv, RowsInOrder
  <2> QED BY <1>3, <2>2, <2>3 DEF SaveResult
<1>4. CASE StartBroadcast \/ WriteMessage \/ WriteVanishes \/ WriteFails \/ EndBroadcast
           \/ DecodeResult \/ \E c \in Conns : PickClient(c)
  <2>1. UNCHANGED <<rows, seen>> /\ cpc # "recv"
    BY <1>4 DEF StartBroadcast, WriteMessage, WriteVanishes, WriteFails, EndBroadcast, DecodeResult,
                PickClient
  <2> QED BY <1>1, <2>1
<1>5. ASSUME NEW c \in Conns, Stream(c) \/ PeerReads(c) \/ PeerLeaves(c) PROVE RowsInv'
  <2>1. UNCHANGED <<rows, seen, cpc>>
    BY <1>5 DEF Stream, Upgrade, Register, ReadFails, Unregister, PeerReads, PeerLeaves, consumerVars
  <2> QED BY <1>1, <2>1
<1>6. CASE UNCHANGED vars
  BY <1>1, <1>6 DEF vars, consumerVars
<1> QED BY <1>2, <1>3, <1>4, <1>5, <1>6 DEF Next, Consumer

\* Clients and store see the results in the order in which they were consumed:
\* no client has a hole in its stream, and no result is stored twice.
THEOREM StreamsInOrder == Spec => []ResultsInOrder
<1> DEFINE Inv == TypeInv /\ HubInv /\ StreamInv /\ RowsInv
<1>1. Init => Inv
  <2>1. Init => RowsInv
    BY DEF Init, RowsInv, RowsInOrder
  <2> QED BY <2>1, TypeInit, HubInit, StreamInit
<1>2. Inv /\ [Next]_vars => Inv'
  BY TypeStep, HubStep, StreamStep, RowsStep
<1>3. Inv => ResultsInOrder
  <2> SUFFICES ASSUME Inv PROVE NoGapInStream
    BY DEF ResultsInOrder, RowsInv
  <2> SUFFICES ASSUME NEW c \in Conns
               PROVE  /\ Sent(c) # <<>> => Head(Sent(c)) \in {joined[c], joined[c] + 1}
                      /\ \A i \in 1..(Len(Sent(c)) - 1) : Sent(c)[i + 1] = Sent(c)[i] + 1
    BY DEF NoGapInStream
  <2>1. Run(Sent(c), joined[c])
    BY DEF StreamInv, RunsInv
  <2>2. Sent(c) # <<>> => Head(Sent(c)) = Sent(c)[1]
    BY SentTypes, TailPlaces
  <2> QED BY <2>1, <2>2 DEF Run
<1> QED BY <1>1, <1>2, <1>3, PTL DEF Spec

\* Once Broadcast returned, every live client that was registered in time has the
\* result; and a connection that was closed has left the map.
THEOREM ClientsAreServed == Spec => []HubServesClients
<1> DEFINE Inv == TypeInv /\ HubInv /\ StreamInv
<1>1. Init => Inv
  BY TypeInit, HubInit, StreamInit
<1>2. Inv /\ [Next]_vars => Inv'
  BY TypeStep, HubStep, StreamStep
<1>3. Inv => HubServesClients
  <2> SUFFICES ASSUME Inv PROVE ShownToEveryClient /\ ClosedIsForgotten
    BY DEF HubServesClients
  <2>1. ASSUME cpc \in {"decode", "save"},
               NEW c \in clients, joined[c] < seen, sock[c] = "open"
        PROVE  Sent(c) # <<>> /\ Last(Sent(c)) = seen
    <3>1. c \in Conns /\ ~Pending(c)
      BY <2>1, NoConnAssumption DEF TypeInv, TypeOK, HubInv, LoopInv, Pending
    <3>2. UpTo(Sent(c), joined[c], seen)
      BY <2>1, <3>1 DEF StreamInv, ServedInv
    <3>3. joined[c] \in Nat /\ seen \in Nat
      BY <3>1, SentTypes
    <3> QED BY <2>1, <3>2, <3>3 DEF UpTo, Last
  <2>2. ShownToEveryClient
    BY <2>1 DEF ShownToEveryClient
  <2>3. ClosedIsForgotten
    BY DEF ClosedIsForgotten, HubInv, MapInv
  <2> QED BY <2>2, <2>3
<1> QED BY <1>1, <1>2, <1>3, PTL DEF Spec

-----------------------------------------------------------------------------
(* The dashboard: lists.                                                   *)

\* What putting a line in front gives.
LEMMA PrependPlaces ==
  ASSUME NEW S, NEW lines \in Seq(S), NEW e \in S, NEW n \in Nat \ {0}
  PROVE  LET p == Prepend(e, lines, n) IN
         /\ p \in Seq(S) /\ Len(p) \in Nat \ {0} /\ Len(lines) \in Nat /\ p[1] = e
         /\ Len(p) <= Len(lines) + 1
         /\ Len(lines) <= n => Len(p) <= n
         /\ \A i \in 1..(Len(p) - 1) : i \in 1..Len(lines) /\ p[i + 1] = lines[i]
<1>1. Len(lines) \in Nat /\ <<e>> \in Seq(S) /\ Len(<<e>>) = 1 /\ <<e>>[1] = e
  OBVIOUS
<1>2. CASE Len(lines) < n
  <2>1. Prepend(e, lines, n) = <<e>> \o lines
    BY <1>2 DEF Prepend
  <2> QED BY <1>1, <1>2, <2>1
<1>3. CASE ~(Len(lines) < n)
  <2>1. PICK rest : rest = SubSeq(lines, 1, n - 1)
    OBVIOUS
  <2>2. /\ rest \in Seq(S) /\ Len(rest) = n - 1
        /\ \A i \in 1..(n - 1) : rest[i] = lines[i]
    BY <1>1, <1>3, <2>1
  <2>3. Prepend(e, lines, n) = <<e>> \o rest
    BY <1>3, <2>1 DEF Prepend
  <2> QED BY <1>1, <1>3, <2>2, <2>3
<1> QED BY <1>2, <1>3

LEMMA Figures ==
  /\ MAX_EVENTS \in Nat \ {0} /\ LogLines \in Nat \ {0}
  /\ MaxResults \in Nat /\ MaxFails \in Nat /\ MaxFires \in Nat /\ MaxPolls \in Nat /\ MaxStops \in Nat
BY TabAssumption

LEMMA TabTypeInit == TabInit => TabTypeOK
<1> SUFFICES ASSUME TabInit PROVE TabTypeOK
  OBVIOUS
<1>1. /\ <<>> \in Seq(Kinds) /\ <<>> \in Seq(1..MaxResults) /\ <<>> \in Seq((1..MaxResults) \X Sockets)
      /\ <<>> \in Seq({"QUEUED", "FAILED"}) /\ Len(<<>>) = 0 /\ 0 \in 0..MaxStops
  BY Figures
<1>2. socket \in [Sockets -> {"none", "connecting", "open", "ended", "closed"}] /\ owner \in [Sockets -> Runs]
  BY DEF TabInit, Main, Runs
<1>3. wire \in [Sockets -> Seq(1..MaxResults)]
  BY <1>1 DEF TabInit
<1>4. closed \in [Runs -> BOOLEAN]
  BY Zenon DEF TabInit
<1>5. /\ part \in {"hook", "header", "console"} /\ up \in BOOLEAN /\ strict \in BOOLEAN
      /\ page \in BOOLEAN /\ connected \in BOOLEAN /\ busy \in BOOLEAN
  BY Zenon DEF TabInit
<1>6. /\ stops \in 0..MaxStops /\ kinds \in Seq(Kinds) /\ Len(kinds) <= MaxResults
      /\ events \in Seq((1..MaxResults) \X Sockets) /\ Len(events) <= MAX_EVENTS
      /\ logLines \in Seq({"QUEUED", "FAILED"}) /\ Len(logLines) <= LogLines
  <2>1. stops = 0 /\ kinds = <<>> /\ events = <<>> /\ logLines = <<>>
    BY DEF TabInit
  <2> QED BY <1>1, <2>1, Figures
<1>7. /\ timers \in [Runs -> Nat] /\ polls \in [{"sent", "ok", "error"} -> Nat] /\ jobs \in Nat
      /\ gateway \in {"online", "offline"}
      /\ calls \in [1..MaxFires -> {"none", "sent", "accepted", "refused", "lost", "done"}]
  BY DEF TabInit
<1> QED BY <1>2, <1>3, <1>4, <1>5, <1>6, <1>7, Zenon DEF TabTypeOK

LEMMA HookTypes ==
  ASSUME TabTypeOK, HookNext
  PROVE  TabTypeOK'
<1> USE DEF TabTypeOK, serverVars, headerVars, consoleVars
<1>1. ASSUME NEW m \in Runs, TimerFires(m) PROVE TabTypeOK'
  <2>1. timers' \in [Runs -> Nat]
    BY <1>1 DEF TimerFires
  <2> QED BY <1>1, <2>1 DEF TimerFires
<1>2. ASSUME NEW s \in Sockets, onopen(s) PROVE TabTypeOK'
  BY <1>2 DEF onopen, setConnected
<1>3. ASSUME NEW s \in Sockets, SocketEnds(s) PROVE TabTypeOK'
  <2>1. wire' \in [Sockets -> Seq(1..MaxResults)]
    BY <1>3 DEF SocketEnds
  <2> QED BY <1>3, <2>1 DEF SocketEnds
<1>4. ASSUME NEW s \in Sockets, onclose(s) PROVE TabTypeOK'
  <2>1. timers' \in [Runs -> Nat]
    BY <1>4 DEF onclose
  <2> QED BY <1>4, <2>1 DEF onclose, setConnected
<1>5. ASSUME NEW s \in Sockets, onmessage(s) PROVE TabTypeOK'
  <2>1. PICK w \in Seq(1..MaxResults) : w = wire[s]
    OBVIOUS
  <2>2. w # <<>> /\ Tail(w) \in Seq(1..MaxResults) /\ Head(w) \in 1..MaxResults
    BY <1>5, <2>1, TailPlaces DEF onmessage
  <2>3. wire' \in [Sockets -> Seq(1..MaxResults)]
    BY <1>5, <2>1, <2>2 DEF onmessage
  <2>0. PICK E : E = (1..MaxResults) \X Sockets
    OBVIOUS
  <2>4. PICK u \in Seq(E), e \in E : u = events /\ e = <<Head(w), s>>
    BY <2>0, <2>2
  <2>5. Prepend(e, u, MAX_EVENTS) \in Seq(E) /\ Len(Prepend(e, u, MAX_EVENTS)) <= MAX_EVENTS
    <3>1. Len(u) <= MAX_EVENTS
      BY <2>4
    <3> QED BY <3>1, PrependPlaces, Figures
  <2>6. events' \in Seq((1..MaxResults) \X Sockets) /\ Len(events') <= MAX_EVENTS
    BY <1>5, <2>0, <2>1, <2>4, <2>5 DEF onmessage
  <2> QED BY <1>5, <2>3, <2>6 DEF onmessage
<1> QED BY <1>1, <1>2, <1>3, <1>4, <1>5 DEF HookNext

LEMMA OtherTypes ==
  ASSUME TabTypeOK, Broadcast \/ HeaderNext \/ ConsoleNext \/ Unmount \/ GatewayStops \/ GatewayStarts
  PROVE  TabTypeOK'
<1> USE DEF TabTypeOK, hookVars, serverVars, headerVars, consoleVars
<1>1. CASE Broadcast
  <2>1. PICK k \in Kinds : kinds' = Append(kinds, k)
    BY <1>1 DEF Broadcast
  <2>2. kinds' \in Seq(Kinds) /\ Len(kinds') = Len(kinds) + 1 /\ Len(kinds) + 1 \in 1..MaxResults
    <3>1. Len(kinds) < MaxResults /\ Len(kinds) \in Nat
      BY <1>1 DEF Broadcast
    <3>2. PICK u \in Seq(Kinds) : u = kinds
      OBVIOUS
    <3>3. Append(u, k) \in Seq(Kinds) /\ Len(Append(u, k)) = Len(u) + 1
      BY AppendPlaces
    <3>4. Len(kinds) + 1 \in 1..MaxResults
      BY <3>1, Figures
    <3>5. kinds' = Append(u, k)
      BY <2>1, <3>2
    <3> QED BY <3>2, <3>3, <3>4, <3>5
  <2>3. wire' \in [Sockets -> Seq(1..MaxResults)]
    <3>1. ASSUME NEW s \in Sockets PROVE Append(wire[s], Len(kinds) + 1) \in Seq(1..MaxResults)
      <4>1. PICK n \in 1..MaxResults : n = Len(kinds) + 1
        BY <2>2
      <4>2. PICK w \in Seq(1..MaxResults) : w = wire[s]
        OBVIOUS
      <4>3. Append(w, n) \in Seq(1..MaxResults)
        OBVIOUS
      <4> QED BY <4>1, <4>2, <4>3
    <3> QED BY <1>1, <3>1 DEF Broadcast
  <2>4. Len(kinds') <= MaxResults
    BY <2>2
  <2> QED BY <1>1, <2>2, <2>3, <2>4 DEF Broadcast
<1>2. CASE poll
  BY <1>2 DEF poll
<1>3. CASE HealthAnswer
  <2>1. PICK a \in {"ok", "error"} :
          polls' = [polls EXCEPT !["sent"] = @ - 1, ![a] = @ + 1] /\ polls["sent"] > 0
    BY <1>3 DEF HealthAnswer
  <2>2. polls["sent"] - 1 \in Nat /\ polls[a] + 1 \in Nat
    BY <2>1
  <2>3. polls' \in [{"sent", "ok", "error"} -> Nat]
    BY <2>1, <2>2
  <2> QED BY <1>3, <2>3 DEF HealthAnswer
<1>4. ASSUME NEW answer \in {"ok", "error"}, ShowHealth(answer) PROVE TabTypeOK'
  BY <1>4 DEF ShowHealth
<1>5. ASSUME NEW f \in 1..MaxFires, fire(f) PROVE TabTypeOK'
  BY <1>5 DEF fire
<1>6. ASSUME NEW f \in 1..MaxFires, Dispatch(f) PROVE TabTypeOK'
  BY <1>6, SMTT(40) DEF Dispatch
<1>7. ASSUME NEW f \in 1..MaxFires, Dispatched(f) PROVE TabTypeOK'
  <2> PICK E : E = {"QUEUED", "FAILED"}
    OBVIOUS
  <2>1. PICK u \in Seq(E) : u = logLines
    OBVIOUS
  <2>2. PICK e \in E : e = IF request(calls[f]) THEN "QUEUED" ELSE "FAILED"
    BY <2>1
  <2>3. Prepend(e, u, LogLines) \in Seq(E) /\ Len(Prepend(e, u, LogLines)) <= LogLines
    <3>1. Len(u) <= LogLines
      BY <2>1
    <3> QED BY <3>1, PrependPlaces, Figures
  <2>4. logLines' \in Seq({"QUEUED", "FAILED"}) /\ Len(logLines') <= LogLines
    BY <1>7, <2>1, <2>2, <2>3 DEF Dispatched
  <2> QED BY <1>7, <2>4 DEF Dispatched
<1>8. CASE Unmount
  <2>1. wire' \in [Sockets -> Seq(1..MaxResults)]
    <3>1. <<>> \in Seq(1..MaxResults)
      OBVIOUS
    <3> QED BY <1>8, <3>1 DEF Unmount
  <2> QED BY <1>8, <2>1 DEF Unmount
<1>9. CASE GatewayStops
  <2>1. stops' \in 0..MaxStops
    BY <1>9, Figures DEF GatewayStops
  <2> QED BY <1>9, <2>1 DEF GatewayStops
<1>10. CASE GatewayStarts
  BY <1>10 DEF GatewayStarts
<1> QED BY <1>1, <1>2, <1>3, <1>4, <1>5, <1>6, <1>7, <1>8, <1>9, <1>10 DEF HeaderNext, ConsoleNext

LEMMA TabTypeStep == TabTypeOK /\ [TabNext]_tabVars => TabTypeOK'
<1> SUFFICES ASSUME TabTypeOK, [TabNext]_tabVars PROVE TabTypeOK'
  OBVIOUS
<1>1. CASE UNCHANGED tabVars
  BY <1>1 DEF tabVars, serverVars, hookVars, headerVars, consoleVars, TabTypeOK
<1> QED BY <1>1, HookTypes, OtherTypes DEF TabNext

-----------------------------------------------------------------------------
(* Sockets.  They are numbered as they are opened.  Of a run of the hook   *)
(* at most one is not through with its close, and none while a timer is    *)
(* pending.                                                                *)

Own(m) == {s \in Used : owner[s] = m /\ socket[s] # "closed"}

SocketsInv ==
  /\ \E n \in 1..(2 + MaxFails) : Used = 1..n
  /\ \A m \in Runs :
       /\ timers[m] \in {0, 1} /\ (timers[m] = 1 => Own(m) = {})
       /\ \A a, b \in Own(m) : a = b
  /\ ~strict => timers[2] = 0 /\ \A s \in Sockets : owner[s] = 1

LEMMA SocketsInit == TabInit => SocketsInv
<1> SUFFICES ASSUME TabInit PROVE SocketsInv
  OBVIOUS
<1>1. PICK n \in 1..2 : n = Main
  BY DEF Main
<1>2. n \in Sockets /\ n \in 1..(2 + MaxFails) /\ 1..n \subseteq Sockets
  BY Figures DEF Sockets
<1>3. \A s \in Sockets :
        /\ socket[s] = IF s = n THEN "connecting" ELSE IF s < n THEN "ended" ELSE "none"
        /\ owner[s] = IF s = 1 THEN 1 ELSE n
        /\ s \in Nat \ {0}
  BY <1>1, Figures DEF TabInit, Sockets
<1>4. Used = 1..n
  <2>1. \A s \in Sockets : (socket[s] # "none" <=> s <= n) /\ (s <= n <=> s \in 1..n)
    BY <1>3
  <2> QED BY <1>2, <2>1, Zenon DEF Used
<1>5. \A m \in Runs : timers[m] = 0
  BY DEF TabInit
<1>6. \A m \in Runs : \A a, b \in Own(m) : a = b
  BY <1>2, <1>3, <1>4 DEF Own
<1>7. ~strict => n = 1
  BY <1>1 DEF Main
<1> QED BY <1>2, <1>3, <1>4, <1>5, <1>6, <1>7 DEF SocketsInv, Runs

\* The steps that touch sockets and timers, and what they do to them.
LEMMA SocketSteps ==
  ASSUME TabTypeOK, [TabNext]_tabVars
  PROVE  /\ strict' = strict
         /\ \/ \E m \in Runs : TimerFires(m)
            \/ \E s \in Sockets : onopen(s) \/ SocketEnds(s) \/ onclose(s)
            \/ Unmount
            \/ UNCHANGED <<timers, socket, owner, connected, page>>
<1> USE DEF serverVars, hookVars, headerVars, consoleVars
<1>1. CASE UNCHANGED tabVars
  BY <1>1 DEF tabVars
<1>2. CASE HookNext
  BY <1>2 DEF HookNext, TimerFires, onopen, SocketEnds, onclose, onmessage
<1>3. CASE Broadcast \/ HeaderNext
  BY <1>3 DEF Broadcast, HeaderNext, poll, HealthAnswer, ShowHealth
<1>4. CASE ConsoleNext
  BY <1>4 DEF ConsoleNext, fire, Dispatch, Dispatched
<1>5. CASE Unmount \/ GatewayStops \/ GatewayStarts
  BY <1>5 DEF Unmount, GatewayStops, GatewayStarts
<1> QED BY <1>1, <1>2, <1>3, <1>4, <1>5 DEF TabNext

\* A timer opens the next socket.
LEMMA TimerOpens ==
  ASSUME TabTypeOK, SocketsInv, NEW m \in Runs, TimerFires(m)
  PROVE  \E n \in 1..(2 + MaxFails) :
           /\ Used = 1..n /\ n + 1 \in 1..(2 + MaxFails) /\ Used' = 1..(n + 1)
           /\ timers[m] = 1 /\ timers' = [timers EXCEPT ![m] = 0]
           /\ socket' = [socket EXCEPT ![n + 1] = "connecting"]
           /\ owner' = [owner EXCEPT ![n + 1] = m]
<1>1. PICK n \in 1..(2 + MaxFails) : Used = 1..n
  BY DEF SocketsInv
<1>2. Cardinality(Used) = n
  BY <1>1, FS_Interval
<1>3. n # 2 + MaxFails
  BY <1>1 DEF TimerFires, Sockets
<1>4. n + 1 \in 1..(2 + MaxFails)
  BY <1>3, Figures
<1>5. timers[m] = 1 /\ timers' = [timers EXCEPT ![m] = 0]
  <2>1. timers[m] > 0 /\ timers' = [timers EXCEPT ![m] = @ - 1] /\ timers[m] \in {0, 1}
    BY DEF TimerFires, SocketsInv
  <2>2. timers[m] = 1 /\ timers[m] - 1 = 0
    BY <2>1
  <2> QED BY <2>1, <2>2, Zenon
<1>6. socket' = [socket EXCEPT ![n + 1] = "connecting"] /\ owner' = [owner EXCEPT ![n + 1] = m]
  BY <1>2 DEF TimerFires
<1>7. Used' = 1..(n + 1)
  <2>1. \A s \in Sockets : socket[s] # "none" <=> s \in 1..n
    BY <1>1 DEF Used
  <2>2. \A s \in Sockets : socket'[s] # "none" <=> s \in 1..n \/ s = n + 1
    BY <1>4, <1>6, <2>1 DEF Sockets, TabTypeOK
  <2>3. \A s : s \in 1..(n + 1) <=> s \in Sockets /\ (s \in 1..n \/ s = n + 1)
    BY <1>4, Figures DEF Sockets
  <2> QED BY <2>2, <2>3 DEF Used
<1> QED BY <1>1, <1>4, <1>5, <1>6, <1>7

LEMMA SocketsStep == TabTypeOK /\ SocketsInv /\ [TabNext]_tabVars => SocketsInv'
<1> SUFFICES ASSUME TabTypeOK, SocketsInv, [TabNext]_tabVars PROVE SocketsInv'
  OBVIOUS
<1>1. strict' = strict
  BY SocketSteps
<1>2. /\ timers \in [Runs -> Nat] /\ owner \in [Sockets -> Runs]
      /\ socket \in [Sockets -> {"none", "connecting", "open", "ended", "closed"}]
  BY DEF TabTypeOK
<1>3. ASSUME NEW m \in Runs, TimerFires(m) PROVE SocketsInv'
  <2>1. PICK n \in 1..(2 + MaxFails) :
           /\ Used = 1..n /\ n + 1 \in 1..(2 + MaxFails) /\ Used' = 1..(n + 1)
           /\ timers[m] = 1 /\ timers' = [timers EXCEPT ![m] = 0]
           /\ socket' = [socket EXCEPT ![n + 1] = "connecting"]
           /\ owner' = [owner EXCEPT ![n + 1] = m]
    BY <1>3, TimerOpens
  <2>2. n + 1 \in Sockets /\ n + 1 \notin Used /\ Used' = Used \cup {n + 1}
    BY <2>1 DEF Sockets
  <2>3. /\ socket'[n + 1] = "connecting" /\ owner'[n + 1] = m
        /\ \A s \in Used : socket'[s] = socket[s] /\ owner'[s] = owner[s]
    BY <1>2, <2>1, <2>2
  <2>4. Own(m)' = {n + 1}
    <3>1. Own(m) = {}
      BY <2>1 DEF SocketsInv
    <3> QED BY <2>2, <2>3, <3>1 DEF Own
  <2>5. \A k \in Runs : k # m => Own(k)' = Own(k)
    BY <2>2, <2>3 DEF Own
  <2>6. \A k \in Runs : timers'[k] = IF k = m THEN 0 ELSE timers[k]
    BY <1>2, <2>1
  <2>7. \A k \in Runs : /\ timers'[k] \in {0, 1} /\ (timers'[k] = 1 => Own(k)' = {})
                        /\ \A a, b \in Own(k)' : a = b
    BY <2>4, <2>5, <2>6 DEF SocketsInv
  <2>8. ~strict => timers'[2] = 0 /\ \A s \in Sockets : owner'[s] = 1
    <3>1. ~strict => m = 1
      BY <2>1 DEF SocketsInv, Runs
    <3> QED BY <1>2, <2>1, <2>6, <3>1 DEF SocketsInv, Runs
  <2> QED BY <1>1, <2>1, <2>7, <2>8 DEF SocketsInv
<1>4. ASSUME NEW s \in Sockets, onopen(s) \/ SocketEnds(s) PROVE SocketsInv'
  <2>1. /\ timers' = timers /\ owner' = owner
        /\ \A t \in Sockets : (socket[t] = "none" <=> socket'[t] = "none")
                              /\ (socket[t] = "closed" <=> socket'[t] = "closed")
    BY <1>2, <1>4 DEF onopen, SocketEnds
  <2>2. Used' = Used /\ \A m \in Runs : Own(m)' = Own(m)
    BY <2>1 DEF Used, Own
  <2> QED BY <1>1, <2>1, <2>2 DEF SocketsInv
<1>5. ASSUME NEW s \in Sockets, onclose(s) PROVE SocketsInv'
  <2>1. /\ owner' = owner /\ socket[s] = "ended" /\ socket' = [socket EXCEPT ![s] = "closed"]
        /\ timers' = timers \/ timers' = [timers EXCEPT ![owner[s]] = @ + 1]
    BY <1>5 DEF onclose
  <2>2. Used' = Used /\ s \in Used
    BY <1>2, <2>1 DEF Used
  <2>3. \A m \in Runs : Own(m)' = Own(m) \ {s}
    BY <1>2, <2>1, <2>2 DEF Own, Used
  <2>4. PICK r \in Runs : r = owner[s]
    BY <1>2
  <2>5. s \in Own(r) /\ timers[r] = 0 /\ Own(r)' = {}
    BY <2>1, <2>2, <2>3, <2>4 DEF Own, SocketsInv
  <2>6. \A m \in Runs : timers'[m] = timers[m] \/ (m = r /\ timers'[m] = 1)
    BY <1>2, <2>1, <2>4, <2>5
  <2>7. \A k \in Runs : /\ timers'[k] \in {0, 1} /\ (timers'[k] = 1 => Own(k)' = {})
                        /\ \A a, b \in Own(k)' : a = b
    BY <2>3, <2>5, <2>6 DEF SocketsInv
  <2>8. ~strict => timers'[2] = 0 /\ \A t \in Sockets : owner'[t] = 1
    BY <2>1, <2>4, <2>6 DEF SocketsInv, Runs
  <2> QED BY <1>1, <2>2, <2>7, <2>8 DEF SocketsInv
<1>6. CASE Unmount
  <2>1. /\ timers' = timers /\ owner' = owner
        /\ \A t \in Sockets : (socket[t] = "none" <=> socket'[t] = "none")
                              /\ (socket[t] = "closed" <=> socket'[t] = "closed")
    BY <1>2, <1>6 DEF Unmount, Live, Used
  <2>2. Used' = Used /\ \A m \in Runs : Own(m)' = Own(m)
    BY <2>1 DEF Used, Own
  <2> QED BY <1>1, <2>1, <2>2 DEF SocketsInv
<1>7. CASE UNCHANGED <<timers, socket, owner, connected, page>>
  BY <1>1, <1>7 DEF SocketsInv, Used, Own
<1> QED BY <1>3, <1>4, <1>5, <1>6, <1>7, SocketSteps

-----------------------------------------------------------------------------
(* What follows of the sets of sockets.                                    *)

LEMMA AtMostOne ==
  ASSUME NEW S, \A a, b \in S : a = b
  PROVE  IsFiniteSet(S) /\ Cardinality(S) = IF S = {} THEN 0 ELSE 1
<1>1. CASE S = {}
  BY <1>1, FS_EmptySet
<1>2. CASE S # {}
  <2>1. PICK a \in S : S = {a}
    BY <1>2
  <2> QED BY <1>2, <2>1, FS_Singleton
<1> QED BY <1>1, <1>2

\* What a run of the hook has to do: one of a socket at work, a close to handle, a timer.
LEMMA OneThing ==
  ASSUME TabTypeOK, SocketsInv, NEW m \in Runs
  PROVE  /\ Cardinality(Live(m)) \in {0, 1} /\ (Cardinality(Live(m)) = 0 <=> Live(m) = {})
         /\ Cardinality(Ended(m)) \in {0, 1} /\ (Cardinality(Ended(m)) = 0 <=> Ended(m) = {})
         /\ timers[m] \in {0, 1}
         /\ Live(m) = {} \/ Ended(m) = {}
         /\ timers[m] = 1 => Live(m) = {} /\ Ended(m) = {}
<1>1. Live(m) \subseteq Own(m) /\ Ended(m) \subseteq Own(m) /\ Live(m) \cap Ended(m) = {}
  BY DEF Live, Ended, Own
<1>2. \A a, b \in Own(m) : a = b
  BY DEF SocketsInv
<1>3. Cardinality(Live(m)) = (IF Live(m) = {} THEN 0 ELSE 1)
  BY <1>1, <1>2, AtMostOne
<1>4. Cardinality(Ended(m)) = (IF Ended(m) = {} THEN 0 ELSE 1)
  BY <1>1, <1>2, AtMostOne
<1>5. timers[m] \in {0, 1} /\ (timers[m] = 1 => Own(m) = {})
  BY DEF SocketsInv
<1>6. Live(m) = {} \/ Ended(m) = {}
  BY <1>1, <1>2
<1>7. timers[m] = 1 => Live(m) = {} /\ Ended(m) = {}
  BY <1>1, <1>5
<1> QED BY <1>3, <1>4, <1>5, <1>6, <1>7

LEMMA OneConnection == TabTypeOK /\ SocketsInv => OneConnectionAtATime
<1> SUFFICES ASSUME TabTypeOK, SocketsInv, NEW m \in Runs
             PROVE  Cardinality(Live(m)) + Cardinality(Ended(m)) + timers[m] <= 1
  BY DEF OneConnectionAtATime
<1>1. PICK l, e, t : l = Cardinality(Live(m)) /\ e = Cardinality(Ended(m)) /\ t = timers[m]
  OBVIOUS
<1>2. /\ l \in {0, 1} /\ e \in {0, 1} /\ t \in {0, 1}
      /\ (l = 0 \/ e = 0) /\ (t = 1 => l = 0 /\ e = 0)
  BY <1>1, OneThing
<1>3. l + e + t <= 1
  BY <1>2
<1> QED BY <1>1, <1>3

\* After the cleanup a timer can still become a socket, and nothing becomes more.
LEMMA OrphanStep ==
  ASSUME TabTypeOK, SocketsInv, TabTypeOK', SocketsInv', [TabNext]_tabVars,
         NEW m \in Runs, closed[m]
  PROVE  Cardinality(Live(m)) + timers[m] >= Cardinality(Live(m)') + timers'[m]
<1>1. ASSUME Live(m) = {}, timers[m] = 0 PROVE Live(m)' = {} /\ timers'[m] = 0
  <2>1. /\ timers \in [Runs -> Nat] /\ owner \in [Sockets -> Runs]
        /\ socket \in [Sockets -> {"none", "connecting", "open", "ended", "closed"}]
    BY DEF TabTypeOK
  <2>2. ASSUME NEW k \in Runs, TimerFires(k) PROVE Live(m)' = {} /\ timers'[m] = 0
    <3>1. PICK n \in 1..(2 + MaxFails) :
             /\ Used = 1..n /\ n + 1 \in 1..(2 + MaxFails) /\ Used' = 1..(n + 1)
             /\ timers[k] = 1 /\ timers' = [timers EXCEPT ![k] = 0]
             /\ socket' = [socket EXCEPT ![n + 1] = "connecting"]
             /\ owner' = [owner EXCEPT ![n + 1] = k]
      BY <2>2, TimerOpens
    <3>2. m # k /\ timers'[m] = 0
      BY <1>1, <2>1, <3>1
    <3>3. n + 1 \in Sockets /\ n + 1 \notin Used /\ Used' = Used \cup {n + 1}
      BY <3>1 DEF Sockets
    <3>4. owner'[n + 1] = k /\ \A s \in Used : socket'[s] = socket[s] /\ owner'[s] = owner[s]
      BY <2>1, <3>1, <3>3
    <3>5. Live(m)' \subseteq Live(m)
      BY <3>2, <3>3, <3>4 DEF Live
    <3> QED BY <1>1, <3>2, <3>5
  <2>3. ASSUME NEW s \in Sockets, onopen(s) \/ SocketEnds(s) \/ onclose(s)
        PROVE  Live(m)' = {} /\ timers'[m] = 0
    <3>1. timers'[m] = timers[m]
      <4>1. CASE onopen(s) \/ SocketEnds(s)
        BY <4>1 DEF onopen, SocketEnds
      <4>2. CASE onclose(s)
        <5>1. timers' = timers \/ (owner[s] # m /\ timers' = [timers EXCEPT ![owner[s]] = @ + 1])
          BY <4>2 DEF onclose
        <5> QED BY <2>1, <5>1
      <4> QED BY <2>3, <4>1, <4>2
    <3>2. Live(m)' \subseteq Live(m)
      BY <2>1, <2>3 DEF Live, Used, onopen, SocketEnds, onclose
    <3> QED BY <1>1, <3>1, <3>2
  <2>4. CASE Unmount
    <3>1. Live(m)' \subseteq Live(m) /\ timers' = timers
      BY <2>1, <2>4 DEF Live, Used, Unmount
    <3> QED BY <1>1, <3>1
  <2>5. CASE UNCHANGED <<timers, socket, owner, connected, page>>
    BY <1>1, <2>5 DEF Live, Used
  <2> QED BY <2>2, <2>3, <2>4, <2>5, SocketSteps
<1>2. PICK l, t, k, u : l = Cardinality(Live(m)) /\ t = timers[m] /\ k = Cardinality(Live(m)') /\ u = timers'[m]
  OBVIOUS
<1>3. l \in {0, 1} /\ t \in {0, 1} /\ (l = 0 <=> Live(m) = {})
  BY <1>2, OneThing
<1>4. k \in {0, 1} /\ u \in {0, 1} /\ (u = 1 => k = 0) /\ (k = 0 <=> Live(m)' = {})
  <2>1. Live(m)' \subseteq Own(m)' /\ \A a, b \in Own(m)' : a = b
    BY DEF Live, Own, SocketsInv
  <2>2. Cardinality(Live(m)') = (IF Live(m)' = {} THEN 0 ELSE 1)
    BY <2>1, AtMostOne
  <2>3. timers'[m] \in {0, 1} /\ (timers'[m] = 1 => Own(m)' = {})
    BY DEF SocketsInv
  <2> QED BY <1>2, <2>1, <2>2, <2>3
<1>5. l = 0 /\ t = 0 => k = 0 /\ u = 0
  BY <1>1, <1>2, <1>3, <1>4
<1>6. l + t >= k + u
  BY <1>3, <1>4, <1>5
<1> QED BY <1>2, <1>6

-----------------------------------------------------------------------------
(* What the page shows of its connection.                                  *)

LEMMA OnlyOne ==
  ASSUME TabTypeOK, SocketsInv, ~strict, NEW s \in Used, NEW t \in Used,
         socket[s] # "closed", socket[t] # "closed"
  PROVE  s = t
<1>1. s \in Own(1) /\ t \in Own(1)
  BY DEF Own, SocketsInv, Used
<1> QED BY <1>1 DEF SocketsInv, Runs

LEMMA ConnectedInit == TabInit => ConnectedIsCurrent
<1> SUFFICES ASSUME TabInit PROVE ~connected /\ \A s \in Used : socket[s] # "open"
  BY DEF ConnectedIsCurrent
<1> QED BY DEF TabInit, Used

LEMMA ConnectedStep ==
  TabTypeOK /\ SocketsInv /\ ConnectedIsCurrent /\ [TabNext]_tabVars => ConnectedIsCurrent'
<1> SUFFICES ASSUME TabTypeOK, SocketsInv, ConnectedIsCurrent, [TabNext]_tabVars, page', ~strict'
             PROVE  IF connected' THEN \E s \in Used' : socket'[s] \in {"open", "ended"}
                    ELSE \A s \in Used' : socket'[s] # "open"
  BY DEF ConnectedIsCurrent
<1>1. ~strict /\ socket \in [Sockets -> {"none", "connecting", "open", "ended", "closed"}]
  BY SocketSteps DEF TabTypeOK
<1>2. ASSUME page
      PROVE  IF connected THEN \E s \in Used : socket[s] \in {"open", "ended"}
             ELSE \A s \in Used : socket[s] # "open"
  BY <1>1, <1>2 DEF ConnectedIsCurrent
<1>3. ASSUME NEW m \in Runs, TimerFires(m)
      PROVE  IF connected' THEN \E s \in Used' : socket'[s] \in {"open", "ended"}
             ELSE \A s \in Used' : socket'[s] # "open"
  <2>1. PICK n \in 1..(2 + MaxFails) :
           /\ Used = 1..n /\ n + 1 \in 1..(2 + MaxFails) /\ Used' = 1..(n + 1)
           /\ timers[m] = 1 /\ timers' = [timers EXCEPT ![m] = 0]
           /\ socket' = [socket EXCEPT ![n + 1] = "connecting"]
           /\ owner' = [owner EXCEPT ![n + 1] = m]
    BY <1>3, TimerOpens
  <2>2. n + 1 \in Sockets /\ n + 1 \notin Used /\ Used' = Used \cup {n + 1}
    BY <2>1 DEF Sockets
  <2>3. socket'[n + 1] = "connecting" /\ \A s \in Used : socket'[s] = socket[s]
    BY <1>1, <2>1, <2>2
  <2>4. connected' = connected /\ page
    BY <1>3 DEF TimerFires
  <2> QED BY <1>2, <2>2, <2>3, <2>4
<1>4. ASSUME NEW s \in Sockets, onopen(s)
      PROVE  connected' /\ s \in Used' /\ socket'[s] = "open"
  BY <1>1, <1>4 DEF onopen, setConnected, Used
<1>5. ASSUME NEW s \in Sockets, SocketEnds(s)
      PROVE  IF connected' THEN \E t \in Used' : socket'[t] \in {"open", "ended"}
             ELSE \A t \in Used' : socket'[t] # "open"
  <2>1. /\ connected' = connected /\ page /\ socket' = [socket EXCEPT ![s] = "ended"]
        /\ socket[s] \in {"connecting", "open"}
    BY <1>5 DEF SocketEnds
  <2>2. Used' = Used
    BY <1>1, <2>1 DEF Used
  <2> QED BY <1>1, <1>2, <2>1, <2>2
<1>6. ASSUME NEW s \in Sockets, onclose(s)
      PROVE  ~connected' /\ \A t \in Used' : socket'[t] # "open"
  <2>1. /\ ~connected' /\ socket' = [socket EXCEPT ![s] = "closed"] /\ socket[s] = "ended"
    BY <1>6 DEF onclose, setConnected
  <2>2. Used' = Used /\ s \in Used
    BY <1>1, <2>1 DEF Used
  <2>3. \A t \in Used : socket[t] = "open" => t = s
    BY <1>1, <2>1, <2>2, OnlyOne
  <2> QED BY <1>1, <2>1, <2>2, <2>3
<1>7. ~Unmount
  BY DEF Unmount
<1>8. CASE UNCHANGED <<timers, socket, owner, connected, page>>
  BY <1>2, <1>8 DEF Used
<1> QED BY <1>3, <1>4, <1>5, <1>6, <1>7, <1>8, SocketSteps

-----------------------------------------------------------------------------
(* The wires.  What is on its way to a socket are the last results, in     *)
(* order; Low(s) is the last one before them.                              *)

Low(s) == Len(kinds) - Len(wire[s])

WiresInv ==
  \A s \in Sockets :
    /\ wire[s] # <<>> => socket[s] = "open"
    /\ Len(wire[s]) <= Len(kinds)
    /\ \A i \in 1..Len(wire[s]) : wire[s][i] = Low(s) + i

\* The steps the feed depends on.
LEMMA FeedSteps ==
  ASSUME [TabNext]_tabVars
  PROVE  \/ \E m \in Runs : TimerFires(m)
         \/ \E s \in Sockets : onopen(s) \/ SocketEnds(s) \/ onclose(s) \/ onmessage(s)
         \/ Unmount \/ Broadcast
         \/ UNCHANGED <<strict, page, kinds, events, socket, owner, wire>>
<1> USE DEF serverVars, hookVars, headerVars, consoleVars
<1>1. CASE UNCHANGED tabVars
  BY <1>1 DEF tabVars
<1>2. CASE HookNext
  BY <1>2 DEF HookNext
<1>3. CASE HeaderNext
  BY <1>3 DEF HeaderNext, poll, HealthAnswer, ShowHealth
<1>4. CASE ConsoleNext
  BY <1>4 DEF ConsoleNext, fire, Dispatch, Dispatched
<1>5. CASE GatewayStops \/ GatewayStarts
  BY <1>5 DEF GatewayStops, GatewayStarts
<1> QED BY <1>1, <1>2, <1>3, <1>4, <1>5 DEF TabNext

LEMMA WireFacts ==
  ASSUME TabTypeOK, NEW s \in Sockets
  PROVE  /\ wire[s] \in Seq(1..MaxResults) /\ Len(wire[s]) \in Nat /\ Len(kinds) \in Nat
         /\ wire[s] = <<>> <=> Len(wire[s]) = 0
BY DEF TabTypeOK

LEMMA WiresInit == TabInit => WiresInv
<1> SUFFICES ASSUME TabInit, NEW s \in Sockets PROVE wire[s] = <<>> /\ kinds = <<>>
  BY DEF WiresInv
<1> QED BY DEF TabInit

LEMMA WiresStep ==
  TabTypeOK /\ TabTypeOK' /\ SocketsInv /\ WiresInv /\ [TabNext]_tabVars => WiresInv'
<1> SUFFICES ASSUME TabTypeOK, TabTypeOK', SocketsInv, WiresInv, [TabNext]_tabVars, NEW s \in Sockets
             PROVE  /\ wire'[s] # <<>> => socket'[s] = "open"
                    /\ Len(wire'[s]) <= Len(kinds')
                    /\ \A i \in 1..Len(wire'[s]) : wire'[s][i] = Len(kinds') - Len(wire'[s]) + i
  BY DEF WiresInv, Low
<1>1. /\ wire[s] # <<>> => socket[s] = "open"
      /\ Len(wire[s]) <= Len(kinds)
      /\ \A i \in 1..Len(wire[s]) : wire[s][i] = Len(kinds) - Len(wire[s]) + i
  BY DEF WiresInv, Low
<1>2. /\ socket \in [Sockets -> {"none", "connecting", "open", "ended", "closed"}]
      /\ wire \in [Sockets -> Seq(1..MaxResults)] /\ Len(kinds) \in Nat /\ Len(kinds') \in Nat
  BY SMTT(40) DEF TabTypeOK
<1>3. CASE wire'[s] = wire[s] /\ kinds' = kinds /\ (socket[s] = "open" => socket'[s] = "open")
  BY <1>1, <1>3
<1>4. CASE wire'[s] = <<>>
  BY <1>2, <1>4
<1>5. ASSUME NEW m \in Runs, TimerFires(m) PROVE wire'[s] = wire[s] /\ kinds' = kinds /\ (socket[s] = "open" => socket'[s] = "open")
  <2>1. PICK n \in 1..(2 + MaxFails) :
           /\ Used = 1..n /\ n + 1 \in 1..(2 + MaxFails) /\ Used' = 1..(n + 1)
           /\ timers[m] = 1 /\ timers' = [timers EXCEPT ![m] = 0]
           /\ socket' = [socket EXCEPT ![n + 1] = "connecting"]
           /\ owner' = [owner EXCEPT ![n + 1] = m]
    BY <1>5, TimerOpens
  <2>2. socket[s] = "open" => s # n + 1
    <3>1. socket[s] = "open" => s \in 1..n
      BY <2>1 DEF Used
    <3> QED BY <3>1
  <2> QED BY <1>2, <1>5, <2>1, <2>2 DEF TimerFires, serverVars
<1>6. ASSUME NEW t \in Sockets, onopen(t)
      PROVE  wire'[s] = wire[s] /\ kinds' = kinds /\ (socket[s] = "open" => socket'[s] = "open")
  BY <1>2, <1>6 DEF onopen, serverVars
<1>7. ASSUME NEW t \in Sockets, SocketEnds(t)
      PROVE  \/ wire'[s] = <<>>
             \/ wire'[s] = wire[s] /\ kinds' = kinds /\ (socket[s] = "open" => socket'[s] = "open")
  BY <1>2, <1>7 DEF SocketEnds, serverVars
<1>8. ASSUME NEW t \in Sockets, onclose(t)
      PROVE  wire'[s] = wire[s] /\ kinds' = kinds /\ (socket[s] = "open" => socket'[s] = "open")
  BY <1>2, <1>8 DEF onclose, serverVars
<1>9. ASSUME NEW t \in Sockets, onmessage(t), t # s
      PROVE  wire'[s] = wire[s] /\ kinds' = kinds /\ (socket[s] = "open" => socket'[s] = "open")
  BY <1>2, <1>9 DEF onmessage, serverVars
<1>10. CASE onmessage(s)
  <2>1. PICK w \in Seq(1..MaxResults) : w = wire[s]
    BY <1>2
  <2>2. w # <<>> /\ wire'[s] = Tail(w) /\ kinds' = kinds /\ socket'[s] = "open"
    BY <1>2, <1>10, <2>1 DEF onmessage, serverVars
  <2>3. /\ Len(w) \in Nat \ {0} /\ Len(Tail(w)) = Len(w) - 1
        /\ \A i \in 1..(Len(w) - 1) : Tail(w)[i] = w[i + 1]
    BY <2>2, TailPlaces
  <2>4. ASSUME NEW i \in 1..(Len(w) - 1) PROVE Tail(w)[i] = Len(kinds) - (Len(w) - 1) + i
    <3>1. i + 1 \in 1..Len(w)
      BY <2>3
    <3>2. w[i + 1] = Len(kinds) - Len(w) + (i + 1)
      BY <1>1, <2>1, <3>1
    <3> QED BY <1>2, <2>3, <3>2
  <2>5. Len(w) - 1 <= Len(kinds)
    BY <1>1, <1>2, <2>1, <2>3
  <2> QED BY <2>2, <2>3, <2>4, <2>5
<1>11. CASE Unmount
  <2>1. \/ wire'[s] = <<>>
        \/ wire'[s] = wire[s] /\ kinds' = kinds /\ (socket[s] = "open" => socket'[s] = "open")
    BY <1>2, <1>11 DEF Unmount, serverVars
  <2> QED BY <1>3, <1>4, <2>1
<1>12. CASE Broadcast
  <2>1. /\ socket' = socket /\ Len(kinds) + 1 \in 1..MaxResults /\ Len(kinds') = Len(kinds) + 1
        /\ wire'[s] = IF socket[s] = "open" THEN Append(wire[s], Len(kinds) + 1) ELSE wire[s]
    <3>1. PICK k \in Kinds : kinds' = Append(kinds, k)
      BY <1>12 DEF Broadcast
    <3>2. PICK u \in Seq(Kinds) : u = kinds
      BY DEF TabTypeOK
    <3>3. Len(Append(u, k)) = Len(u) + 1
      BY AppendPlaces
    <3>4. Len(kinds) < MaxResults
      BY <1>12 DEF Broadcast
    <3>5. Len(kinds) + 1 \in 1..MaxResults
      BY <1>2, <3>4, Figures
    <3> QED BY <1>12, <3>1, <3>2, <3>3, <3>5 DEF Broadcast
  <2>2. CASE socket[s] # "open"
    BY <1>1, <1>4, <2>1, <2>2
  <2>3. CASE socket[s] = "open"
    <3>1. PICK w \in Seq(1..MaxResults), n \in 1..MaxResults : w = wire[s] /\ n = Len(kinds) + 1
      BY <1>2, <2>1
    <3>2. /\ Len(w) \in Nat /\ Len(Append(w, n)) = Len(w) + 1 /\ Append(w, n)[Len(w) + 1] = n
          /\ \A i \in 1..Len(w) : Append(w, n)[i] = w[i]
      BY AppendPlaces
    <3>3. ASSUME NEW i \in 1..(Len(w) + 1) PROVE Append(w, n)[i] = n - (Len(w) + 1) + i
      <4>1. CASE i = Len(w) + 1
        BY <3>2, <4>1
      <4>2. CASE i # Len(w) + 1
        <5>1. i \in 1..Len(w)
          BY <3>2, <4>2
        <5>2. w[i] = Len(kinds) - Len(w) + i
          BY <1>1, <3>1, <5>1
        <5> QED BY <1>2, <3>1, <3>2, <5>1, <5>2
      <4> QED BY <4>1, <4>2
    <3>4. Len(w) + 1 <= n
      BY <1>1, <1>2, <3>1, <3>2
    <3>5. wire'[s] = Append(w, n) /\ Len(kinds') = n
      BY <2>1, <2>3, <3>1
    <3> QED BY <2>1, <2>3, <3>2, <3>3, <3>4, <3>5
  <2> QED BY <2>2, <2>3
<1>13. CASE UNCHANGED <<strict, page, kinds, events, socket, owner, wire>>
  BY <1>3, <1>13
<1> QED BY <1>3, <1>4, <1>5, <1>6, <1>7, <1>8, <1>9, <1>10, <1>11, <1>12, <1>13, FeedSteps

-----------------------------------------------------------------------------
(* The feed, outside development mode, where one socket at most is at work *)
(* and the one that is has the highest number.  No event is of a later     *)
(* result than what a wire still holds; and between the last event and     *)
(* what its own wire holds there is junk only, as long as the page is      *)
(* there to take events.                                                   *)

JunkBetween(a, b) == \A n \in (a + 1)..(b - 1) : kinds[n] = "junk"

FeedInv ==
  ~strict =>
    /\ \A s \in Own(1) : \A t \in Used : t <= s
    /\ \A i \in 1..Len(events) :
         /\ events[i][2] \in Used /\ socket[events[i][2]] # "connecting"
         /\ \A s \in Sockets : events[i][1] <= Low(s)
    /\ \A i, j \in 1..Len(events) :
         i < j => events[i][1] > events[j][1] /\ events[i][2] >= events[j][2]
    /\ \A i \in 1..(Len(events) - 1) :
         events[i][2] = events[i + 1][2] => JunkBetween(events[i + 1][1], events[i][1])
    /\ page /\ Len(events) > 0 /\ socket[events[1][2]] = "open" =>
         JunkBetween(events[1][1], Low(events[1][2]) + 1)

LEMMA EventFacts ==
  ASSUME TabTypeOK
  PROVE  /\ Len(events) \in Nat
         /\ \A i \in 1..Len(events) : events[i][1] \in 1..MaxResults /\ events[i][2] \in Sockets
<1>1. PICK E : E = (1..MaxResults) \X Sockets
  OBVIOUS
<1>2. PICK u \in Seq(E) : u = events
  BY <1>1 DEF TabTypeOK
<1>3. Len(u) \in Nat /\ \A i \in 1..Len(u) : u[i] \in E
  OBVIOUS
<1> QED BY <1>1, <1>2, <1>3

LEMMA LowFacts ==
  ASSUME TabTypeOK, WiresInv, NEW s \in Sockets
  PROVE  Low(s) \in Nat /\ Low(s) <= Len(kinds) /\ Len(kinds) \in Nat
<1>1. PICK l, k : l = Len(wire[s]) /\ k = Len(kinds)
  OBVIOUS
<1>2. l \in Nat /\ k \in Nat /\ l <= k
  BY <1>1, WireFacts DEF WiresInv
<1>3. Low(s) = k - l
  BY <1>1 DEF Low
<1> QED BY <1>1, <1>2, <1>3

LEMMA FeedInit == TabInit => FeedInv
<1> SUFFICES ASSUME TabInit, ~strict PROVE Len(events) = 0 /\ Used = {1}
  BY DEF FeedInv, Own
<1>1. PICK n \in 1..2 : n = Main
  BY DEF Main
<1>2. n = 1
  BY <1>1 DEF Main
<1>3. 1 \in Sockets
  BY Figures DEF Sockets
<1>4. \A s \in Sockets : s \in Nat \ {0} /\ socket[s] = IF s = 1 THEN "connecting" ELSE IF s < 1 THEN "ended" ELSE "none"
  BY <1>1, <1>2, Figures DEF TabInit, Sockets
<1>5. \A s \in Sockets : socket[s] # "none" <=> s = 1
  BY <1>4
<1>6. Len(events) = 0
  BY DEF TabInit
<1> QED BY <1>3, <1>5, <1>6 DEF Used

\* The steps that leave the events alone.
LEMMA FeedKept ==
  ASSUME TabTypeOK, WiresInv, TabTypeOK', WiresInv', FeedInv, strict' = strict, events' = events,
         Used \subseteq Used',
         ~strict => \A s \in Own(1)' : \A t \in Used' : t <= s,
         \A s \in Used : socket'[s] = "connecting" => socket[s] = "connecting",
         \A s \in Sockets : Low(s)' >= Low(s),
         \A n \in 1..Len(kinds) : kinds'[n] = kinds[n],
         page' => page,
         page' => \A s \in Used : socket'[s] = "open" =>
                    socket[s] = "connecting"
                      \/ (socket[s] = "open" /\ (Low(s)' = Low(s)
                                               \/ (Low(s)' = Low(s) + 1 /\ kinds'[Low(s)'] = "junk")))
  PROVE  FeedInv'
<1> SUFFICES ASSUME ~strict PROVE FeedInv'
  BY DEF FeedInv
<1>1. /\ Len(events) \in Nat
      /\ \A i \in 1..Len(events) : events[i][1] \in Nat \ {0} /\ events[i][2] \in Sockets
  BY EventFacts
<1>2. \A i \in 1..Len(events) :
         /\ events[i][2] \in Used /\ socket[events[i][2]] # "connecting"
         /\ \A s \in Sockets : events[i][1] <= Low(s)
  BY DEF FeedInv
<1>3. ASSUME NEW s \in Sockets
      PROVE  Low(s) \in Nat /\ Low(s) <= Len(kinds) /\ Low(s)' \in Nat /\ Len(kinds) \in Nat
  <2>1. Low(s) \in Nat /\ Low(s) <= Len(kinds) /\ Len(kinds) \in Nat
    BY LowFacts
  <2>2. PICK l, k : l = Len(wire'[s]) /\ k = Len(kinds')
    OBVIOUS
  <2>3. l \in Nat /\ k \in Nat /\ l <= k
    BY <2>2 DEF WiresInv, TabTypeOK
  <2>4. Low(s)' = k - l
    BY <2>2 DEF Low
  <2> QED BY <2>1, <2>3, <2>4
<1>4. ASSUME NEW i \in 1..Len(events)
      PROVE  /\ events'[i][2] \in Used' /\ socket'[events'[i][2]] # "connecting"
             /\ \A s \in Sockets : events'[i][1] <= Low(s)'
  <2>1. events[i][2] \in Used /\ socket[events[i][2]] # "connecting"
    BY <1>2
  <2>2. ASSUME NEW s \in Sockets PROVE events[i][1] <= Low(s)'
    BY <1>1, <1>2, <1>3
  <2> QED BY <2>1, <2>2
<1>5. \A i, j \in 1..Len(events) :
         i < j => events[i][1] > events[j][1] /\ events[i][2] >= events[j][2]
  BY DEF FeedInv
<1>6. ASSUME NEW i \in 1..(Len(events) - 1), events[i][2] = events[i + 1][2]
      PROVE  JunkBetween(events[i + 1][1], events[i][1])'
  <2>1. JunkBetween(events[i + 1][1], events[i][1])
    BY <1>6 DEF FeedInv
  <2>2. i \in 1..Len(events) /\ i + 1 \in 1..Len(events)
    BY <1>1
  <2>3. \A n \in (events[i + 1][1] + 1)..(events[i][1] - 1) : n \in 1..Len(kinds)
    <3>1. events[i][2] \in Sockets /\ events[i][1] \in Nat /\ events[i + 1][1] \in Nat
      BY <1>1, <2>2
    <3>2. events[i][1] <= Low(events[i][2])
      BY <1>2, <2>2, <3>1
    <3>3. events[i][1] <= Len(kinds)
      BY <1>3, <3>1, <3>2
    <3> QED BY <1>3, <3>1, <3>3
  <2> QED BY <2>1, <2>3 DEF JunkBetween
<1>7. ASSUME page', Len(events) > 0, socket'[events[1][2]] = "open"
      PROVE  JunkBetween(events[1][1], Low(events[1][2]) + 1)'
  <2>1. PICK s \in Sockets : s = events[1][2]
    BY <1>1, <1>7
  <2>2. s \in Used /\ socket[s] # "connecting" /\ events[1][1] \in Nat /\ 1 \in 1..Len(events)
    BY <1>1, <1>2, <1>7, <2>1
  <2>3. PICK a \in Nat, l \in Nat, h \in Nat : a = events[1][1] /\ l = Low(s) /\ h = Low(s)'
    BY <1>3, <2>2
  <2>4. page /\ socket[s] = "open" /\ (h = l \/ (h = l + 1 /\ kinds'[h] = "junk"))
    BY <1>7, <2>1, <2>2, <2>3
  <2>5. \A n \in (a + 1)..((l + 1) - 1) : kinds[n] = "junk"
    <3>1. JunkBetween(events[1][1], Low(s) + 1)
      BY <1>7, <2>1, <2>4 DEF FeedInv
    <3> QED BY <2>3, <3>1 DEF JunkBetween
  <2>6. \A n \in (a + 1)..((l + 1) - 1) : n \in 1..Len(kinds)
    BY <1>3, <2>3
  <2>7. \A n \in (a + 1)..((h + 1) - 1) : kinds'[n] = "junk"
    <3>1. ASSUME NEW n \in (a + 1)..((h + 1) - 1) PROVE n \in (a + 1)..((l + 1) - 1) \/ (n = h /\ kinds'[h] = "junk")
      BY <2>4
    <3> QED BY <2>5, <2>6, <3>1
  <2>8. a = events'[1][1] /\ h = Low(events[1][2])'
    <3>1. Low(s)' = Len(kinds') - Len(wire'[s]) /\ s = events'[1][2]
      BY <2>1 DEF Low
    <3>2. Low(events[1][2])' = Len(kinds') - Len(wire'[events'[1][2]])
      BY DEF Low
    <3> QED BY <2>3, <3>1, <3>2
  <2>9. JunkBetween(events[1][1], Low(events[1][2]) + 1)' <=>
          \A n \in (events'[1][1] + 1)..((Low(events[1][2])' + 1) - 1) : kinds'[n] = "junk"
    BY DEF JunkBetween
  <2> QED BY <2>7, <2>8, <2>9
<1> QED BY <1>4, <1>5, <1>6, <1>7 DEF FeedInv

LEMMA FeedHookStep ==
  ASSUME TabTypeOK, SocketsInv, WiresInv, TabTypeOK', SocketsInv', WiresInv', FeedInv,
         NEW s \in Sockets, onopen(s) \/ SocketEnds(s) \/ onclose(s)
  PROVE  FeedInv'
<1>1. /\ socket \in [Sockets -> {"none", "connecting", "open", "ended", "closed"}]
      /\ wire \in [Sockets -> Seq(1..MaxResults)]
  BY DEF TabTypeOK
<1>2. /\ strict' = strict /\ events' = events /\ kinds' = kinds /\ page' = page /\ owner' = owner
  BY DEF onopen, SocketEnds, onclose, serverVars
<1>3. /\ \A t \in Sockets : t # s => socket'[t] = socket[t] /\ wire'[t] = wire[t]
      /\ \/ socket[s] = "connecting" /\ socket'[s] = "open" /\ wire'[s] = wire[s]
         \/ socket[s] \in {"connecting", "open"} /\ socket'[s] = "ended" /\ wire'[s] = <<>>
         \/ socket[s] = "ended" /\ socket'[s] = "closed" /\ wire'[s] = wire[s]
  BY <1>1 DEF onopen, SocketEnds, onclose
<1>4. Used' = Used /\ Own(1)' \subseteq Own(1)
  BY <1>2, <1>3 DEF Used, Own
<1>5. ~strict => \A t \in Own(1)' : \A r \in Used' : r <= t
  BY <1>4 DEF FeedInv
<1>6. \A t \in Sockets : Low(t)' >= Low(t) /\ (wire'[t] = wire[t] => Low(t)' = Low(t))
  BY <1>2, <1>3, WireFacts, SMTT(40) DEF Low
<1>7. \A t \in Used : socket'[t] = "connecting" => socket[t] = "connecting"
  BY <1>3 DEF Used
<1>8. \A t \in Used : socket'[t] = "open" =>
         socket[t] = "connecting" \/ (socket[t] = "open" /\ Low(t)' = Low(t))
  BY <1>3, <1>6 DEF Used
<1> QED BY <1>2, <1>4, <1>5, <1>6, <1>7, <1>8, FeedKept

LEMMA FeedTimerStep ==
  ASSUME TabTypeOK, SocketsInv, WiresInv, TabTypeOK', SocketsInv', WiresInv', FeedInv,
         NEW m \in Runs, TimerFires(m)
  PROVE  FeedInv'
<1>1. /\ socket \in [Sockets -> {"none", "connecting", "open", "ended", "closed"}]
      /\ owner \in [Sockets -> Runs] /\ timers \in [Runs -> Nat]
  BY DEF TabTypeOK
<1>2. PICK n \in 1..(2 + MaxFails) :
         /\ Used = 1..n /\ n + 1 \in 1..(2 + MaxFails) /\ Used' = 1..(n + 1)
         /\ timers[m] = 1 /\ timers' = [timers EXCEPT ![m] = 0]
         /\ socket' = [socket EXCEPT ![n + 1] = "connecting"]
         /\ owner' = [owner EXCEPT ![n + 1] = m]
  BY TimerOpens
<1>3. n + 1 \in Sockets /\ n + 1 \notin Used /\ Used' = Used \cup {n + 1} /\ \A t \in Used' : t <= n + 1
  BY <1>2 DEF Sockets
<1>4. owner'[n + 1] = m /\ \A t \in Used : socket'[t] = socket[t] /\ owner'[t] = owner[t]
  BY <1>1, <1>2, <1>3
<1>5. /\ strict' = strict /\ events' = events /\ kinds' = kinds /\ page' = page /\ wire' = wire
  BY DEF TimerFires, serverVars
<1>6. \A t \in Sockets : Low(t)' >= Low(t) /\ Low(t)' = Low(t)
  BY <1>5, WireFacts DEF Low
<1>7. ~strict => Own(1)' \subseteq {n + 1}
  <2>1. SUFFICES ASSUME ~strict PROVE Own(1)' \subseteq {n + 1}
    OBVIOUS
  <2>2. m = 1
    BY <1>2, <2>1 DEF SocketsInv, Runs
  <2>3. Own(1) = {}
    BY <1>2, <2>2 DEF SocketsInv
  <2> QED BY <1>3, <1>4, <2>3 DEF Own
<1>8. ~strict => \A t \in Own(1)' : \A r \in Used' : r <= t
  BY <1>3, <1>7
<1>9. /\ \A t \in Used : socket'[t] = "connecting" => socket[t] = "connecting"
      /\ \A t \in Used : socket'[t] = "open" =>
           socket[t] = "connecting" \/ (socket[t] = "open" /\ Low(t)' = Low(t))
  BY <1>4, <1>6 DEF Used
<1>10. Used \subseteq Used' /\ \A k \in 1..Len(kinds) : kinds'[k] = kinds[k]
  BY <1>3, <1>5
<1> QED BY <1>5, <1>6, <1>8, <1>9, <1>10, FeedKept

LEMMA FeedUnmountStep ==
  ASSUME TabTypeOK, SocketsInv, WiresInv, TabTypeOK', SocketsInv', WiresInv', FeedInv, Unmount
  PROVE  FeedInv'
<1>1. /\ socket \in [Sockets -> {"none", "connecting", "open", "ended", "closed"}]
      /\ wire \in [Sockets -> Seq(1..MaxResults)]
  BY DEF TabTypeOK
<1>2. strict' = strict /\ events' = events /\ kinds' = kinds /\ ~page' /\ owner' = owner
  BY DEF Unmount, serverVars
<1>3. \A t \in Sockets :
        \/ socket'[t] = socket[t] /\ wire'[t] = wire[t]
        \/ socket[t] \in {"connecting", "open"} /\ socket'[t] = "ended" /\ wire'[t] = <<>>
  BY <1>1 DEF Unmount, Live
<1>4. Used' = Used /\ Own(1)' = Own(1)
  <2>1. Used' = Used
    BY <1>3 DEF Used
  <2> QED BY <1>2, <1>3, <2>1 DEF Own, Used
<1>5. ~strict => \A t \in Own(1)' : \A r \in Used' : r <= t
  BY <1>4 DEF FeedInv
<1>6. \A t \in Sockets : Low(t)' >= Low(t)
  BY <1>2, <1>3, WireFacts DEF Low
<1>7. \A t \in Used : socket'[t] = "connecting" => socket[t] = "connecting"
  BY <1>3 DEF Used
<1> QED BY <1>2, <1>4, <1>5, <1>6, <1>7, FeedKept

LEMMA FeedBroadcastStep ==
  ASSUME TabTypeOK, SocketsInv, WiresInv, TabTypeOK', SocketsInv', WiresInv', FeedInv, Broadcast
  PROVE  FeedInv'
<1>1. strict' = strict /\ events' = events /\ page' = page /\ owner' = owner /\ socket' = socket
  BY DEF Broadcast
<1>2. Len(kinds) \in Nat /\ Len(kinds') = Len(kinds) + 1 /\ \A n \in 1..Len(kinds) : kinds'[n] = kinds[n]
  <2>1. PICK k \in Kinds : kinds' = Append(kinds, k)
    BY DEF Broadcast
  <2>2. PICK u \in Seq(Kinds) : u = kinds
    BY DEF TabTypeOK
  <2> QED BY <2>1, <2>2, AppendPlaces
<1>3. ASSUME NEW t \in Sockets PROVE Low(t)' >= Low(t) /\ (socket[t] = "open" => Low(t)' = Low(t))
  <2>1. CASE socket[t] = "open"
    <3>1. Len(kinds) + 1 \in 1..MaxResults
      <4>1. Len(kinds) < MaxResults
        BY DEF Broadcast
      <4> QED BY <1>2, <4>1, Figures
    <3>2. PICK w \in Seq(1..MaxResults), n \in 1..MaxResults : w = wire[t] /\ n = Len(kinds) + 1
      BY <3>1, WireFacts
    <3>3. wire'[t] = Append(w, n)
      BY <2>1, <3>2 DEF Broadcast
    <3>4. Len(w) \in Nat /\ Len(Append(w, n)) = Len(w) + 1
      BY AppendPlaces
    <3>5. Low(t) = Len(kinds) - Len(w) /\ Low(t)' = Len(kinds) + 1 - (Len(w) + 1)
      BY <1>2, <3>2, <3>3, <3>4 DEF Low
    <3> QED BY <1>2, <3>4, <3>5
  <2>2. CASE socket[t] # "open"
    <3>1. wire'[t] = wire[t]
      BY <2>2 DEF Broadcast
    <3>2. Low(t) = Len(kinds) - Len(wire[t]) /\ Low(t)' = Len(kinds) + 1 - Len(wire[t])
      BY <1>2, <3>1 DEF Low
    <3> QED BY <1>2, <2>2, <3>2, WireFacts
  <2> QED BY <2>1, <2>2
<1>4. Used' = Used /\ Own(1)' = Own(1)
  BY <1>1 DEF Used, Own
<1>5. ~strict => \A t \in Own(1)' : \A r \in Used' : r <= t
  BY <1>4 DEF FeedInv
<1>6. \A t \in Used : socket'[t] = "open" =>
         socket[t] = "connecting" \/ (socket[t] = "open" /\ Low(t)' = Low(t))
  BY <1>1, <1>3 DEF Used
<1> QED BY <1>1, <1>2, <1>3, <1>4, <1>5, <1>6, FeedKept

\* A frame: the result after Low(s) is taken from the wire.
LEMMA FeedMessageStep ==
  ASSUME TabTypeOK, SocketsInv, WiresInv, TabTypeOK', SocketsInv', WiresInv', FeedInv,
         NEW s \in Sockets, onmessage(s)
  PROVE  FeedInv'
<1>1. /\ strict' = strict /\ kinds' = kinds /\ page' = page /\ owner' = owner /\ socket' = socket
      /\ socket[s] = "open" /\ wire[s] # <<>> /\ wire' = [wire EXCEPT ![s] = Tail(@)]
      /\ events' = IF page /\ kinds[Head(wire[s])] # "junk"
                   THEN Prepend(<<Head(wire[s]), s>>, events, MAX_EVENTS) ELSE events
  BY DEF onmessage, serverVars
<1>2. PICK n \in 1..MaxResults, l \in Nat :
        /\ n = Head(wire[s]) /\ l = Low(s) /\ n = l + 1 /\ n <= Len(kinds)
        /\ Low(s)' = n
  <2>1. PICK w \in Seq(1..MaxResults) : w = wire[s]
    BY WireFacts
  <2>2. /\ Len(w) \in Nat \ {0} /\ Len(Tail(w)) = Len(w) - 1 /\ Head(w) = w[1] /\ Head(w) \in 1..MaxResults
    BY <1>1, <2>1, TailPlaces
  <2>3. wire'[s] = Tail(w)
    BY <1>1, <2>1 DEF TabTypeOK
  <2>4. PICK k, l : k = Len(kinds) /\ l = Low(s)
    OBVIOUS
  <2>5. k \in Nat /\ l \in Nat /\ l = k - Len(w) /\ Len(w) <= k
    BY <2>1, <2>4, LowFacts DEF Low, WiresInv
  <2>6. w[1] = l + 1
    BY <2>1, <2>2, <2>4 DEF WiresInv
  <2>7. Low(s)' = k - (Len(w) - 1)
    BY <1>1, <2>2, <2>3, <2>4 DEF Low
  <2>8. l + 1 <= k /\ k - (Len(w) - 1) = l + 1
    BY <2>2, <2>5
  <2> QED BY <2>1, <2>2, <2>4, <2>5, <2>6, <2>7, <2>8
<1>3. \A t \in Sockets : t # s => Low(t)' = Low(t)
  BY <1>1 DEF Low, TabTypeOK
<1>4. \A t \in Sockets : Low(t) \in Nat /\ Low(t) <= Len(kinds) /\ Len(kinds) \in Nat
  BY LowFacts
<1>5. Used' = Used /\ Own(1)' = Own(1) /\ s \in Used
  BY <1>1 DEF Used, Own
<1>6. ~strict => \A t \in Own(1)' : \A r \in Used' : r <= t
  BY <1>5 DEF FeedInv
<1>7. CASE ~(page /\ kinds[n] # "junk")
  <2>1. events' = events
    BY <1>1, <1>2, <1>7
  <2>2. \A t \in Sockets : Low(t)' >= Low(t)
    BY <1>2, <1>3, <1>4
  <2>3. /\ \A t \in Used : socket'[t] = "connecting" => socket[t] = "connecting"
        /\ page' => \A t \in Used : socket'[t] = "open" =>
             socket[t] = "connecting"
               \/ (socket[t] = "open" /\ (Low(t)' = Low(t) \/ (Low(t)' = Low(t) + 1 /\ kinds'[Low(t)'] = "junk")))
    <3>1. page => kinds'[Low(s)'] = "junk" /\ Low(s)' = Low(s) + 1
      BY <1>1, <1>2, <1>7
    <3> QED BY <1>1, <1>3, <3>1 DEF Used
  <2> QED BY <1>1, <1>5, <1>6, <2>1, <2>2, <2>3, FeedKept
<1>8. CASE page /\ kinds[n] # "junk"
  <2> SUFFICES ASSUME ~strict PROVE FeedInv'
    BY <1>1 DEF FeedInv
  <2>1. /\ Len(events) \in Nat
        /\ \A i \in 1..Len(events) : events[i][1] \in Nat \ {0} /\ events[i][2] \in Sockets
    BY EventFacts
  <2>2. \A i \in 1..Len(events) :
           /\ events[i][2] \in Used /\ socket[events[i][2]] # "connecting"
           /\ \A t \in Sockets : events[i][1] <= Low(t)
    BY DEF FeedInv
  <2>3. PICK p : p = events'
    OBVIOUS
  <2>4. /\ p[1][1] = n /\ p[1][2] = s /\ Len(p) \in Nat \ {0}
        /\ \A i \in 1..(Len(p) - 1) : i \in 1..Len(events) /\ p[i + 1] = events[i]
    <3>1. PICK E : E = (1..MaxResults) \X Sockets
      OBVIOUS
    <3>2. PICK u \in Seq(E), e \in E : u = events /\ e = <<n, s>>
      BY <3>1 DEF TabTypeOK
    <3>3. p = Prepend(e, u, MAX_EVENTS)
      BY <1>1, <1>2, <1>8, <2>3, <3>2
    <3>4. /\ Len(p) \in Nat \ {0} /\ p[1] = e
          /\ \A i \in 1..(Len(p) - 1) : i \in 1..Len(u) /\ p[i + 1] = u[i]
      BY <3>3, PrependPlaces, Figures
    <3> QED BY <3>2, <3>4
  <2>5. \A t \in Sockets : n <= Low(t)' /\ Low(t) <= Low(t)' /\ Low(t)' \in Nat
    <3>1. ASSUME NEW t \in Sockets, t # s PROVE Low(t) = Len(kinds)
      <4>1. wire[t] = <<>>
        <5>1. wire[t] # <<>> => socket[t] = "open" /\ t \in Used
          BY DEF WiresInv, Used
        <5> QED BY <1>1, <1>5, <3>1, <5>1, OnlyOne
      <4>2. Len(wire[t]) = 0
        BY <4>1
      <4> QED BY <1>4, <4>2 DEF Low
    <3> QED BY <1>2, <1>3, <1>4, <3>1
  <2>6. \A t \in Used : t \in Nat /\ t <= s
    <3>1. s \in Own(1)
      BY <1>1, <1>5 DEF Own, SocketsInv
    <3> QED BY <3>1 DEF FeedInv, Used, Sockets
  <2>7. ASSUME NEW i \in 1..Len(p)
        PROVE  /\ p[i][2] \in Used' /\ socket'[p[i][2]] # "connecting"
               /\ \A t \in Sockets : p[i][1] <= Low(t)'
    <3>1. CASE i = 1
      BY <1>1, <1>5, <2>4, <2>5, <3>1
    <3>2. CASE i # 1
      <4>1. PICK j \in 1..Len(events) : p[i] = events[j]
        <5>1. i - 1 \in 1..(Len(p) - 1) /\ (i - 1) + 1 = i
          BY <2>4, <3>2
        <5> QED BY <2>4, <5>1
      <4>2. PICK a \in Nat : a = events[j][1]
        BY <2>1
      <4>3. ASSUME NEW t \in Sockets PROVE a <= Low(t)'
        BY <1>4, <2>2, <2>5, <4>2
      <4> QED BY <1>1, <1>5, <2>2, <4>1, <4>2, <4>3
    <3> QED BY <3>1, <3>2
  <2>8. ASSUME NEW i \in 1..Len(p), NEW j \in 1..Len(p), i < j
        PROVE  p[i][1] > p[j][1] /\ p[i][2] >= p[j][2]
    <3>0. j - 1 \in 1..(Len(p) - 1) /\ (j - 1) + 1 = j
      BY <2>4, <2>8
    <3>1. PICK b \in 1..Len(events) : b = j - 1 /\ p[j] = events[b]
      BY <2>4, <3>0
    <3>2. CASE i = 1
      <4>1. events[b][1] <= l /\ events[b][1] \in Nat /\ events[b][2] \in Used
        BY <1>2, <2>1, <2>2
      <4>2. events[b][1] < n
        BY <1>2, <4>1
      <4> QED BY <2>4, <2>6, <3>1, <3>2, <4>1, <4>2
    <3>3. CASE i # 1
      <4>1. i - 1 \in 1..(Len(p) - 1) /\ (i - 1) + 1 = i
        BY <2>4, <3>3
      <4>2. PICK a \in 1..Len(events) : a = i - 1 /\ p[i] = events[a]
        BY <2>4, <4>1
      <4>3. a < b
        BY <2>8, <3>1, <4>2
      <4>4. events[a][1] > events[b][1] /\ events[a][2] >= events[b][2]
        BY <4>3 DEF FeedInv
      <4> QED BY <3>1, <4>2, <4>4
    <3> QED BY <3>2, <3>3
  <2>9. ASSUME NEW i \in 1..(Len(p) - 1), p[i][2] = p[i + 1][2]
        PROVE  \A m \in (p[i + 1][1] + 1)..(p[i][1] - 1) : kinds'[m] = "junk"
    <3>1. i \in 1..Len(events) /\ p[i + 1] = events[i]
      BY <2>4
    <3>2. CASE i = 1
      <4>1. Len(events) > 0 /\ events[1][2] = s /\ p[2] = events[1]
        BY <2>1, <2>4, <2>9, <3>1, <3>2
      <4>2. JunkBetween(events[1][1], Low(s) + 1)
        BY <1>1, <1>8, <4>1 DEF FeedInv
      <4>3. \A m \in (events[1][1] + 1)..(n - 1) : kinds[m] = "junk"
        BY <1>2, <4>2 DEF JunkBetween
      <4> QED BY <1>1, <2>4, <3>2, <4>1, <4>3
    <3>3. CASE i # 1
      <4>1. i - 1 \in 1..(Len(p) - 1) /\ (i - 1) + 1 = i /\ i - 1 \in 1..(Len(events) - 1)
        BY <2>1, <2>4, <3>1, <3>3
      <4>2. p[i] = events[i - 1]
        BY <2>4, <4>1
      <4>3. events[i - 1][2] = events[(i - 1) + 1][2]
        BY <2>9, <3>1, <4>1, <4>2
      <4>4. JunkBetween(events[(i - 1) + 1][1], events[i - 1][1])
        BY <4>1, <4>3 DEF FeedInv
      <4>5. \A m \in (events[i][1] + 1)..(events[i - 1][1] - 1) : kinds[m] = "junk"
        BY <4>1, <4>4 DEF JunkBetween
      <4> QED BY <1>1, <3>1, <4>2, <4>5
    <3> QED BY <3>2, <3>3
  <2>10. \A m \in (p[1][1] + 1)..((Low(p[1][2])' + 1) - 1) : kinds'[m] = "junk"
    <3>1. Low(p[1][2])' = n
      <4>1. p[1][2] = s
        BY <2>4
      <4> QED BY <1>2, <4>1
    <3> QED BY <1>2, <2>4, <3>1
  <2>11. /\ \A i \in 1..Len(events') :
              /\ events'[i][2] \in Used' /\ socket'[events'[i][2]] # "connecting"
              /\ \A t \in Sockets : events'[i][1] <= Low(t)'
         /\ \A i, j \in 1..Len(events') :
              i < j => events'[i][1] > events'[j][1] /\ events'[i][2] >= events'[j][2]
    BY <2>3, <2>7, <2>8
  <2>12. \A i \in 1..(Len(events') - 1) :
           events'[i][2] = events'[i + 1][2] => JunkBetween(events[i + 1][1], events[i][1])'
    BY <2>3, <2>9 DEF JunkBetween
  <2>13. JunkBetween(events[1][1], Low(events[1][2]) + 1)'
    BY <2>3, <2>10 DEF JunkBetween
  <2> QED BY <1>6, <2>11, <2>12, <2>13 DEF FeedInv
<1> QED BY <1>7, <1>8

LEMMA FeedStep ==
  TabTypeOK /\ SocketsInv /\ WiresInv /\ FeedInv /\ TabTypeOK' /\ SocketsInv' /\ WiresInv' /\ [TabNext]_tabVars
    => FeedInv'
<1> SUFFICES ASSUME TabTypeOK, SocketsInv, WiresInv, FeedInv, TabTypeOK', SocketsInv', WiresInv',
                    [TabNext]_tabVars
             PROVE  FeedInv'
  OBVIOUS
<1>1. CASE UNCHANGED <<strict, page, kinds, events, socket, owner, wire>>
  BY <1>1 DEF FeedInv, Own, Used, Low, JunkBetween
<1> QED BY <1>1, FeedTimerStep, FeedHookStep, FeedMessageStep, FeedUnmountStep, FeedBroadcastStep, FeedSteps

\* The first event with all figures is the latest result of the events that have them.
LEMMA FeedOrder ==
  ASSUME TabTypeOK, WiresInv, FeedInv
  PROVE  FeedIsInOrder
<1> SUFFICES ASSUME ~strict PROVE FeedIsInOrder
  BY DEF FeedIsInOrder
<1>1. /\ Len(events) \in Nat
      /\ \A i \in 1..Len(events) : events[i][1] \in Nat \ {0} /\ events[i][2] \in Sockets
  BY EventFacts
<1>2. \A i, j \in 1..Len(events) :
         i < j => events[i][1] > events[j][1] /\ events[i][2] >= events[j][2]
  BY DEF FeedInv
<1>3. ASSUME NEW i \in 1..(Len(events) - 1)
      PROVE  /\ events[i][1] > events[i + 1][1] /\ events[i][2] >= events[i + 1][2]
             /\ events[i][2] = events[i + 1][2] =>
                  \A n \in (events[i + 1][1] + 1)..(events[i][1] - 1) : kinds[n] = "junk"
  <2>1. i \in 1..Len(events) /\ i + 1 \in 1..Len(events) /\ i < i + 1
    BY <1>1
  <2>2. events[i][1] > events[i + 1][1] /\ events[i][2] >= events[i + 1][2]
    BY <1>2, <2>1
  <2>3. events[i][2] = events[i + 1][2] => JunkBetween(events[i + 1][1], events[i][1])
    BY DEF FeedInv
  <2> QED BY <2>2, <2>3 DEF JunkBetween
<1>4. ASSUME NEW i \in 1..Len(events), kinds[events[i][1]] = "attack"
      PROVE  latest >= events[i][1]
  <2> DEFINE I == {j \in 1..Len(events) : kinds[events[j][1]] = "attack"}
             m == CHOOSE j \in I : \A k \in I : j <= k
  <2>1. I \in SUBSET Nat /\ i \in I
    BY <1>4
  <2>2. \E j \in I : \A k \in I : j <= k
    <3> HIDE DEF I
    <3> QED BY <2>1, LeastNatural
  <2>3. m \in I /\ \A k \in I : m <= k
    <3> HIDE DEF I
    <3> QED BY <2>2
  <2>4. latest = events[m][1]
    BY <2>1 DEF latest
  <2> HIDE DEF m
  <2>5. m \in 1..Len(events) /\ m <= i
    BY <2>1, <2>3
  <2>6. events[m][1] >= events[i][1]
    BY <1>1, <1>2, <1>4, <2>5
  <2> QED BY <2>4, <2>6
<1> QED BY <1>3, <1>4 DEF FeedIsInOrder

-----------------------------------------------------------------------------
(* The journal.  One call at most is under way, and only while the buttons *)
(* are disabled; a call that was accepted has a job that no line stands    *)
(* for yet.                                                                *)

InFlight(f) == calls[f] \in {"sent", "accepted", "refused", "lost"}
Queued(lines) == {i \in DOMAIN lines : lines[i] = "QUEUED"}

JournalInv ==
  /\ \A f, g \in 1..MaxFires : InFlight(f) /\ InFlight(g) => f = g
  /\ \A f \in 1..MaxFires : InFlight(f) => busy
  /\ Cardinality(Queued(logLines)) <= jobs
  /\ \A f \in 1..MaxFires : calls[f] = "accepted" => Cardinality(Queued(logLines)) + 1 <= jobs

LEMMA QueuedFinite ==
  ASSUME NEW S, NEW lines \in Seq(S)
  PROVE  IsFiniteSet(Queued(lines)) /\ Cardinality(Queued(lines)) \in Nat
<1>1. Queued(lines) \subseteq 1..Len(lines) /\ Len(lines) \in Nat
  BY DEF Queued
<1>2. IsFiniteSet(1..Len(lines))
  BY <1>1, FS_Interval
<1> QED BY <1>1, <1>2, FS_Subset, FS_CardinalityType

\* A line in front adds itself at most, whether or not one falls off the end.
LEMMA QueuedPrepend ==
  ASSUME NEW S, NEW lines \in Seq(S), NEW e \in S, NEW n \in Nat \ {0}
  PROVE  LET p == Prepend(e, lines, n) IN
         /\ p \in Seq(S) /\ Cardinality(Queued(p)) <= Cardinality(Queued(lines)) + 1
         /\ e # "QUEUED" => Cardinality(Queued(p)) <= Cardinality(Queued(lines))
<1>1. PICK p : p = Prepend(e, lines, n)
  OBVIOUS
<1>2. /\ p \in Seq(S) /\ Len(p) \in Nat \ {0} /\ Len(lines) \in Nat /\ p[1] = e
      /\ \A i \in 1..(Len(p) - 1) : i \in 1..Len(lines) /\ p[i + 1] = lines[i]
  BY <1>1, PrependPlaces
<1>3. PICK Q, R : Q = Queued(lines) /\ R = Queued(p) \ {1}
  OBVIOUS
<1>4. IsFiniteSet(Q) /\ Cardinality(Q) \in Nat
  BY <1>3, QueuedFinite
<1>5. IsFiniteSet(R) /\ Cardinality(R) \in Nat /\ Cardinality(R) <= Cardinality(Q)
  <2> DEFINE f == [i \in R |-> i - 1]
  <2>1. ASSUME NEW i \in R PROVE i \in Nat /\ i - 1 \in Q
    <3>1. i \in 1..Len(p) /\ i # 1 /\ p[i] = "QUEUED"
      BY <1>3 DEF Queued
    <3>2. i - 1 \in 1..(Len(p) - 1) /\ (i - 1) + 1 = i
      BY <1>2, <3>1
    <3>3. i - 1 \in 1..Len(lines) /\ lines[i - 1] = "QUEUED"
      BY <1>2, <3>1, <3>2
    <3> QED BY <1>3, <3>1, <3>3 DEF Queued
  <2>2. f \in Injection(R, Q)
    <3>1. f \in [R -> Q]
      BY <2>1
    <3>2. ASSUME NEW a \in R, NEW b \in R, f[a] = f[b] PROVE a = b
      BY <2>1, <3>2
    <3> QED BY <3>1, <3>2 DEF Injection, IsInjective
  <2> HIDE DEF f
  <2> QED BY <1>4, <2>2, FS_Injection, FS_CardinalityType
<1>6. Queued(p) = (IF e = "QUEUED" THEN R \cup {1} ELSE R)
  <2>1. DOMAIN p = 1..Len(p) /\ 1 \in DOMAIN p
    BY <1>2
  <2>2. 1 \in Queued(p) <=> e = "QUEUED"
    BY <1>2, <2>1, Zenon DEF Queued
  <2> QED BY <1>3, <2>2
<1>7. e = "QUEUED" => Cardinality(Queued(p)) = Cardinality(R) + 1
  <2>1. 1 \notin R /\ Cardinality(R \cup {1}) = Cardinality(R) + 1
    BY <1>3, <1>5, FS_AddElement
  <2> QED BY <1>6, <2>1
<1>8. e # "QUEUED" => Cardinality(Queued(p)) = Cardinality(R)
  BY <1>6
<1>9. Cardinality(Queued(lines)) = Cardinality(Q)
  BY <1>3
<1> QED BY <1>1, <1>2, <1>4, <1>5, <1>7, <1>8, <1>9

LEMMA JournalSteps ==
  ASSUME [TabNext]_tabVars
  PROVE  \/ \E f \in 1..MaxFires : fire(f) \/ Dispatch(f) \/ Dispatched(f)
         \/ UNCHANGED <<calls, busy, jobs, logLines>>
<1> USE DEF consoleVars
<1>1. CASE UNCHANGED tabVars
  BY <1>1 DEF tabVars
<1>2. CASE HookNext \/ Broadcast
  BY <1>2 DEF HookNext, TimerFires, onopen, SocketEnds, onclose, onmessage, Broadcast
<1>3. CASE HeaderNext
  BY <1>3 DEF HeaderNext, poll, HealthAnswer, ShowHealth
<1>4. CASE Unmount \/ GatewayStops \/ GatewayStarts
  BY <1>4 DEF Unmount, GatewayStops, GatewayStarts
<1> QED BY <1>1, <1>2, <1>3, <1>4 DEF TabNext, ConsoleNext

LEMMA JournalInit == TabInit => JournalInv
<1> SUFFICES ASSUME TabInit PROVE JournalInv
  OBVIOUS
<1>1. \A f \in 1..MaxFires : calls[f] = "none"
  BY DEF TabInit
<1>2. Queued(logLines) = {} /\ jobs = 0
  BY DEF TabInit, Queued
<1>3. Cardinality(Queued(logLines)) = 0
  BY <1>2, FS_EmptySet
<1> QED BY <1>1, <1>2, <1>3 DEF JournalInv, InFlight

LEMMA JournalStep == TabTypeOK /\ JournalInv /\ [TabNext]_tabVars => JournalInv'
<1> SUFFICES ASSUME TabTypeOK, JournalInv, [TabNext]_tabVars PROVE JournalInv'
  OBVIOUS
<1>1. /\ calls \in [1..MaxFires -> {"none", "sent", "accepted", "refused", "lost", "done"}]
      /\ jobs \in Nat /\ logLines \in Seq({"QUEUED", "FAILED"})
  BY DEF TabTypeOK
<1>2. PICK q \in Nat : q = Cardinality(Queued(logLines))
  BY <1>1, QueuedFinite
<1>3. /\ \A f, g \in 1..MaxFires : InFlight(f) /\ InFlight(g) => f = g
      /\ \A f \in 1..MaxFires : InFlight(f) => busy
      /\ q <= jobs
      /\ \A f \in 1..MaxFires : calls[f] = "accepted" => q + 1 <= jobs
  BY <1>2 DEF JournalInv
<1>4. ASSUME NEW f \in 1..MaxFires, fire(f) PROVE JournalInv'
  <2>1. /\ ~busy /\ busy' /\ calls' = [calls EXCEPT ![f] = "sent"]
        /\ jobs' = jobs /\ logLines' = logLines
    BY <1>4 DEF fire
  <2>2. \A g \in 1..MaxFires : InFlight(g)' <=> g = f
    BY <1>1, <1>3, <2>1 DEF InFlight
  <2>3. \A g \in 1..MaxFires : calls'[g] # "accepted"
    BY <1>1, <1>3, <2>1 DEF InFlight
  <2> QED BY <1>2, <1>3, <2>1, <2>2, <2>3 DEF JournalInv
<1>5. ASSUME NEW f \in 1..MaxFires, Dispatch(f) PROVE JournalInv'
  <2>1. /\ calls[f] = "sent" /\ busy' = busy /\ logLines' = logLines
        /\ \E a \in {"accepted", "refused", "lost"} :
             /\ calls' = [calls EXCEPT ![f] = a]
             /\ jobs' \in {jobs, jobs + 1} /\ (a = "accepted" => jobs' = jobs + 1)
    BY <1>5 DEF Dispatch
  <2>2. PICK a \in {"accepted", "refused", "lost"} :
             /\ calls' = [calls EXCEPT ![f] = a]
             /\ jobs' \in {jobs, jobs + 1} /\ (a = "accepted" => jobs' = jobs + 1)
    BY <2>1
  <2>3. \A g \in 1..MaxFires : InFlight(g)' <=> InFlight(g)
    BY <1>1, <2>1, <2>2 DEF InFlight
  <2>4. q <= jobs' /\ \A g \in 1..MaxFires : calls'[g] = "accepted" => q + 1 <= jobs'
    <3>1. ASSUME NEW g \in 1..MaxFires, calls'[g] = "accepted" PROVE q + 1 <= jobs'
      <4>1. g = f \/ calls[g] = "accepted"
        BY <1>1, <2>2, <3>1
      <4>2. CASE g = f
        BY <1>1, <1>3, <2>2, <3>1, <4>2
      <4>3. CASE calls[g] = "accepted"
        BY <1>1, <1>3, <2>2, <4>3
      <4> QED BY <4>1, <4>2, <4>3
    <3> QED BY <1>1, <1>3, <2>2, <3>1
  <2>5. Cardinality(Queued(logLines))' = q
    BY <1>2, <2>1
  <2>6. \A g, h \in 1..MaxFires : InFlight(g)' /\ InFlight(h)' => g = h
    BY <1>3, <2>3
  <2>7. \A g \in 1..MaxFires : InFlight(g)' => busy'
    BY <1>3, <2>1, <2>3
  <2> QED BY <2>4, <2>5, <2>6, <2>7 DEF JournalInv
<1>6. ASSUME NEW f \in 1..MaxFires, Dispatched(f) PROVE JournalInv'
  <2>1. /\ calls[f] \in {"accepted", "refused", "lost"} /\ calls' = [calls EXCEPT ![f] = "done"]
        /\ jobs' = jobs
    BY <1>6 DEF Dispatched
  <2>2. \A g \in 1..MaxFires : ~InFlight(g)'
    <3>1. \A g \in 1..MaxFires : InFlight(g) => g = f
      BY <1>3, <2>1 DEF InFlight
    <3> QED BY <1>1, <2>1, <3>1 DEF InFlight
  <2>3. \A g \in 1..MaxFires : calls'[g] # "accepted"
    BY <2>2 DEF InFlight
  <2>4. Cardinality(Queued(logLines))' <= jobs
    <3>1. CASE logLines' = logLines
      BY <1>2, <1>3, <3>1
    <3>2. CASE logLines' # logLines
      <4>1. PICK E : E = {"QUEUED", "FAILED"}
        OBVIOUS
      <4>2. PICK u \in Seq(E), e \in E :
              u = logLines /\ e = IF request(calls[f]) THEN "QUEUED" ELSE "FAILED"
        BY <1>1, <4>1
      <4>3. logLines' = Prepend(e, u, LogLines)
        BY <1>6, <3>2, <4>2 DEF Dispatched
      <4>4. /\ Cardinality(Queued(Prepend(e, u, LogLines))) <= Cardinality(Queued(u)) + 1
            /\ e # "QUEUED" => Cardinality(Queued(Prepend(e, u, LogLines))) <= Cardinality(Queued(u))
        BY QueuedPrepend, Figures
      <4>5. PICK c \in Nat : c = Cardinality(Queued(Prepend(e, u, LogLines)))
        <5>1. Prepend(e, u, LogLines) \in Seq(E)
          BY QueuedPrepend, Figures
        <5> QED BY <5>1, QueuedFinite
      <4>6. Cardinality(Queued(u)) = q
        BY <1>2, <4>2
      <4>7. e = "QUEUED" => calls[f] = "accepted"
        BY <4>2 DEF request
      <4>8. c <= jobs
        BY <1>1, <1>3, <4>4, <4>5, <4>6, <4>7
      <4> QED BY <4>3, <4>5, <4>8
    <3> QED BY <3>1, <3>2
  <2> QED BY <2>1, <2>2, <2>3, <2>4 DEF JournalInv
<1>7. CASE UNCHANGED <<calls, busy, jobs, logLines>>
  BY <1>7 DEF JournalInv, InFlight
<1> QED BY <1>4, <1>5, <1>6, <1>7, JournalSteps

LEMMA OneInFlight == JournalInv => JournalIsHonest
<1> SUFFICES ASSUME JournalInv PROVE JournalIsHonest
  OBVIOUS
<1>1. PICK S : S = {f \in 1..MaxFires : calls[f] \in {"sent", "accepted", "refused", "lost"}}
  OBVIOUS
<1>2. \A a, b \in S : a = b
  BY <1>1 DEF JournalInv, InFlight
<1>3. Cardinality(S) \in {0, 1}
  BY <1>2, AtMostOne
<1> QED BY <1>1, <1>3 DEF JournalIsHonest, JournalInv, Queued

-----------------------------------------------------------------------------

\* The types of all variables hold in every reachable state; feed and journal
\* keep to their lengths.
THEOREM TabTypeCorrect == TabSpec => []TabTypeOK
<1>1. TabTypeOK /\ [TabNext]_tabVars => TabTypeOK'
  BY TabTypeStep
<1> QED BY <1>1, TabTypeInit, PTL DEF TabSpec

\* A run of the hook has one socket at work, one close to handle or one timer,
\* never two; and the page shows its connection as it is.
THEOREM ConnectionHolds == TabSpec => []ConnectionIsKnown
<1> DEFINE Inv == TabTypeOK /\ SocketsInv /\ ConnectedIsCurrent
<1>1. TabInit => Inv
  BY TabTypeInit, SocketsInit, ConnectedInit
<1>2. Inv /\ [TabNext]_tabVars => Inv'
  BY TabTypeStep, SocketsStep, ConnectedStep
<1>3. Inv => ConnectionIsKnown
  BY OneConnection DEF ConnectionIsKnown
<1> QED BY <1>1, <1>2, <1>3, PTL DEF TabSpec

\* After the cleanup a run of the hook opens one more socket at most.
THEOREM OrphanHolds == TabSpec => OrphanIsTheLast
<1> DEFINE Inv == TabTypeOK /\ SocketsInv
           Fewer == \A m \in Runs : closed[m] =>
                      Cardinality(Live(m)) + timers[m] >= Cardinality(Live(m)') + timers'[m]
<1>1. TabInit => Inv
  BY TabTypeInit, SocketsInit
<1>2. Inv /\ [TabNext]_tabVars => Inv'
  BY TabTypeStep, SocketsStep
<1>3. Inv /\ Inv' /\ [TabNext]_tabVars => [Fewer]_tabVars
  BY OrphanStep
<1> QED BY <1>1, <1>2, <1>3, PTL DEF TabSpec, OrphanIsTheLast

\* The feed is newest first, has no result twice and no hole in what one socket
\* brought, and the figures shown are those of the last attack received.
THEOREM FeedHolds == TabSpec => []FeedIsInOrder
<1> DEFINE Inv == TabTypeOK /\ SocketsInv /\ WiresInv /\ FeedInv
<1>1. TabInit => Inv
  BY TabTypeInit, SocketsInit, WiresInit, FeedInit
<1>2. Inv /\ [TabNext]_tabVars => Inv'
  BY TabTypeStep, SocketsStep, WiresStep, FeedStep
<1>3. Inv => FeedIsInOrder
  BY FeedOrder
<1> QED BY <1>1, <1>2, <1>3, PTL DEF TabSpec

\* A double click dispatches once, and a QUEUED line stands for an answer of the
\* gateway that the job is queued (what becomes of the message is JobPipeline's matter).
THEOREM JournalHolds == TabSpec => []JournalIsHonest
<1> DEFINE Inv == TabTypeOK /\ JournalInv
<1>1. TabInit => Inv
  BY TabTypeInit, JournalInit
<1>2. Inv /\ [TabNext]_tabVars => Inv'
  BY TabTypeStep, JournalStep
<1>3. Inv => JournalIsHonest
  BY OneInFlight
<1> QED BY <1>1, <1>2, <1>3, PTL DEF TabSpec
================================================================================
