---------------------------- MODULE ResultFanout ----------------------------
(***************************************************************************)
(* The gateway's handling of one result after the other: main.go's results *)
(* goroutine broadcasts the message through ws.Hub, decodes it and writes  *)
(* a row, while an HTTP goroutine per websocket registers its connection,  *)
(* blocks reading it and unregisters it when the read fails.               *)
(*                                                                         *)
(* Hub.Broadcast holds the read lock while it writes to one client after   *)
(* the other, without a write deadline.  Register and Unregister need the  *)
(* write lock; their critical sections do not block, so each is one step.  *)
(***************************************************************************)
EXTENDS Naturals, SequencesExt

CONSTANTS Conns,    \* websocket connections; a reconnecting client gets a new one
          NoConn,   \* no connection
          MaxMsgs,  \* bound of the model: results that reach the gateway
          BufCap    \* messages the kernel buffers of one socket hold

ASSUME NoConnAssumption == NoConn \notin Conns
ASSUME BoundsAssumption == MaxMsgs \in Nat /\ BufCap \in Nat \ {0}

VARIABLES
  cpc,      \* results goroutine: "recv", "rlock", "range", "write", "decode", "save"
  seen,     \* results taken from the broker; the current one is number seen
  rlocked,  \* does Broadcast hold the hub's read lock
  todo,     \* connections the range loop has not visited yet
  writing,  \* the connection WriteMessage is working on
  clients,  \* the hub's map
  spc,      \* stream handler: "new", "register", "reading", "unregister", "done"
  sock,     \* socket: "none", "open", "gone" (the peer left), "closed" (by us)
  buf,      \* messages written and not yet read by the peer
  got,      \* messages the peer has read
  rows,     \* table results, in insertion order
  joined    \* history: number of results seen when the connection registered

consumerVars == <<cpc, seen, todo, writing, rows>>
streamVars   == <<spc, joined>>
vars == <<consumerVars, streamVars, rlocked, clients, sock, buf, got>>

Init ==
  /\ cpc = "recv" /\ seen = 0 /\ rlocked = FALSE
  /\ todo = {} /\ writing = NoConn /\ clients = {}
  /\ spc = [c \in Conns |-> "new"] /\ sock = [c \in Conns |-> "none"]
  /\ buf = [c \in Conns |-> <<>>] /\ got = [c \in Conns |-> <<>>]
  /\ rows = <<>>
  /\ joined = [c \in Conns |-> 0]

-----------------------------------------------------------------------------
(* Server.stream, one goroutine per connection.                            *)

Upgrade(c) ==
  /\ spc[c] = "new"
  /\ spc' = [spc EXCEPT ![c] = "register"]
  /\ sock' = [sock EXCEPT ![c] = "open"]
  /\ UNCHANGED <<consumerVars, joined, rlocked, clients, buf, got>>

Register(c) ==
  /\ spc[c] = "register" /\ ~rlocked
  /\ clients' = clients \cup {c}
  /\ spc' = [spc EXCEPT ![c] = "reading"]
  /\ joined' = [joined EXCEPT ![c] = seen]
  /\ UNCHANGED <<consumerVars, rlocked, sock, buf, got>>

\* ReadMessage fails on a lost or closed socket, and 90s after Register on every
\* other: only a pong moves the deadline, and nobody sends pings.
ReadFails(c) ==
  /\ spc[c] = "reading"
  /\ spc' = [spc EXCEPT ![c] = "unregister"]
  /\ UNCHANGED <<consumerVars, joined, rlocked, clients, sock, buf, got>>

\* A connection Broadcast has dropped is not in the map, and was closed there.
Unregister(c) ==
  /\ spc[c] = "unregister" /\ ~rlocked
  /\ clients' = clients \ {c}
  /\ sock' = IF c \in clients THEN [sock EXCEPT ![c] = "closed"] ELSE sock
  /\ spc' = [spc EXCEPT ![c] = "done"]
  /\ UNCHANGED <<consumerVars, joined, rlocked, buf, got>>

-----------------------------------------------------------------------------
(* The peers: browsers, and the network between.                           *)

PeerReads(c) ==
  /\ sock[c] \in {"open", "closed"} /\ buf[c] # <<>>
  /\ got' = [got EXCEPT ![c] = Append(@, Head(buf[c]))]
  /\ buf' = [buf EXCEPT ![c] = Tail(@)]
  /\ UNCHANGED <<consumerVars, streamVars, rlocked, clients, sock>>

PeerLeaves(c) ==
  /\ sock[c] = "open"
  /\ sock' = [sock EXCEPT ![c] = "gone"]
  /\ buf' = [buf EXCEPT ![c] = <<>>]
  /\ UNCHANGED <<consumerVars, streamVars, rlocked, clients, got>>

-----------------------------------------------------------------------------
(* The results goroutine.                                                  *)

ReceiveResult ==
  /\ cpc = "recv" /\ seen < MaxMsgs
  /\ seen' = seen + 1
  /\ cpc' = "rlock"
  /\ UNCHANGED <<todo, writing, rows, streamVars, rlocked, clients, sock, buf, got>>

StartBroadcast ==
  /\ cpc = "rlock"
  /\ rlocked' = TRUE
  /\ todo' = clients
  /\ cpc' = "range"
  /\ UNCHANGED <<seen, writing, rows, streamVars, clients, sock, buf, got>>

\* A map is ranged over in any order.
PickClient(c) ==
  /\ cpc = "range" /\ c \in todo
  /\ writing' = c
  /\ todo' = todo \ {c}
  /\ cpc' = "write"
  /\ UNCHANGED <<seen, rows, streamVars, rlocked, clients, sock, buf, got>>

\* Mutant: a write deadline that passes costs the client the message, not the
\* connection.
WriteOrSkip ==
  /\ cpc = "write" /\ sock[writing] = "open"
  /\ \/ UNCHANGED buf
     \/ /\ Len(buf[writing]) < BufCap
        /\ buf' = [buf EXCEPT ![writing] = Append(@, seen)]
  /\ writing' = NoConn
  /\ cpc' = "range"
  /\ UNCHANGED <<seen, todo, rows, streamVars, rlocked, clients, sock, got>>

\* WriteMessage returns once the socket takes the message: with a full buffer it
\* waits for the peer.
WriteMessage ==
  /\ cpc = "write" /\ sock[writing] = "open" /\ Len(buf[writing]) < BufCap
  /\ buf' = [buf EXCEPT ![writing] = Append(@, seen)]
  /\ writing' = NoConn
  /\ cpc' = "range"
  /\ UNCHANGED <<seen, todo, rows, streamVars, rlocked, clients, sock, got>>

\* The loss of the peer may not have been noticed yet.
WriteVanishes ==
  /\ cpc = "write" /\ sock[writing] = "gone"
  /\ writing' = NoConn
  /\ cpc' = "range"
  /\ UNCHANGED <<seen, todo, rows, streamVars, rlocked, clients, sock, buf, got>>

\* Mutants: a failed write abandons the rest of the broadcast; or calls Unregister, which waits for the lock Broadcast holds.
WriteFailsStopsBroadcast ==
  /\ cpc = "write" /\ sock[writing] \in {"gone", "closed"}
  /\ clients' = clients \ {writing}
  /\ sock' = [sock EXCEPT ![writing] = "closed"]
  /\ writing' = NoConn
  /\ todo' = {}
  /\ cpc' = "range"
  /\ UNCHANGED <<seen, rows, streamVars, rlocked, buf, got>>

WriteFailsUnregisters ==
  /\ cpc = "write" /\ sock[writing] \in {"gone", "closed"}
  /\ sock' = [sock EXCEPT ![writing] = "closed"]
  /\ UNCHANGED <<consumerVars, streamVars, rlocked, clients, buf, got>>

WriteFails ==
  /\ cpc = "write" /\ sock[writing] \in {"gone", "closed"}
  /\ clients' = clients \ {writing}
  /\ sock' = [sock EXCEPT ![writing] = "closed"]
  /\ writing' = NoConn
  /\ cpc' = "range"
  /\ UNCHANGED <<seen, todo, rows, streamVars, rlocked, buf, got>>

\* Mutant: an early return without RUnlock.
EndBroadcastLocked ==
  /\ cpc = "range" /\ todo = {}
  /\ cpc' = "decode"
  /\ UNCHANGED <<seen, todo, writing, rows, streamVars, rlocked, clients, sock, buf, got>>

EndBroadcast ==
  /\ cpc = "range" /\ todo = {}
  /\ rlocked' = FALSE
  /\ cpc' = "decode"
  /\ UNCHANGED <<seen, todo, writing, rows, streamVars, clients, sock, buf, got>>

\* A body that is no JSON object was shown to the clients and is not stored.
DecodeResult ==
  /\ cpc = "decode"
  /\ cpc' \in {"save", "recv"}
  /\ UNCHANGED <<seen, todo, writing, rows, streamVars, rlocked, clients, sock, buf, got>>

\* A failed insert is logged and the result forgotten.
SaveResult ==
  /\ cpc = "save"
  /\ rows' \in {rows, Append(rows, seen)}
  /\ cpc' = "recv"
  /\ UNCHANGED <<seen, todo, writing, streamVars, rlocked, clients, sock, buf, got>>

-----------------------------------------------------------------------------
Stream(c) == Upgrade(c) \/ Register(c) \/ ReadFails(c) \/ Unregister(c)

Consumer ==
  \/ StartBroadcast \/ (\E c \in Conns : PickClient(c))
  \/ WriteMessage \/ WriteVanishes \/ WriteFails \/ EndBroadcast
  \/ DecodeResult \/ SaveResult

Next == \/ ReceiveResult \/ Consumer
        \/ \E c \in Conns : Stream(c) \/ PeerReads(c) \/ PeerLeaves(c)

Spec == Init /\ [][Next]_vars

\* Goroutines run, and a read ends at its deadline at the latest.  Unregister gets
\* the lock in time: a waiting writer keeps new readers out of a RWMutex.
ServerFairness ==
  /\ WF_vars(Consumer)
  /\ \A c \in Conns : /\ SF_vars(Register(c)) /\ SF_vars(Unregister(c))
                      /\ WF_vars(ReadFails(c))

\* With peers that keep reading, or without.
ReadingPeersSpec == Spec /\ ServerFairness /\ \A c \in Conns : WF_vars(PeerReads(c))
AnyPeersSpec == Spec /\ ServerFairness

-----------------------------------------------------------------------------
(* Properties.                                                             *)

\* Every variable has its type: only results that were received are buffered, read
\* and stored.
TypeOK ==
  /\ cpc \in {"recv", "rlock", "range", "write", "decode", "save"}
  /\ seen \in 0..MaxMsgs
  /\ rlocked \in BOOLEAN
  /\ todo \subseteq Conns /\ clients \subseteq Conns
  /\ writing \in Conns \cup {NoConn}
  /\ spc \in [Conns -> {"new", "register", "reading", "unregister", "done"}]
  /\ sock \in [Conns -> {"none", "open", "gone", "closed"}]
  /\ buf \in [Conns -> Seq(1..MaxMsgs)] /\ got \in [Conns -> Seq(1..MaxMsgs)]
  /\ rows \in Seq(1..MaxMsgs)
  /\ joined \in [Conns -> 0..MaxMsgs]

Sent(c) == got[c] \o buf[c]

\* A client gets a run of consecutive results, from the first that is broadcast after
\* it registered: Broadcast drops a connection at its first failed write rather than
\* leave a hole in its stream.
NoGapInStream ==
  \A c \in Conns :
    /\ Sent(c) # <<>> => Head(Sent(c)) \in {joined[c], joined[c] + 1}
    /\ \A i \in 1..(Len(Sent(c)) - 1) : Sent(c)[i + 1] = Sent(c)[i] + 1

\* Once Broadcast returned, every live client that was registered when the result
\* came in has it, and so does whoever looks at the row that is about to be written.
ShownToEveryClient ==
  cpc \in {"decode", "save"} =>
    \A c \in clients : joined[c] < seen /\ sock[c] = "open" =>
      Sent(c) # <<>> /\ Last(Sent(c)) = seen

\* The two places that close a connection, Broadcast and Unregister, agree: a closed
\* socket has left the map, and a handler that ended left neither behind.
ClosedIsForgotten ==
  \A c \in Conns : /\ sock[c] = "closed" => c \notin clients
                   /\ spc[c] = "done" => sock[c] = "closed"

\* No result is stored twice or out of order, whatever failed in between.
RowsInOrder == \A i, k \in 1..Len(rows) : i < k => rows[i] < rows[k]

\* Clients and store see results in the order in which they were consumed.
ResultsInOrder == NoGapInStream /\ RowsInOrder

\* The map of the hub is right when clients come, leave and fail during a
\* broadcast: the live ones in it are served, and no other stays in it.
HubServesClients == ShownToEveryClient /\ ClosedIsForgotten

\* The goroutine always comes back for the next result.
ResultsKeepFlowing == (cpc # "recv") ~> (cpc = "recv")

\* No handler goroutine stays behind: every connection that registered is
\* unregistered, also one that Broadcast dropped.
StreamsEnd == \A c \in Conns : (spc[c] # "new") ~> (spc[c] = "done")
=============================================================================
