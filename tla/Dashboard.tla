------------------------------ MODULE Dashboard ------------------------------
(***************************************************************************)
(* One browser tab on the dashboard: the telemetry hook with its websocket *)
(* and reconnect timer, the header's health poll, the attack console, and  *)
(* what the page derives from the events.  Frames come from the gateway's  *)
(* hub (ResultFanout).  In development React mounts every effect twice     *)
(* (`strict'): the first run of the hook is cleaned up at once, and both   *)
(* runs set the same state.                                                *)
(*                                                                         *)
(* Hook, header and console share nothing but the gateway and the mounted  *)
(* page, so a behaviour exercises one of them (`part').                    *)
(***************************************************************************)
EXTENDS Naturals, FiniteSets, SequencesExt

CONSTANTS
    MAX_EVENTS,  \* events kept, 50 in the code
    LogLines,    \* journal lines kept, 8 in the code
    MaxResults,  \* bound: results broadcast
    MaxFails,    \* bound: sockets lost
    MaxFires,    \* bound: jobs dispatched
    MaxPolls,    \* bound: health polls outstanding at a time
    MaxStops     \* bound: times the gateway stops

ASSUME TabAssumption ==
    /\ {MAX_EVENTS, LogLines} \subseteq Nat \ {0}
    /\ {MaxResults, MaxFails, MaxFires, MaxPolls, MaxStops} \subseteq Nat

Runs == {1, 2}                    \* runs of the hook's effect
Sockets == 1..(2 + MaxFails)
Kinds == {"attack", "other", "junk"}  \* all three figures; a job_id; neither

VARIABLES
    part,         \* what is exercised: "hook", "header" or "console"
    up, stops,    \* the gateway
    kinds,        \* results broadcast so far, by kind
    strict, page, \* development mode; is the page mounted
    closed,       \* the flag of each run of the hook
    timers,       \* reconnect timers pending, for each run
    socket, owner,  \* sockets by number, and the run that opened them
    wire,         \* frames on their way to a socket
    connected,    \* React state of the hook
    events,       \* idem: results with, as history, the socket that brought them
    polls,        \* fetchHealth calls outstanding, sent and by answer
    gateway,      \* the header's state
    calls, busy,  \* dispatchJob calls by number, and the console's state
    jobs,         \* jobs the gateway has accepted
    logLines      \* the page's journal

hookVars == <<strict, closed, timers, socket, owner, wire, connected, events>>
headerVars == <<polls, gateway>>
consoleVars == <<calls, busy, jobs, logLines>>
serverVars == <<part, up, stops, kinds>>
tabVars == <<serverVars, page, hookVars, headerVars, consoleVars>>

Used == {s \in Sockets : socket[s] # "none"}
Live(m) == {s \in Used : owner[s] = m /\ socket[s] \in {"connecting", "open"}}
Ended(m) == {s \in Used : owner[s] = m /\ socket[s] = "ended"}

\* The run of the effect that stays mounted.
Main == IF strict THEN 2 ELSE 1

TabInit ==
    /\ part \in {"hook", "header", "console"}
    /\ up \in BOOLEAN /\ stops = 0 /\ kinds = <<>>
    /\ strict \in BOOLEAN /\ page = TRUE
    /\ closed = [m \in Runs |-> strict /\ m = 1]
    /\ timers = [m \in Runs |-> 0]
    /\ socket = [s \in Sockets |-> IF s = Main THEN "connecting"
                                 ELSE IF s < Main THEN "ended" ELSE "none"]
    /\ owner = [s \in Sockets |-> IF s = 1 THEN 1 ELSE Main]
    /\ wire = [s \in Sockets |-> <<>>]
    /\ connected = FALSE /\ events = <<>>
    /\ polls = [a \in {"sent", "ok", "error"} |-> 0] /\ gateway = "offline"
    /\ calls = [f \in 1..MaxFires |-> "none"] /\ busy = FALSE
    /\ jobs = 0 /\ logLines = <<>>

-----------------------------------------------------------------------------
(* useTelemetry.                                                           *)

PutLast(line, lines, n) ==                                    \* mutant
    IF Len(lines) < n THEN Append(lines, line) ELSE Append(Tail(lines), line)

\* slice(0, n) after the new element was put in front.
Prepend(line, lines, n) ==
    <<line>> \o (IF Len(lines) < n THEN lines ELSE SubSeq(lines, 1, n - 1))

\* setState of an unmounted component does nothing.
setConnected(b) == connected' = IF page THEN b ELSE connected

\* Mutant: setInterval for setTimeout.
TimerFiresEvery(m) ==
    /\ timers[m] > 0 /\ Used # Sockets
    /\ LET s == Cardinality(Used) + 1 IN
         /\ socket' = [socket EXCEPT ![s] = "connecting"]
         /\ owner' = [owner EXCEPT ![s] = m]
    /\ UNCHANGED <<serverVars, page, strict, closed, timers, wire, connected, events,
                   headerVars, consoleVars>>

\* connect(), from the timer: `closed' is not looked at.
TimerFires(m) ==
    /\ timers[m] > 0 /\ Used # Sockets
    /\ timers' = [timers EXCEPT ![m] = @ - 1]
    /\ LET s == Cardinality(Used) + 1 IN
         /\ socket' = [socket EXCEPT ![s] = "connecting"]
         /\ owner' = [owner EXCEPT ![s] = m]
    /\ UNCHANGED <<serverVars, page, strict, closed, wire, connected, events,
                   headerVars, consoleVars>>

onopen(s) ==
    /\ socket[s] = "connecting" /\ up
    /\ socket' = [socket EXCEPT ![s] = "open"]
    /\ setConnected(TRUE)
    /\ UNCHANGED <<serverVars, page, strict, closed, timers, owner, wire, events,
                   headerVars, consoleVars>>

\* The network, or a stopped gateway; onerror closes the socket as well.
SocketEnds(s) ==
    /\ socket[s] \in {"connecting", "open"}
    /\ Cardinality({t \in Used : socket[t] \in {"ended", "closed"}})
         < MaxFails + (IF strict THEN 1 ELSE 0)
    /\ socket' = [socket EXCEPT ![s] = "ended"]
    /\ wire' = [wire EXCEPT ![s] = <<>>]
    /\ UNCHANGED <<serverVars, page, strict, closed, timers, owner, connected,
                   events, headerVars, consoleVars>>

oncloseAlways(s) ==                                           \* mutant
    /\ socket[s] = "ended"
    /\ socket' = [socket EXCEPT ![s] = "closed"]
    /\ setConnected(FALSE)
    /\ timers' = [timers EXCEPT ![owner[s]] = @ + 1]
    /\ UNCHANGED <<serverVars, page, strict, closed, owner, wire, events,
                   headerVars, consoleVars>>

oncloseWhenLive(s) ==                                         \* mutant
    /\ socket[s] = "ended"
    /\ socket' = [socket EXCEPT ![s] = "closed"]
    /\ setConnected(FALSE)
    /\ timers' = IF closed[owner[s]] \/ ~connected THEN timers
                 ELSE [timers EXCEPT ![owner[s]] = @ + 1]
    /\ UNCHANGED <<serverVars, page, strict, closed, owner, wire, events,
                   headerVars, consoleVars>>

onclose(s) ==
    /\ socket[s] = "ended"
    /\ socket' = [socket EXCEPT ![s] = "closed"]
    /\ setConnected(FALSE)
    /\ timers' = IF closed[owner[s]] THEN timers
                 ELSE [timers EXCEPT ![owner[s]] = @ + 1]
    /\ UNCHANGED <<serverVars, page, strict, closed, owner, wire, events,
                   headerVars, consoleVars>>

\* A frame that does not parse, or has no job_id, is dropped.
onmessage(s) ==
    /\ socket[s] = "open" /\ wire[s] # <<>>
    /\ wire' = [wire EXCEPT ![s] = Tail(@)]
    /\ LET n == Head(wire[s]) IN
         events' = IF page /\ kinds[n] # "junk"
                   THEN Prepend(<<n, s>>, events, MAX_EVENTS) ELSE events
    /\ UNCHANGED <<serverVars, page, strict, closed, timers, socket, owner,
                   connected, headerVars, consoleVars>>

\* The cleanup of the hook, and of the header's poll.
Unmount ==
    /\ page
    /\ page' = FALSE
    /\ closed' = [m \in Runs |-> TRUE]
    /\ socket' = [s \in Sockets |-> IF s \in Live(Main) THEN "ended" ELSE socket[s]]
    /\ wire' = [s \in Sockets |-> IF s \in Live(Main) THEN <<>> ELSE wire[s]]
    /\ UNCHANGED <<serverVars, strict, timers, owner, connected, events,
                   headerVars, consoleVars>>

-----------------------------------------------------------------------------
(* TerminalHeader: a poll every 5 seconds, answered or not.                *)

poll ==
    /\ page /\ polls["sent"] + polls["ok"] + polls["error"] < MaxPolls
    /\ polls' = [polls EXCEPT !["sent"] = @ + 1]
    /\ UNCHANGED <<serverVars, page, hookVars, gateway, consoleVars>>

\* What the gateway is when the request reaches it.
HealthAnswer ==
    /\ polls["sent"] > 0
    /\ LET answer == IF up THEN "ok" ELSE "error" IN
         polls' = [polls EXCEPT !["sent"] = @ - 1, ![answer] = @ + 1]
    /\ UNCHANGED <<serverVars, page, hookVars, gateway, consoleVars>>

\* Answers arrive in any order.
ShowHealth(answer) ==
    /\ polls[answer] > 0
    /\ polls' = [polls EXCEPT ![answer] = @ - 1]
    /\ gateway' = IF ~page THEN gateway
                  ELSE IF answer = "ok" THEN "online" ELSE "offline"
    /\ UNCHANGED <<serverVars, page, hookVars, consoleVars>>

-----------------------------------------------------------------------------
(* AttackConsole.                                                          *)

\* Mutant: the buttons stay enabled during the call.
fireAgain(f) ==
    /\ page /\ ~busy /\ calls[f] = "none" /\ (f > 1 => calls[f - 1] # "none")
    /\ calls' = [calls EXCEPT ![f] = "sent"]
    /\ UNCHANGED <<serverVars, page, hookVars, headerVars, busy, jobs, logLines>>

\* A click on a button that is not disabled.
fire(f) ==
    /\ page /\ ~busy /\ calls[f] = "none" /\ (f > 1 => calls[f - 1] # "none")
    /\ busy' = TRUE
    /\ calls' = [calls EXCEPT ![f] = "sent"]
    /\ UNCHANGED <<serverVars, page, hookVars, headerVars, jobs, logLines>>

\* The gateway publishes the job or refuses it; it, or its answer, may not be
\* reached.
Dispatch(f) ==
    /\ calls[f] = "sent"
    /\ \/ up /\ jobs' = jobs + 1 /\ calls' = [calls EXCEPT ![f] = "accepted"]
       \/ up /\ jobs' = jobs + 1 /\ calls' = [calls EXCEPT ![f] = "lost"]
       \/ up /\ jobs' = jobs /\ calls' = [calls EXCEPT ![f] = "refused"]
       \/ jobs' = jobs /\ calls' = [calls EXCEPT ![f] = "lost"]
    /\ UNCHANGED <<serverVars, page, hookVars, headerVars, busy, logLines>>

\* request() throws unless the envelope says success.
request(answer) == answer = "accepted"

Dispatched(f) ==
    /\ calls[f] \in {"accepted", "refused", "lost"}
    /\ calls' = [calls EXCEPT ![f] = "done"]
    /\ busy' = IF page THEN FALSE ELSE busy
    /\ logLines' = IF page
                   THEN Prepend(IF request(calls[f]) THEN "QUEUED" ELSE "FAILED",
                                logLines, LogLines)
                   ELSE logLines
    /\ UNCHANGED <<serverVars, page, hookVars, headerVars, jobs>>

-----------------------------------------------------------------------------
(* The gateway.                                                            *)

Broadcast ==
    /\ up /\ Len(kinds) < MaxResults
    /\ \E k \in Kinds : kinds' = Append(kinds, k)
    /\ wire' = [s \in Sockets |-> IF socket[s] = "open"
                                  THEN Append(wire[s], Len(kinds) + 1) ELSE wire[s]]
    /\ UNCHANGED <<part, up, stops, page, strict, closed, timers, socket, owner,
                   connected, events, headerVars, consoleVars>>

GatewayStops ==
    /\ up /\ stops < MaxStops /\ up' = FALSE /\ stops' = stops + 1
    /\ UNCHANGED <<part, kinds, page, hookVars, headerVars, consoleVars>>

GatewayStarts ==
    /\ ~up /\ up' = TRUE
    /\ UNCHANGED <<part, stops, kinds, page, hookVars, headerVars, consoleVars>>

HookNext ==
    \/ \E m \in Runs : TimerFires(m)
    \/ \E s \in Sockets : onopen(s) \/ SocketEnds(s) \/ onclose(s) \/ onmessage(s)

HeaderNext ==
    \/ poll
    \/ HealthAnswer
    \/ \E answer \in {"ok", "error"} : ShowHealth(answer)

ConsoleNext ==
    \E f \in 1..MaxFires :
        fire(f) \/ Dispatch(f) \/ Dispatched(f)

TabNext ==
    \/ part = "hook" /\ (HookNext \/ Broadcast)
    \/ part = "header" /\ HeaderNext
    \/ part = "console" /\ ConsoleNext
    \/ Unmount
    \/ GatewayStops
    \/ GatewayStarts

\* Timers fire, requests are answered or fail, and the browser runs the
\* handlers; nothing is assumed of the gateway, the network and the user.
Fairness ==
    /\ \A m \in Runs : WF_tabVars(part = "hook" /\ TimerFires(m))
    /\ \A s \in Sockets : WF_tabVars(part = "hook" /\ (onopen(s) \/ onclose(s)))
    /\ WF_tabVars(part = "header" /\ poll)
    /\ WF_tabVars(part = "header" /\ HealthAnswer)
    /\ \A answer \in {"ok", "error"} :
          WF_tabVars(part = "header" /\ ShowHealth(answer))

TabSpec == TabInit /\ [][TabNext]_tabVars /\ Fairness

\* The result the cards and bars are drawn from: the first event with all
\* figures, or 0.
latest ==
    LET I == {i \in 1..Len(events) : kinds[events[i][1]] = "attack"}
    IN  IF I = {} THEN 0 ELSE events[CHOOSE i \in I : \A j \in I : i <= j][1]

-----------------------------------------------------------------------------
(* Correctness.                                                            *)

\* Every variable has its type, and feed and journal keep to their lengths.
TabTypeOK ==
    /\ part \in {"hook", "header", "console"} /\ up \in BOOLEAN
    /\ stops \in 0..MaxStops /\ kinds \in Seq(Kinds) /\ Len(kinds) <= MaxResults
    /\ strict \in BOOLEAN /\ page \in BOOLEAN
    /\ closed \in [Runs -> BOOLEAN] /\ timers \in [Runs -> Nat]
    /\ socket \in [Sockets -> {"none", "connecting", "open", "ended", "closed"}]
    /\ owner \in [Sockets -> Runs] /\ wire \in [Sockets -> Seq(1..MaxResults)]
    /\ connected \in BOOLEAN /\ events \in Seq((1..MaxResults) \X Sockets)
    /\ polls \in [{"sent", "ok", "error"} -> Nat]
    /\ gateway \in {"online", "offline"}
    /\ calls \in [1..MaxFires ->
                     {"none", "sent", "accepted", "refused", "lost", "done"}]
    /\ busy \in BOOLEAN /\ jobs \in Nat
    /\ logLines \in Seq({"QUEUED", "FAILED"}) /\ Len(logLines) <= LogLines
    /\ Len(events) <= MAX_EVENTS

\* However sockets, timers and the cleanup interleave, a run of the hook has
\* one socket at work, one close to handle or one timer, never two.
OneConnectionAtATime ==
    \A m \in Runs : Cardinality(Live(m)) + Cardinality(Ended(m)) + timers[m] <= 1

\* After the cleanup a run of the hook opens at most one more socket, the
\* one of a timer that was pending; when that closes nothing follows.
OrphanIsTheLast ==
    [][\A m \in Runs : closed[m] =>
          Cardinality(Live(m)) + timers[m] >= Cardinality(Live(m)') + timers'[m]]_tabVars

\* WS LIVE is shown exactly while the socket is open or its close is not
\* handled yet, outside development mode.
ConnectedIsCurrent ==
    page /\ ~strict =>
        IF connected THEN \E s \in Used : socket[s] \in {"open", "ended"}
        ELSE \A s \in Used : socket[s] # "open"

\* What the page knows of its connection, and that there is one.
ConnectionIsKnown == OneConnectionAtATime /\ ConnectedIsCurrent

\* The feed is newest first and has no result twice; between two results of
\* one socket none is missing but those without a job_id, and the figures
\* shown are those of the last attack received.
FeedIsInOrder ==
    ~strict =>
        /\ \A i \in 1..(Len(events) - 1) :
             LET a == events[i] b == events[i + 1] IN
               /\ a[1] > b[1] /\ a[2] >= b[2]
               /\ a[2] = b[2] => \A n \in (b[1] + 1)..(a[1] - 1) : kinds[n] = "junk"
        /\ \A i \in 1..Len(events) :
             kinds[events[i][1]] = "attack" => latest >= events[i][1]

\* A double click dispatches once, and a QUEUED line stands for an answer of the
\* gateway that the job is queued (what becomes of the message is JobPipeline's matter).
JournalIsHonest ==
    /\ Cardinality({f \in 1..MaxFires :
                      calls[f] \in {"sent", "accepted", "refused", "lost"}}) <= 1
    /\ Cardinality({i \in DOMAIN logLines : logLines[i] = "QUEUED"}) <= jobs

\* When the gateway is up for good, the page is connected and shows it
\* online for good, late answers of overlapping polls notwithstanding.
ShownOnline ==
    <>[]up => <>[](page => CASE part = "hook" -> connected \/ strict
                             [] part = "header" -> gateway = "online"
                             [] part = "console" -> TRUE)

=============================================================================
