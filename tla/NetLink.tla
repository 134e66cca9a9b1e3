------------------------------ MODULE NetLink -------------------------------
(***************************************************************************)
(* The net client node (components/external/net_node.go) and the server it *)
(* talks to, the net endpoint (endpoint/net/net.go): the client keeps one  *)
(* connection alive by a heartbeat and replaces it when a heartbeat cannot *)
(* be written; the server drops a connection on which it has read nothing  *)
(* for ReadTimeout.  The network is external: it may break a connection;   *)
(* a write on a broken one may succeed once before the next one fails.     *)
(*                                                                         *)
(* Time is discrete.  A tick passes only when nothing is due: no timer at  *)
(* zero, no onPing half done, no line that the server could read.          *)
(***************************************************************************)
EXTENDS Integers, Sequences

CONSTANTS
  Heartbeat,     \* HeartbeatInterval, in ticks
  ReadTimeout,   \* ReadTimeout + 5 seconds, in ticks
  Processing,    \* the longest DoProcess of the server's routers, in ticks
  MaxConns,      \* bound: connections made
  MaxLines       \* bound: lines on their way

\* A heartbeat, and a server that is busy, stay below the time limit of the server.  The
\* server has one: with the setting 0 it never drops a client, and the handler of a peer
\* that vanishes without a trace stays for ever.
ASSUME TimingAssumption ==
  /\ {Heartbeat, ReadTimeout, Processing, MaxConns, MaxLines} \subseteq Nat \ {0}
  /\ Heartbeat < ReadTimeout /\ Processing < ReadTimeout

Conns == 1..MaxConns

Off == -1        \* a timer that is not running

VARIABLES
  \* the client
  conn,          \* x.conn, 0 for nil
  disconnected,  \* x.disconnected
  heartbeat,     \* ticks left on heartbeatTimer
  ping,          \* where onPing is
  loop,          \* where the goroutine of start is
  stop,          \* x.stop: "open", "sent" or "taken"
  \* the network: the state of each connection and the lines on their way
  link, lines,
  \* the server
  listener,      \* ep.listener: "open", "closed" or "nil"
  accept,        \* where the loop of Start is
  handler,       \* where the goroutine of ClientHandler is, for each connection
  readTimer,     \* ticks left on readTimeoutTimer
  busy           \* ticks that DoProcess has taken, for each connection

client == <<conn, disconnected, heartbeat, ping, loop, stop>>
network == <<link, lines>>
server == <<listener, accept, handler, readTimer, busy>>
vars == <<client, network, server>>

Init ==
  /\ conn = 0 /\ disconnected = FALSE /\ heartbeat = Off
  /\ ping = "idle" /\ loop = "init" /\ stop = "open"
  /\ link = [c \in Conns |-> "none"]
  /\ lines = [c \in Conns |-> <<>>]
  /\ listener = "open" /\ accept = "wait"
  /\ handler = [c \in Conns |-> "none"]
  /\ readTimer = [c \in Conns |-> Off]
  /\ busy = [c \in Conns |-> 0]
-----------------------------------------------------------------------------
(* The client.                                                             *)

Close(c) == link' = IF c = 0 THEN link ELSE [link EXCEPT ![c] = "closed"]

\* Mutant: the timer is left as it is when there is one.
ConnectedKeepsTimer ==
  /\ conn' = conn + 1
  /\ disconnected' = FALSE
  /\ heartbeat' = IF conn = 0 THEN Heartbeat ELSE heartbeat

\* onConnect after a successful DialTimeout.
Connected ==
  /\ conn' = conn + 1
  /\ disconnected' = FALSE
  /\ heartbeat' = Heartbeat

\* onConnect: Init calls it, and the loop of start while disconnected.  The old
\* connection is closed first, whether the dial succeeds or not.  Only a
\* successful Init starts the loop.
OnConnect ==
  /\ \/ loop = "init"
     \/ loop = "select" /\ stop # "sent" /\ disconnected
  /\ \/ /\ conn < MaxConns /\ listener = "open" /\ accept = "wait"
        /\ Connected
        /\ link' = [c \in Conns |-> IF c = conn THEN "closed"
                                    ELSE IF c = conn + 1 THEN "open" ELSE link[c]]
        /\ accept' = "spawn"
        /\ loop' = "sleep"
     \/ /\ Close(conn)
        /\ loop' = IF loop = "init" THEN "off" ELSE "sleep"
        /\ UNCHANGED <<conn, disconnected, heartbeat, accept>>
  /\ UNCHANGED <<ping, stop, lines, listener, handler, readTimer, busy>>

\* start: nothing to do, sleep; and the end of a sleep.
Sleep ==
  /\ \/ loop = "select" /\ stop # "sent" /\ ~disconnected /\ loop' = "sleep"
     \/ loop = "sleep" /\ loop' = "select"
  /\ UNCHANGED <<conn, disconnected, heartbeat, ping, stop, network, server>>

\* Mutant: the connection stays open.
OnDisconnectKeepsOpen ==
  /\ loop = "select" /\ stop = "sent"
  /\ stop' = "taken" /\ loop' = "end"
  /\ heartbeat' = Off /\ disconnected' = TRUE
  /\ UNCHANGED <<conn, ping, network, server>>

\* start: the stop signal, and onDisconnect.
OnDisconnect ==
  /\ loop = "select" /\ stop = "sent"
  /\ stop' = "taken" /\ loop' = "end"
  /\ Close(conn)
  /\ heartbeat' = Off /\ disconnected' = TRUE
  /\ UNCHANGED <<conn, ping, lines, server>>

\* Destroy: the signal fits into the channel, which is then closed.
Destroy ==
  /\ loop \notin {"init", "off"} /\ stop = "open"
  /\ stop' = "sent"
  /\ UNCHANGED <<conn, disconnected, heartbeat, ping, loop, network, server>>

\* A line can be written: the connection is up, or broken and nobody knows.
Writable == link[conn] \in {"open", "half"}

Write(l) ==
  IF link[conn] = "open"
  THEN lines' = [lines EXCEPT ![conn] = Append(@, l)] /\ UNCHANGED link
  ELSE link' = [link EXCEPT ![conn] = "reset"] /\ UNCHANGED lines

\* The timer fires: onPing up to its write.
OnPing ==
  /\ heartbeat = 0 /\ ping = "idle"
  /\ heartbeat' = Off
  /\ ping' = IF disconnected THEN "idle" ELSE "write"
  /\ UNCHANGED <<conn, disconnected, loop, stop, network, server>>

\* onPing: the write, and the timer or the flag.
PingWrite ==
  /\ ping = "write" /\ ping' = "idle"
  /\ IF Writable
     THEN /\ Len(lines[conn]) < MaxLines
          /\ Write("ping") /\ heartbeat' = Heartbeat /\ UNCHANGED disconnected
     ELSE /\ disconnected' = TRUE
          /\ UNCHANGED <<link, lines, heartbeat>>
  /\ UNCHANGED <<conn, loop, stop, server>>

\* onWrite, for a message of the rule chain: a failure is told and nothing else.
OnWrite ==
  /\ conn # 0 /\ Len(lines[conn]) < MaxLines
  /\ Writable /\ Write("data") /\ heartbeat' = Heartbeat
  /\ UNCHANGED <<conn, disconnected, ping, loop, stop, server>>
-----------------------------------------------------------------------------
(* The server.                                                             *)

\* Start: the accepted connection gets its handler, and its timer.
Accept ==
  /\ accept = "spawn" /\ listener # "nil"
  /\ accept' = "wait"
  /\ handler' = [handler EXCEPT ![conn] = "read"]
  /\ readTimer' = [readTimer EXCEPT ![conn] = ReadTimeout]
  /\ UNCHANGED <<client, network, listener, busy>>

\* Start: Close has set the listener to nil since the last Accept, and calling
\* Accept on it ends the server process.
AcceptNil ==
  /\ accept = "spawn" /\ listener = "nil"
  /\ accept' = "crashed"
  /\ link' = [c \in Conns |-> IF link[c] = "open" THEN "half" ELSE link[c]]
  /\ lines' = [c \in Conns |-> <<>>]
  /\ handler' = [c \in Conns |-> IF c <= conn THEN "gone" ELSE "none"]
  /\ readTimer' = [c \in Conns |-> Off]
  /\ busy' = [c \in Conns |-> 0]
  /\ UNCHANGED <<client, listener>>

\* Start returns StopErr: Accept of the closed listener.
AcceptFails ==
  /\ accept = "wait" /\ listener # "open"
  /\ accept' = "stopped"
  /\ UNCHANGED <<client, network, listener, handler, readTimer, busy>>

\* Endpoint.Close: the listener is closed, then forgotten.
CloseListener ==
  /\ listener # "nil"
  /\ listener' = IF listener = "open" THEN "closed" ELSE "nil"
  /\ UNCHANGED <<client, network, accept, handler, readTimer, busy>>

\* Mutant: a heartbeat does not count as data.
ReadTimerSkipsPing(c) ==
  IF Head(lines[c]) = "ping" THEN readTimer ELSE [readTimer EXCEPT ![c] = ReadTimeout]

\* The timer is reset by every line.
ResetReadTimer(c) == [readTimer EXCEPT ![c] = ReadTimeout]

\* ClientHandler.handler: a line is read; a heartbeat goes no further.
ReadLine(c) ==
  /\ handler[c] = "read" /\ lines[c] # <<>> /\ readTimer[c] # Off
  /\ lines' = [lines EXCEPT ![c] = Tail(@)]
  /\ readTimer' = ResetReadTimer(c)
  /\ handler' = [handler EXCEPT ![c] = IF Head(lines[c]) = "ping" THEN "read" ELSE "process"]
  /\ UNCHANGED <<client, link, listener, accept, busy>>

\* The routers have processed the line.
Processed(c) ==
  /\ handler[c] = "process"
  /\ handler' = [handler EXCEPT ![c] = "read"]
  /\ busy' = [busy EXCEPT ![c] = 0]
  /\ UNCHANGED <<client, network, listener, accept, readTimer>>

\* The timer fires: ClientHandler.onDisconnect.
ReadTimesOut(c) ==
  /\ readTimer[c] = 0
  /\ readTimer' = [readTimer EXCEPT ![c] = Off]
  /\ link' = [link EXCEPT ![c] = IF @ = "open" THEN "half" ELSE @]
  /\ UNCHANGED <<client, lines, listener, accept, handler, busy>>

\* Mutant: the handler goes on reading after an error.
ReadRetries(c) ==
  /\ handler[c] = "read"
  /\ readTimer[c] = Off \/ (link[c] \in {"closed", "reset"} /\ lines[c] = <<>>)
  /\ readTimer' = [readTimer EXCEPT ![c] = Off]
  /\ UNCHANGED <<client, network, listener, accept, handler, busy>>

\* The handler meets the closed connection, its own or the peer's end.
ReadFails(c) ==
  /\ handler[c] = "read"
  /\ readTimer[c] = Off \/ (link[c] \in {"closed", "reset"} /\ lines[c] = <<>>)
  /\ handler' = [handler EXCEPT ![c] = "gone"]
  /\ readTimer' = [readTimer EXCEPT ![c] = Off]
  /\ link' = [link EXCEPT ![c] = IF @ = "open" THEN "half" ELSE @]
  /\ UNCHANGED <<client, lines, listener, accept, busy>>
-----------------------------------------------------------------------------
\* External: the network breaks the connection; what is on its way is lost.
Break ==
  /\ conn # 0 /\ link[conn] = "open"
  /\ link' = [link EXCEPT ![conn] = "half"]
  /\ lines' = [lines EXCEPT ![conn] = <<>>]
  /\ UNCHANGED <<client, server>>

Down(n) == IF n > 0 THEN n - 1 ELSE n

\* External: one tick.
Tick ==
  /\ heartbeat # 0 /\ ping = "idle" /\ accept # "spawn"
  /\ \A c \in Conns :
       /\ readTimer[c] # 0
       /\ handler[c] = "read" => lines[c] = <<>>
       /\ handler[c] = "process" => busy[c] < Processing
  /\ heartbeat' = Down(heartbeat)
  /\ readTimer' = [c \in Conns |-> Down(readTimer[c])]
  /\ busy' = [c \in Conns |-> IF handler[c] = "process" THEN busy[c] + 1 ELSE 0]
  /\ UNCHANGED <<conn, disconnected, ping, loop, stop, network, listener, accept, handler>>

Serve(c) == ReadLine(c) \/ Processed(c) \/ ReadTimesOut(c) \/ ReadFails(c)

Next ==
  \/ OnConnect \/ Sleep \/ OnDisconnect \/ Destroy \/ OnPing \/ PingWrite \/ OnWrite
  \/ Accept \/ AcceptNil \/ AcceptFails \/ CloseListener
  \/ \E c \in Conns : Serve(c)
  \/ Break \/ Tick

\* Goroutines run and time passes; a server that can be reached is reached.
Fairness ==
  /\ SF_vars(OnConnect /\ conn' # conn) /\ WF_vars(OnConnect) /\ WF_vars(Sleep)
  /\ WF_vars(OnDisconnect) /\ WF_vars(OnPing) /\ WF_vars(PingWrite)
  /\ WF_vars(Accept \/ AcceptNil) /\ WF_vars(AcceptFails) /\ WF_vars(Tick)
  /\ \A c \in Conns : WF_vars(Serve(c))

Spec == Init /\ [][Next]_vars /\ Fairness
-----------------------------------------------------------------------------
TypeOK ==
  /\ conn \in 0..MaxConns /\ disconnected \in BOOLEAN
  /\ heartbeat \in Off..Heartbeat
  /\ ping \in {"idle", "write"}
  /\ loop \in {"init", "off", "select", "sleep", "end"}
  /\ stop \in {"open", "sent", "taken"}
  /\ link \in [Conns -> {"none", "open", "half", "reset", "closed"}]
  /\ lines \in [Conns -> Seq({"ping", "data"})]
  /\ \A c \in Conns : Len(lines[c]) <= MaxLines
  /\ listener \in {"open", "closed", "nil"}
  /\ accept \in {"wait", "spawn", "stopped", "crashed"}
  /\ handler \in [Conns -> {"none", "read", "process", "gone"}]
  /\ readTimer \in [Conns -> Off..ReadTimeout]
  /\ busy \in [Conns -> 0..Processing]

(***************************************************************************)
(* The server does not drop a healthy client (readTimeoutTimer): on a      *)
(* connection that is up at both ends, a heartbeat or a message arrives    *)
(* before the read timer runs out.                                         *)
(***************************************************************************)
HealthyStays == \A c \in Conns : link[c] = "open" => readTimer[c] # 0

(***************************************************************************)
(* A lost connection is replaced (start, onPing, onConnect), unless the    *)
(* node is destroyed, the server closed, or the bound on connections met.  *)
(* Only onPing notices the loss, so the heartbeat must go on after every   *)
(* reconnection.                                                           *)
(***************************************************************************)
Repaired ==
  conn \in Conns /\ link[conn] \in {"half", "reset"} ~>
    \/ conn # 0 /\ link[conn] = "open"
    \/ stop # "open" \/ listener # "open" \/ conn = MaxConns

(***************************************************************************)
(* A server side handler ends (ClientHandler.handler): once the client has *)
(* gone, in whatever way, its goroutine does not stay behind, as long as a *)
(* time limit is set.                                                      *)
(***************************************************************************)
HandlersEnd ==
  \A c \in Conns : link[c] \in {"half", "reset", "closed"} ~> handler[c] \in {"none", "gone"}

(***************************************************************************)
(* Destroy takes effect (Destroy, start): the connection ends up closed    *)
(* and stays so.                                                           *)
(***************************************************************************)
DestroyCloses == stop = "sent" ~> [](loop = "end" /\ link[conn] = "closed")
=============================================================================
