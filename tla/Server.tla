------------------------------- MODULE Server -------------------------------
(***************************************************************************)
(* The http and websocket server of the SFU and of the observer            *)
(* (sfu/src/Server.ts and observer/src/Server.ts are the same file), with  *)
(* the middlewares that answer http requests and the SIGINT handler of     *)
(* main.ts.                                                                *)
(*                                                                         *)
(* A client is a websocket or an http request; the latter runs through the *)
(* middlewares in one step, except for /metrics, whose data is awaited;    *)
(* only the observer has that endpoint.                                    *)
(***************************************************************************)
EXTENDS Naturals, FiniteSets

CONSTANTS
  Client,     \* those who connect, each once
  KindOf,     \* KindOf[c]: "websocket", or the request "/", "/metrics" or "other"
  StopOnce,   \* the observer's handler of SIGINT calls stop once, the SFU's each time
  MaxStarts   \* bound: calls of start on an idle server

VARIABLES
  state,     \* _state
  starts,    \* calls of start that went past its guard
  starting,  \* whether start() awaits listen
  stopping,  \* what stop() awaits: "none", "ws" or "http"
  http,      \* _httpServer: "none", "made", "refused", "listening", "closing", "closed"
  wss,       \* _wsServer: "none", "open" or "closed" once close was called
  conn,      \* conn[c]: "none", "open", "waiting" for data, "stuck" or "gone"
  interrupted, \* SIGINT was received: a timer of 3 seconds runs
  up         \* FALSE once process.exit was called

serverVars == <<state, starts, starting, stopping, http, wss>>
vars == <<serverVars, conn, interrupted, up>>

Init ==
  /\ state = "idle"
  /\ starts = 0
  /\ starting = FALSE
  /\ stopping = "none"
  /\ http = "none"
  /\ wss = "none"
  /\ conn = [c \in Client |-> "none"]
  /\ interrupted = FALSE
  /\ up = TRUE

-----------------------------------------------------------------------------

\* start, up to the call of listen: ignored unless the server is idle
Start ==
  /\ up
  /\ state = "idle"
  /\ starts < MaxStarts
  /\ starts' = starts + 1
  /\ state' = "started"
  /\ http' = "made"
  /\ wss' = "open"
  /\ starting' = TRUE
  /\ UNCHANGED <<stopping, conn, interrupted, up>>

Listening ==
  /\ up
  /\ starting
  /\ http = "made"
  /\ http' = "listening"
  /\ starting' = FALSE
  /\ state' = "run"
  /\ UNCHANGED <<starts, stopping, wss, conn, interrupted, up>>

\* The port is taken: the error is logged, and start() waits for ever.
ListenError ==
  /\ up
  /\ starting
  /\ http = "made"
  /\ http' = "refused"
  /\ UNCHANGED <<state, starts, starting, stopping, wss, conn, interrupted, up>>

\* The middlewares in turn: the index controller answers "/", the prometheus
\* controller of the observer promises an answer to "/metrics", the last one
\* only logs.
Route(kind) ==
  CASE kind = "/" -> "gone"
    [] kind = "/metrics" -> "waiting"
    [] OTHER -> "stuck"

\* A websocket or a request.  Without a websocket server that listens, node takes
\* an upgrade for a request.
Connection(c) ==
  /\ up
  /\ http = "listening"
  /\ conn[c] = "none"
  /\ conn' = [conn EXCEPT ![c] =
                IF KindOf[c] = "websocket" /\ wss = "open" THEN "open" ELSE Route(KindOf[c])]
  /\ UNCHANGED <<serverVars, interrupted, up>>

MetricsReady(c) ==
  /\ up
  /\ conn[c] = "waiting"
  /\ conn' = [conn EXCEPT ![c] = "gone"]
  /\ UNCHANGED <<serverVars, interrupted, up>>

\* The other side ends its connection.
Leaves(c) ==
  /\ up
  /\ conn[c] \in {"open", "waiting", "stuck"}
  /\ conn' = [conn EXCEPT ![c] = "gone"]
  /\ UNCHANGED <<serverVars, interrupted, up>>

Stops == state = "run" /\ ~(StopOnce /\ interrupted)

\* SIGINT: stop() is called, which does nothing unless the server runs, and a
\* timer is set.
Sigint ==
  /\ up
  /\ interrupted' = TRUE
  /\ IF Stops
     THEN /\ state' = "stopped"
          /\ stopping' = "ws"
          /\ wss' = "closed"
     ELSE UNCHANGED <<state, stopping, wss>>
  /\ UNCHANGED <<starts, starting, http, conn, up>>

Websockets == {c \in Client : KindOf[c] = "websocket" /\ conn[c] = "open"}
Connections == {c \in Client : conn[c] \in {"open", "waiting", "stuck"}}

\* _wsServer.close calls back when the last websocket is gone.
WsClosed ==
  /\ up
  /\ stopping = "ws"
  /\ Websockets = {}
  /\ stopping' = "http"
  /\ http' = "closing"
  /\ UNCHANGED <<state, starts, starting, wss, conn, interrupted, up>>

NobodyWaited == TRUE              \* mutant: idle without waiting for _httpServer.close
AllGone == Connections = {}

\* _httpServer.close calls back when the last connection is gone.
HttpClosed ==
  /\ up
  /\ stopping = "http"
  /\ AllGone
  /\ stopping' = "none"
  /\ http' = "closed"
  /\ state' = "idle"
  /\ UNCHANGED <<starts, starting, wss, conn, interrupted, up>>

ExitIdle == interrupted /\ state = "idle"   \* mutant: exit waits for stop()
ExitDue == interrupted

\* The timer of SIGINT
Exit ==
  /\ up
  /\ ExitDue
  /\ up' = FALSE
  /\ UNCHANGED <<serverVars, conn, interrupted>>

Next ==
  \/ Start
  \/ Listening
  \/ ListenError
  \/ \E c \in Client : Connection(c) \/ MetricsReady(c) \/ Leaves(c)
  \/ Sigint
  \/ WsClosed
  \/ HttpClosed
  \/ Exit

Spec == Init /\ [][Next]_vars

-----------------------------------------------------------------------------
(* Properties.                                                             *)

\* A server that is idle holds no listening port and no connection, however
\* start, stop and connections overlapped: it may be started again.
IdleHoldsNothing ==
  state = "idle" => http \in {"none", "closed"} /\ Connections = {}

\* SIGINT ends the process, also when start() never returns because the port
\* is taken, or stop() because a client stays.
SigintExits == interrupted ~> ~up
=============================================================================
