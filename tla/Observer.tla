------------------------------ MODULE Observer ------------------------------
(***************************************************************************)
(* The observer service (observer/src/main.ts): its http and websocket     *)
(* server (module Server) feeds a registry of sources (ObservedSources).   *)
(*                                                                         *)
(* Conn holds the websockets that main.ts hands to that registry, by their *)
(* protocol, and those of no known protocol.  Those of the other registry, *)
(* which is the same program with a Map of its own, only occupy the server,*)
(* as the http requests do.                                                *)
(***************************************************************************)
EXTENDS ObservedSources

CONSTANTS
  Other,     \* websockets of the other registry, and http requests
  KindOf,    \* KindOf[c]: "websocket" or what an http request asks for
  MaxStarts  \* bound: calls of start

ASSUME ObserverAssumption ==
  /\ Conn \intersect Other = {}
  /\ \A c \in Conn : KindOf[c] = "websocket"
  /\ \A c \in Other : KindOf[c] \in {"websocket", "/", "/metrics", "other"}
  /\ MaxStarts \in Nat

VARIABLES state, starts, starting, stopping, http, wss, conn, interrupted, up  \* of Server

Http == INSTANCE Server WITH Client <- Conn \union Other, StopOnce <- TRUE

serverVars == <<state, starts, starting, stopping, http, wss, conn, interrupted, up>>
observerVars == <<vars, serverVars>>

ObserverInit == Init /\ Http!Init

-----------------------------------------------------------------------------

\* server.on('websocket-connection'): by its protocol a websocket is given to the
\* registry, or closed.
Listener(c) == Accept(c) \/ Refuse(c)

\* A websocket of the registry arrives.  When the websocket server is closed
\* already, node takes it for a request.
Websocket(c) ==
  /\ Http!Connection(c)
  /\ IF conn'[c] = "open" THEN Listener(c) ELSE UNCHANGED vars

\* It goes: one that was accepted has a close listener.
WebsocketGone(c) ==
  /\ Http!Leaves(c)
  /\ IF sock[c] = "open" THEN SocketClosed(c) ELSE UNCHANGED vars

Request(c) == Http!Connection(c) \/ Http!MetricsReady(c) \/ Http!Leaves(c)

\* What does not reach the registry
Elsewhere ==
  /\ \/ \E c \in Other : Request(c)
     \/ Http!Start \/ Http!Listening \/ Http!ListenError
     \/ Http!Sigint \/ Http!WsClosed \/ Http!HttpClosed
  /\ UNCHANGED vars

Exit == Http!Exit /\ UNCHANGED vars

\* Time passes; check and clear are there to be called, though main.ts does not.
Registry ==
  /\ up
  /\ Tick \/ Check \/ Clear
  /\ UNCHANGED serverVars

ObserverNext ==
  \/ \E c \in Conn : Websocket(c) \/ WebsocketGone(c)
  \/ Elsewhere
  \/ Exit
  \/ Registry

\* The timer of SIGINT fires.
ObserverSpec == ObserverInit /\ [][ObserverNext]_observerVars /\ WF_observerVars(Exit)

-----------------------------------------------------------------------------
(* Properties.                                                             *)

\* When stop() has returned, no client of the registry passes for connected,
\* however its websockets overlapped: check would remove them all.
StoppedIsStamped ==
  state = "idle" => \A x \in Id : clients[x] # NoConn => disconnected[x] # 0

\* Server: when stop() has returned nothing is left open.
IdleHoldsNothing == Http!IdleHoldsNothing

\* Server: SIGINT ends the process.
SigintExits == Http!SigintExits
=============================================================================
