--------------------------- MODULE ObserverProofs ---------------------------
(***************************************************************************)
(* Theorems about the observer: its registry of sources (ObservedSources), *)
(* its server (Server) and the two together (Observer), for any number of  *)
(* connections and clientIds, any grace period and any clock.              *)
(***************************************************************************)
EXTENDS Observer, TLAPS

-----------------------------------------------------------------------------
(* The registry on its own.                                                *)

\* Open websockets have a clientId, and two of one clientId know of each other.
OverlapInv ==
  /\ \A c \in Conn : sock[c] = "open" => IdOf[c] \in Id
  /\ \A c, d \in Conn :
       sock[c] = "open" /\ sock[d] = "open" /\ c # d /\ IdOf[c] = IdOf[d]
         => c \in overlapped

IInv ==
  /\ TypeOK
  /\ OneOpenSource
  /\ OverlapInv
  /\ UndisturbedIsObserved

\* accept keeps one open source per client and binds the websocket to it.
LEMMA AcceptStep ==
  ASSUME IInv, NEW c \in Conn, Accept(c)
  PROVE  IInv'
<1> USE SourcesAssumption DEF IInv
<1> DEFINE x == IdOf[c]
           s == SourceFor(c)
<1>1. /\ x \in Id /\ s \in Conn /\ IdOf[s] = x
      /\ clients[x] = NoConn => s = c
      /\ clients[x] # NoConn => s = clients[x]
  <2>1. x \in Id
    BY DEF Accept
  <2>2. CASE clients[x] = NoConn
    BY <2>1, <2>2 DEF SourceFor
  <2>3. CASE clients[x] # NoConn
    BY <2>1, <2>3 DEF SourceFor, TypeOK, OneOpenSource
  <2> QED
    BY <2>1, <2>2, <2>3
<1> HIDE DEF s
<1>2. /\ sock' = [sock EXCEPT ![c] = "open"]
      /\ clients' = [clients EXCEPT ![x] = s]
      /\ source' = [source EXCEPT ![s] = "open"]
      /\ bound' = [bound EXCEPT ![c] = s]
      /\ disconnected' = [disconnected EXCEPT ![x] = 0]
      /\ now' = now /\ forgotten' = forgotten
  BY DEF Accept, Reconnected, s
<1>3. /\ overlapped \subseteq overlapped' /\ overlapped' \subseteq Conn
      /\ \A d \in Conn \ {c} : sock[d] = "open" /\ IdOf[d] = x =>
           c \in overlapped' /\ d \in overlapped'
  BY DEF Accept, TypeOK
<1>4. TypeOK'
  BY <1>1, <1>2, <1>3 DEF TypeOK
<1>5. OneOpenSource'
  <2>1. \A y \in Id : clients'[y] # NoConn =>
          source'[clients'[y]] = "open" /\ IdOf[clients'[y]] = y
    BY <1>1, <1>2 DEF TypeOK, OneOpenSource
  <2>2. ASSUME NEW t \in Conn \ forgotten', source'[t] = "open"
        PROVE  IdOf[t] \in Id /\ clients'[IdOf[t]] = t
    <3>1. CASE t = s
      BY <1>1, <1>2, <3>1 DEF TypeOK
    <3>2. CASE t # s
      <4>1. source[t] = "open" /\ IdOf[t] \in Id /\ clients[IdOf[t]] = t
        BY <1>1, <1>2, <2>2, <3>2 DEF TypeOK, OneOpenSource
      <4> QED
        BY <1>1, <1>2, <3>2, <4>1 DEF TypeOK
    <3> QED
      BY <3>1, <3>2
  <2> QED
    BY <2>1, <2>2 DEF OneOpenSource
<1>6. OverlapInv'
  BY <1>1, <1>2, <1>3 DEF TypeOK, OverlapInv
<1>7. UndisturbedIsObserved'
  <2> SUFFICES ASSUME NEW d \in Conn, sock'[d] = "open",
                      d \notin overlapped', d \notin forgotten'
               PROVE  /\ clients'[IdOf[d]] = bound'[d]
                      /\ bound'[d] # NoConn
                      /\ disconnected'[IdOf[d]] = 0
    BY DEF UndisturbedIsObserved
  <2>1. CASE d = c
    BY <1>1, <1>2, <2>1 DEF TypeOK
  <2>2. CASE d # c
    <3>1. sock[d] = "open" /\ IdOf[d] # x /\ IdOf[d] \in Id /\ d \notin overlapped
      BY <1>2, <1>3, <2>2 DEF TypeOK, OverlapInv
    <3> QED
      BY <1>1, <1>2, <2>2, <3>1 DEF TypeOK, UndisturbedIsObserved
  <2> QED
    BY <2>1, <2>2
<1> QED
  BY <1>4, <1>5, <1>6, <1>7

\* A close event stamps a client only when no undisturbed websocket feeds it.
LEMMA SocketClosedStep ==
  ASSUME IInv, NEW c \in Conn, SocketClosed(c)
  PROVE  IInv'
<1> USE SourcesAssumption DEF IInv
<1>1. /\ sock[c] = "open" /\ IdOf[c] \in Id
      /\ sock' = [sock EXCEPT ![c] = "closed"]
      /\ disconnected' \in [Id -> Nat]
      /\ \A x \in Id \ {IdOf[c]} : disconnected'[x] = disconnected[x]
      /\ UNCHANGED <<now, clients, bound, source, overlapped, forgotten>>
  BY DEF SocketClosed, Stamp, TypeOK, OverlapInv
<1>2. TypeOK' /\ OneOpenSource'
  BY <1>1 DEF TypeOK, OneOpenSource
<1>3. OverlapInv'
  BY <1>1 DEF TypeOK, OverlapInv
<1>4. UndisturbedIsObserved'
  <2>1. \A d \in Conn : sock'[d] = "open" /\ d \notin overlapped =>
          sock[d] = "open" /\ IdOf[d] \in Id /\ IdOf[d] # IdOf[c]
    BY <1>1 DEF TypeOK, OverlapInv
  <2> QED
    BY <1>1, <2>1 DEF UndisturbedIsObserved
<1> QED
  BY <1>2, <1>3, <1>4

\* check removes only clients that are stamped, so no undisturbed one.
LEMMA CheckStep ==
  ASSUME IInv, Check
  PROVE  IInv'
<1> USE SourcesAssumption DEF IInv
<1>1. /\ Expired \subseteq Id
      /\ \A x \in Expired : clients[x] \in Conn /\ disconnected[x] # 0
  BY DEF Expired, TypeOK
<1>2. /\ clients' = [x \in Id |-> IF x \in Expired THEN NoConn ELSE clients[x]]
      /\ disconnected' = [x \in Id |-> IF x \in Expired THEN 0 ELSE disconnected[x]]
      /\ source' = [s \in Conn |-> IF \E x \in Expired : clients[x] = s
                                   THEN "closed" ELSE source[s]]
      /\ UNCHANGED <<now, sock, bound, overlapped, forgotten>>
  BY DEF Check, Forget, CloseExpired
<1>3. TypeOK' /\ OverlapInv'
  BY <1>2 DEF TypeOK, OverlapInv
<1>4. OneOpenSource'
  <2>1. ASSUME NEW y \in Id, clients'[y] # NoConn
        PROVE  source'[clients'[y]] = "open" /\ IdOf[clients'[y]] = y
    <3>1. y \notin Expired /\ clients'[y] = clients[y] /\ clients[y] \in Conn
      BY <1>2, <2>1 DEF TypeOK
    <3>2. \A x \in Expired : clients[x] # clients[y]
      BY <1>1, <3>1 DEF OneOpenSource
    <3> QED
      BY <1>2, <3>1, <3>2 DEF OneOpenSource
  <2>2. ASSUME NEW t \in Conn \ forgotten', source'[t] = "open"
        PROVE  IdOf[t] \in Id /\ clients'[IdOf[t]] = t
    BY <1>2, <2>2 DEF OneOpenSource
  <2> QED
    BY <2>1, <2>2 DEF OneOpenSource
<1>5. UndisturbedIsObserved'
  BY <1>1, <1>2 DEF UndisturbedIsObserved, OverlapInv
<1> QED
  BY <1>3, <1>4, <1>5

\* The invariant holds in every state of the registry.
THEOREM Invariance == Spec => []IInv
<1>1. Init => IInv
  BY SourcesAssumption
  DEF Init, IInv, TypeOK, OneOpenSource, OverlapInv, UndisturbedIsObserved
<1>2. IInv /\ [Next]_vars => IInv'
  <2> SUFFICES ASSUME IInv, [Next]_vars PROVE IInv'
    OBVIOUS
  <2>1. ASSUME NEW c \in Conn, Refuse(c) PROVE IInv'
    <3>1. /\ sock' \in [Conn -> {"none", "open", "closed"}]
          /\ \A d \in Conn : sock'[d] = "open" => sock[d] = "open"
          /\ UNCHANGED <<now, clients, disconnected, bound, source, overlapped, forgotten>>
      BY <2>1 DEF Refuse, IInv, TypeOK
    <3> QED
      BY <3>1 DEF IInv, TypeOK, OneOpenSource, OverlapInv, UndisturbedIsObserved
  <2>2. ASSUME Clear PROVE IInv'
    <3>1. /\ clients' = [x \in Id |-> NoConn] /\ disconnected' = [x \in Id |-> 0]
          /\ forgotten' \subseteq Conn
          /\ \A c \in Conn : sock[c] = "open" => c \in forgotten'
          /\ \A x \in Id : clients[x] \in Conn => clients[x] \in forgotten'
          /\ forgotten \subseteq forgotten'
          /\ UNCHANGED <<now, sock, bound, source, overlapped>>
      BY <2>2 DEF Clear, IInv, TypeOK
    <3>2. TypeOK' /\ OverlapInv'
      BY <3>1 DEF IInv, TypeOK, OverlapInv
    <3>3. OneOpenSource' /\ UndisturbedIsObserved'
      BY <3>1 DEF IInv, TypeOK, OneOpenSource, UndisturbedIsObserved
    <3> QED
      BY <3>2, <3>3 DEF IInv
  <2>3. ASSUME Tick PROVE IInv'
    BY <2>3 DEF Tick, IInv, TypeOK, OneOpenSource, OverlapInv, UndisturbedIsObserved
  <2>4. CASE UNCHANGED vars
    BY <2>4 DEF vars, IInv, TypeOK, OneOpenSource, OverlapInv, UndisturbedIsObserved
  <2> QED
    BY <2>1, <2>2, <2>3, <2>4, AcceptStep, SocketClosedStep, CheckStep DEF Next
<1> QED
  BY <1>1, <1>2, PTL DEF Spec

\* The registry keeps its types.
THEOREM SourcesTypeOK == Spec => []TypeOK
<1>1. IInv => TypeOK
  BY DEF IInv
<1> QED
  BY <1>1, Invariance, PTL

\* A client has at most one open source at a time, through any sequence of
\* connections, reconnections, closes and checks, those left by clear apart.
THEOREM SourcesOneOpenSource == Spec => []OneOpenSource
<1>1. IInv => OneOpenSource
  BY DEF IInv
<1> QED
  BY <1>1, Invariance, PTL

\* A websocket that never overlapped with another of its clientId feeds the
\* source of its registration until it closes.
THEOREM SourcesUndisturbed == Spec => []UndisturbedIsObserved
<1>1. IInv => UndisturbedIsObserved
  BY DEF IInv
<1> QED
  BY <1>1, Invariance, PTL

-----------------------------------------------------------------------------
(* The service is a registry and a server.                                 *)

\* Whatever the server does, the registry sees a history of its own operations.
LEMMA RegistryStep ==
  ASSUME [ObserverNext]_observerVars
  PROVE  [Next]_vars
<1>1. ASSUME NEW c \in Conn, Websocket(c) \/ WebsocketGone(c)
      PROVE  [Next]_vars
  BY <1>1 DEF Websocket, WebsocketGone, Listener, Next
<1>2. CASE Elsewhere \/ Exit \/ UNCHANGED observerVars
  BY <1>2 DEF Elsewhere, Exit, observerVars
<1>3. CASE Registry
  BY <1>3 DEF Registry, Next
<1> QED
  BY <1>1, <1>2, <1>3 DEF ObserverNext

\* The observer's main program uses the registry as it is meant to be used.
THEOREM ObserverImplementsSources == ObserverSpec => Spec
<1>1. ObserverInit => Init
  BY DEF ObserverInit
<1>2. [ObserverNext]_observerVars => [Next]_vars
  BY RegistryStep
<1> QED
  BY <1>1, <1>2, PTL DEF ObserverSpec, Spec

\* And so it does with the server.
LEMMA HttpStep ==
  ASSUME [ObserverNext]_observerVars
  PROVE  [Http!Next]_(Http!vars)
<1>1. ASSUME NEW c \in Conn, Websocket(c) \/ WebsocketGone(c)
      PROVE  Http!Next
  BY <1>1 DEF Websocket, WebsocketGone, Http!Next
<1>2. CASE Elsewhere
  BY <1>2 DEF Elsewhere, Request, Http!Next
<1>3. CASE Exit
  BY <1>3 DEF Exit, Http!Next
<1>4. CASE Registry \/ UNCHANGED observerVars
  BY <1>4 DEF Registry, observerVars, serverVars, Http!vars, Http!serverVars
<1> QED
  BY <1>1, <1>2, <1>3, <1>4 DEF ObserverNext

\* The observer's main program is one of the server's environments.
THEOREM ObserverImplementsServer == ObserverSpec => Http!Spec
<1>1. ObserverInit => Http!Init
  BY DEF ObserverInit
<1>2. [ObserverNext]_observerVars => [Http!Next]_(Http!vars)
  BY HttpStep
<1> QED
  BY <1>1, <1>2, PTL DEF ObserverSpec, Http!Spec

\* In the service, too, a client has at most one open source.
THEOREM ObserverOneOpenSource == ObserverSpec => []OneOpenSource
  BY ObserverImplementsSources, SourcesOneOpenSource, PTL

\* In the service, too, an undisturbed websocket is observed until it closes.
THEOREM ObserverUndisturbed == ObserverSpec => []UndisturbedIsObserved
  BY ObserverImplementsSources, SourcesUndisturbed, PTL

-----------------------------------------------------------------------------
(* The server.                                                             *)

Clients == Conn \union Other
Held == {"open", "waiting", "stuck"}

\* Where start() and stop() are, by the state; and connections are there only
\* after listen and until the http server's close has called back.
ServerInv ==
  /\ conn \in [Clients -> Held \union {"none", "gone"}]
  /\ stopping # "none" <=> state = "stopped"
  /\ stopping = "http" => http = "closing"
  /\ state = "idle" => http \in {"none", "closed"}
  /\ starting => state = "started"
  /\ state = "started" => http \in {"made", "refused"}
  /\ state = "run" => http = "listening"
  /\ http \notin {"listening", "closing"} => \A c \in Clients : conn[c] \notin Held

\* Every step of start, stop and the connections keeps it.
LEMMA ServerStep ==
  ASSUME ServerInv, [Http!Next]_(Http!vars)
  PROVE  ServerInv'
<1> USE DEF ServerInv, Clients, Held
<1>1. CASE Http!Start
  BY <1>1 DEF Http!Start
<1>2. CASE Http!Listening \/ Http!ListenError
  BY <1>2 DEF Http!Listening, Http!ListenError
<1>3. ASSUME NEW c \in Clients, Http!Connection(c)
      PROVE  ServerInv'
  <2>1. conn' = [conn EXCEPT ![c] = conn'[c]] /\ conn'[c] \in Held \union {"gone"}
    BY <1>3 DEF Http!Connection, Http!Route
  <2> QED
    BY <1>3, <2>1 DEF Http!Connection, Http!serverVars
<1>4. ASSUME NEW c \in Clients, Http!MetricsReady(c) \/ Http!Leaves(c)
      PROVE  ServerInv'
  BY <1>4 DEF Http!MetricsReady, Http!Leaves, Http!serverVars
<1>5. CASE Http!Sigint
  BY <1>5 DEF Http!Sigint, Http!Stops
<1>6. CASE Http!WsClosed
  BY <1>6 DEF Http!WsClosed
<1>7. CASE Http!HttpClosed
  BY <1>7 DEF Http!HttpClosed, Http!AllGone, Http!Connections
<1>8. CASE Http!Exit \/ UNCHANGED Http!vars
  BY <1>8 DEF Http!Exit, Http!vars, Http!serverVars
<1> QED
  BY <1>1, <1>2, <1>3, <1>4, <1>5, <1>6, <1>7, <1>8 DEF Http!Next

\* The server keeps it in every state.
THEOREM ServerInvariance == Http!Spec => []ServerInv
<1>1. Http!Init => ServerInv
  BY DEF Http!Init, ServerInv, Clients, Held
<1>2. ServerInv /\ [Http!Next]_(Http!vars) => ServerInv'
  BY ServerStep
<1> QED
  BY <1>1, <1>2, PTL DEF Http!Spec

\* A server that is idle holds no port and no connection, however start, stop,
\* errors of listen and connections overlapped.
THEOREM ObserverIdleHoldsNothing == ObserverSpec => []IdleHoldsNothing
<1>1. ServerInv => IdleHoldsNothing
  BY DEF ServerInv, IdleHoldsNothing, Http!IdleHoldsNothing, Http!Connections,
         Clients, Held
<1> QED
  BY <1>1, ServerInvariance, ObserverImplementsServer, PTL

-----------------------------------------------------------------------------
(* The two together.                                                       *)

\* A client that passes for connected has an open websocket, and the server
\* holds it.
HeldInv ==
  /\ \A c \in Conn : sock[c] = "open" => conn[c] = "open"
  /\ \A x \in Id : clients[x] # NoConn /\ disconnected[x] = 0 =>
       \E c \in Conn : IdOf[c] = x /\ sock[c] = "open"

\* A websocket arrives: the server takes it in and the registry gets it.
LEMMA WebsocketStep ==
  ASSUME TypeOK, ServerInv, HeldInv, NEW c \in Conn, Websocket(c)
  PROVE  HeldInv'
<1> USE SourcesAssumption
<1>1. /\ conn[c] = "none" /\ conn' = [conn EXCEPT ![c] = conn'[c]]
      /\ conn \in [Clients -> Held \union {"none", "gone"}]
  BY DEF Websocket, Http!Connection, ServerInv, Clients
<1>2. \A d \in Conn \ {c} : conn'[d] = conn[d]
  BY <1>1 DEF Clients
<1>3. CASE conn'[c] = "open" /\ Accept(c)
  BY <1>1, <1>2, <1>3 DEF Accept, Reconnected, TypeOK, HeldInv
<1>4. CASE conn'[c] = "open" /\ Refuse(c)
  BY <1>1, <1>2, <1>4 DEF Refuse, TypeOK, HeldInv
<1>5. CASE conn'[c] # "open" /\ UNCHANGED vars
  <2>1. sock[c] # "open"
    BY <1>1 DEF HeldInv
  <2> QED
    BY <1>2, <1>5, <2>1 DEF HeldInv, vars
<1> QED
  BY <1>3, <1>4, <1>5 DEF Websocket, Listener

\* A websocket goes: the registry hears of it if it had taken it.
LEMMA WebsocketGoneStep ==
  ASSUME TypeOK, ServerInv, HeldInv, NEW c \in Conn, WebsocketGone(c)
  PROVE  HeldInv'
<1> USE SourcesAssumption
<1>1. \A d \in Conn \ {c} : conn'[d] = conn[d]
  BY DEF WebsocketGone, Http!Leaves, ServerInv, Clients
<1>2. CASE SocketClosed(c)
  <2>1. \A d \in Conn \ {c} : sock'[d] = sock[d]
    BY <1>2 DEF SocketClosed, TypeOK
  <2>2. sock'[c] = "closed" /\ clients' = clients
    BY <1>2 DEF SocketClosed, TypeOK
  <2>3. IdOf[c] \in Id /\ clients'[IdOf[c]] # NoConn => disconnected'[IdOf[c]] # 0
    BY <1>2 DEF SocketClosed, Stamp, TypeOK
  <2>4. \A x \in Id \ {IdOf[c]} : disconnected'[x] = disconnected[x]
    BY <1>2 DEF SocketClosed, Stamp, TypeOK
  <2> QED
    BY <1>1, <2>1, <2>2, <2>3, <2>4 DEF HeldInv
<1>3. CASE sock[c] # "open" /\ UNCHANGED vars
  BY <1>1, <1>3 DEF HeldInv, vars
<1> QED
  BY <1>2, <1>3 DEF WebsocketGone

\* The steps elsewhere leave the websockets of the registry alone.
LEMMA HeldStep ==
  ASSUME TypeOK, ServerInv, HeldInv, [ObserverNext]_observerVars
  PROVE  HeldInv'
<1>1. ASSUME UNCHANGED vars, \A c \in Conn : conn'[c] = conn[c]
      PROVE  HeldInv'
  BY <1>1 DEF HeldInv, vars
<1>2. CASE Elsewhere
  <2>1. ASSUME NEW o \in Other, Request(o)
        PROVE  \A c \in Conn : conn'[c] = conn[c]
    <3>1. conn' = [conn EXCEPT ![o] = conn'[o]]
      BY <2>1 DEF Request, Http!Connection, Http!MetricsReady, Http!Leaves, ServerInv,
                  Clients
    <3> QED
      BY <3>1, ObserverAssumption DEF ServerInv, Clients
  <2>2. \A c \in Conn : conn'[c] = conn[c]
    BY <1>2, <2>1 DEF Elsewhere, Http!Start, Http!Listening, Http!ListenError,
                      Http!Sigint, Http!WsClosed, Http!HttpClosed
  <2> QED
    BY <1>1, <1>2, <2>2 DEF Elsewhere
<1>3. CASE Exit \/ UNCHANGED observerVars
  BY <1>1, <1>3 DEF Exit, Http!Exit, observerVars, serverVars
<1>4. CASE Registry
  <2>1. conn' = conn
    BY <1>4 DEF Registry, serverVars
  <2>2. CASE Tick
    BY <2>1, <2>2 DEF Tick, HeldInv
  <2>3. CASE Check
    BY <2>1, <2>3 DEF Check, Forget, TypeOK, HeldInv
  <2>4. CASE Clear
    BY <2>1, <2>4 DEF Clear, HeldInv
  <2> QED
    BY <1>4, <2>2, <2>3, <2>4 DEF Registry
<1> QED
  BY <1>2, <1>3, <1>4, WebsocketStep, WebsocketGoneStep DEF ObserverNext

\* When stop() has returned, check would remove every client: none passes for
\* connected for ever.
THEOREM ObserverStoppedIsStamped == ObserverSpec => []StoppedIsStamped
<1>1. ObserverInit => HeldInv
  BY DEF ObserverInit, Init, HeldInv
<1>2. TypeOK /\ ServerInv /\ HeldInv /\ [ObserverNext]_observerVars => HeldInv'
  BY HeldStep
<1>3. ServerInv /\ HeldInv => StoppedIsStamped
  BY DEF ServerInv, HeldInv, StoppedIsStamped, Clients, Held
<1>4. ObserverSpec => []TypeOK
  BY ObserverImplementsSources, SourcesTypeOK, PTL
<1>5. ObserverSpec => []ServerInv
  BY ObserverImplementsServer, ServerInvariance, PTL
<1> QED
  BY <1>1, <1>2, <1>3, <1>4, <1>5, PTL DEF ObserverSpec
=============================================================================
