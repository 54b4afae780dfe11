-------------------------- MODULE ObservedSources --------------------------
(***************************************************************************)
(* The observer's registry of clients (observer/src/sources/               *)
(* ObservedClients.ts): which websocket feeds which source of observer-js. *)
(* ObservedSfus.ts is the same program over SFUs; its only other step      *)
(* clears the field webSocket, which nothing reads.                        *)
(*                                                                         *)
(* Every operation runs to its end without an await.  A source is named by *)
(* the connection that created it.  A sample changes nothing here: the     *)
(* message listener hands it to the source it was set up with.             *)
(***************************************************************************)
EXTENDS Naturals

CONSTANTS
  Conn,                 \* websocket connections
  Id,                   \* clientIds: keys of _clients
  IdOf,                 \* IdOf[c]: its clientId, NoId when a mandatory field is missing
  NoId, NoConn,
  MaxDisconnectingTime, \* config.maxDisconnectingTimeInMs
  MaxNow                \* bound of the clock

ASSUME SourcesAssumption ==
  /\ IdOf \in [Conn -> Id \union {NoId}]
  /\ NoId \notin Id
  /\ NoConn \notin Conn
  /\ MaxDisconnectingTime \in Nat
  /\ MaxNow \in Nat

VARIABLES
  now,           \* Date.now(), positive
  sock,          \* sock[c]: "none", "open" or "closed"
  clients,       \* the Map _clients: clientId -> the source of its ObservedClient
  disconnected,  \* disconnected[x] of that ObservedClient, 0 for undefined
  bound,         \* bound[c]: the source the message listener of c feeds
  source,        \* source[s]: "none", "open" or "closed"
  overlapped,    \* connections that were open together with another of their clientId (history)
  forgotten      \* websockets open, and sources registered, when clear was called (history)

vars == <<now, sock, clients, disconnected, bound, source, overlapped, forgotten>>

Init ==
  /\ now = 1
  /\ sock = [c \in Conn |-> "none"]
  /\ clients = [x \in Id |-> NoConn]
  /\ disconnected = [x \in Id |-> 0]
  /\ bound = [c \in Conn |-> NoConn]
  /\ source = [c \in Conn |-> "none"]
  /\ overlapped = {}
  /\ forgotten = {}

-----------------------------------------------------------------------------

\* accept without clientId, roomId or callId closes the websocket.
Refuse(c) ==
  /\ sock[c] = "none"
  /\ IdOf[c] = NoId
  /\ sock' = [sock EXCEPT ![c] = "closed"]
  /\ UNCHANGED <<now, clients, disconnected, bound, source, overlapped, forgotten>>

StillDisconnected(x) == disconnected          \* mutant: a reconnect does not reset it
Reconnected(x) == [disconnected EXCEPT ![x] = 0]

SourceFor(c) == IF clients[IdOf[c]] = NoConn THEN c ELSE clients[IdOf[c]]

\* accept: the client is looked up or created, and _setup binds the websocket.
Accept(c) ==
  LET x == IdOf[c]
      others == {d \in Conn : IdOf[d] = x /\ sock[d] = "open"}
  IN /\ sock[c] = "none"
     /\ x # NoId
     /\ sock' = [sock EXCEPT ![c] = "open"]
     /\ clients' = [clients EXCEPT ![x] = SourceFor(c)]
     /\ source' = [source EXCEPT ![SourceFor(c)] = "open"]
     /\ bound' = [bound EXCEPT ![c] = SourceFor(c)]
     /\ disconnected' = Reconnected(x)
     /\ overlapped' = IF others = {} THEN overlapped ELSE overlapped \union others \union {c}
     /\ UNCHANGED <<now, forgotten>>

StampByCreator(c) ==  \* mutant: only the websocket that made the source counts
  IF clients[IdOf[c]] = c THEN [disconnected EXCEPT ![IdOf[c]] = now] ELSE disconnected

Stamp(c) ==
  LET x == IdOf[c]
  IN IF clients[x] # NoConn /\ disconnected[x] = 0
     THEN [disconnected EXCEPT ![x] = now] ELSE disconnected

\* The close event of a websocket: _disconnect(clientId) stamps whatever client
\* the key leads to, unless it is stamped already.
SocketClosed(c) ==
  /\ sock[c] = "open"
  /\ sock' = [sock EXCEPT ![c] = "closed"]
  /\ disconnected' = Stamp(c)
  /\ UNCHANGED <<now, clients, bound, source, overlapped, forgotten>>

Expired ==
  {x \in Id : /\ clients[x] # NoConn
              /\ disconnected[x] # 0
              /\ MaxDisconnectingTime < now - disconnected[x]}

LeaveOpen == source  \* mutant: _remove does not close the source

CloseExpired ==
  [s \in Conn |-> IF \E x \in Expired : clients[x] = s THEN "closed" ELSE source[s]]

Forget == [x \in Id |-> IF x \in Expired THEN NoConn ELSE clients[x]]

\* check: clients that stayed away too long are removed and their source closed.
Check ==
  /\ Expired # {}
  /\ clients' = Forget
  /\ disconnected' = [x \in Id |-> IF x \in Expired THEN 0 ELSE disconnected[x]]
  /\ source' = CloseExpired
  /\ UNCHANGED <<now, sock, bound, overlapped, forgotten>>

\* clear: the Map is emptied; the sources stay open, and the websockets feed them.
Clear ==
  /\ clients' = [x \in Id |-> NoConn]
  /\ disconnected' = [x \in Id |-> 0]
  /\ forgotten' = forgotten \union {c \in Conn : sock[c] = "open"}
                            \union {s \in Conn : \E x \in Id : clients[x] = s}
  /\ UNCHANGED <<now, sock, bound, source, overlapped>>

Tick ==
  /\ now < MaxNow
  /\ now' = now + 1
  /\ UNCHANGED <<sock, clients, disconnected, bound, source, overlapped, forgotten>>

Next ==
  \/ \E c \in Conn : Refuse(c) \/ Accept(c) \/ SocketClosed(c)
  \/ Check
  \/ Clear
  \/ Tick

Spec == Init /\ [][Next]_vars

-----------------------------------------------------------------------------
(* Properties.                                                             *)

\* The values of the registry.
TypeOK ==
  /\ now \in Nat \ {0}
  /\ sock \in [Conn -> {"none", "open", "closed"}]
  /\ clients \in [Id -> Conn \union {NoConn}]
  /\ disconnected \in [Id -> Nat]
  /\ bound \in [Conn -> Conn \union {NoConn}]
  /\ source \in [Conn -> {"none", "open", "closed"}]
  /\ overlapped \subseteq Conn
  /\ forgotten \subseteq Conn

\* A registered client has an open source made for its clientId, and there is no
\* other open source for it, except those that clear let go of.
OneOpenSource ==
  /\ \A x \in Id : clients[x] # NoConn => source[clients[x]] = "open" /\ IdOf[clients[x]] = x
  /\ \A s \in Conn \ forgotten :
       source[s] = "open" => IdOf[s] \in Id /\ clients[IdOf[s]] = s

\* A connected client that never shared its clientId with another open
\* websocket, and was not there when the registry was cleared, is registered,
\* not stamped as disconnected, and feeds the source of its registration:
\* closes, checks and clears of the past do not reach it.
UndisturbedIsObserved ==
  \A c \in Conn \ (overlapped \union forgotten) : sock[c] = "open" =>
    /\ clients[IdOf[c]] = bound[c]
    /\ bound[c] # NoConn
    /\ disconnected[IdOf[c]] = 0
=============================================================================
