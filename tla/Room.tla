-------------------------------- MODULE Room --------------------------------
(***************************************************************************)
(* One MediasoupRoom of the SFU (sfu/src/media/Room.ts): the participants  *)
(* that joined it over a websocket, the handlers of their messages, and    *)
(* the mediasoup router that forwards their media.                         *)
(*                                                                         *)
(* A handler runs until its first await without interruption; the other    *)
(* handlers run in between.  A step of the model is one such stretch of    *)
(* code, and pc[r] says where the handler of message r waits:              *)
(*                                                                         *)
(*   "idle"       the message has not arrived                              *)
(*   "creating"   await router.createWebRtcTransport                       *)
(*   "producing"  await transport.produce                                  *)
(*   "consuming"  await consumingTransport.consume                         *)
(*   "doomed"     the same, with a request the worker is going to refuse   *)
(*   "outer"      await this._consumeClient, which has returned            *)
(*   "acking"     await of connect, pause or resume                        *)
(*   "done"       the handler returned                                     *)
(*                                                                         *)
(* mediasoup is external.  Its channel to the worker is FIFO, so a request *)
(* takes effect when it is issued, before every request issued later; the  *)
(* step that continues the handler only delivers the answer.               *)
(*                                                                         *)
(* A transport and a producer are named by the message that asked for      *)
(* them; a consumer is named by the handler that made it, its producer and *)
(* the connection that receives it (Consumer below).                       *)
(***************************************************************************)
EXTENDS MessageProtocol

CONSTANTS
  Conn,      \* websocket connections, one Client object each (add is called once)
  ClientId,  \* the clientId of the query string: key of _clients
  IdOf,      \* IdOf[c]: the clientId connection c came with, possibly shared
  Request,   \* the messages clients may send, each at most once
  From,      \* From[r]: the connection message r arrives on
  Type,      \* Type[r]: its type
  NoConn, NoReq

ASSUME ConstantsAssumption ==
  /\ IdOf \in [Conn -> ClientId]
  /\ From \in [Request -> Conn]
  /\ Type \in [Request -> MessageType]
  /\ NoConn \notin Conn
  /\ NoReq \notin Request

VARIABLES
  status,     \* status[c]: "absent" before add, then clientEvents "open" or "closed"
  clients,    \* the Map _clients: clientId -> Client, NoConn when the key is absent
  caps,       \* connections whose client.rtpCapabilities is set
  snd, rcv,   \* client.sndTransport, client.rcvTransport
  room,       \* "closed" once onClosed has been called
  router,     \* "closed" once _router.closed
  transports, \* transports the worker holds open
  host,       \* host[p]: the transport producer p was made on
  live,       \* producers the worker holds open
  prodMap,    \* producers in the Map client.producers of their owner
  consumers,  \* consumers in the Map client.consumers of their owner
  pc, seen,   \* seen[r]: keys of _clients the loop of handler r has visited
  cur, to,    \* cur[r], to[r]: producer and client of the consume awaited by r
  via, tried, \* via[r]: its transport; tried[r]: producers this _consumeClient took
  ready,      \* joins that started with capabilities and receiving transport (history)
  answered,   \* messages whose response was sent
  view,       \* consumers the clients were told of: announced and not retracted
  up          \* FALSE once an unhandled rejection has ended the process

clientVars   == <<status, clients, caps>>
transportVars == <<snd, rcv, room, router, transports>>
mediaVars    == <<host, live, prodMap>>
loopVars     == <<seen, cur, to, via, tried>>
consumerVars == <<consumers, view>>
vars == <<clientVars, transportVars, mediaVars, loopVars, consumerVars,
          pc, ready, answered, up>>

Consumer == [task : Request, prod : Request, conn : Conn, via : Request]

Registered(c) == clients[IdOf[c]] = c

Init ==
  /\ status = [c \in Conn |-> "absent"]
  /\ clients = [i \in ClientId |-> NoConn]
  /\ caps = {}
  /\ snd = [c \in Conn |-> NoReq]
  /\ rcv = [c \in Conn |-> NoReq]
  /\ room = "open"
  /\ router = "open"
  /\ transports = {}
  /\ host = [r \in Request |-> NoReq]
  /\ live = {}
  /\ prodMap = {}
  /\ consumers = {}
  /\ pc = [r \in Request |-> "idle"]
  /\ seen = [r \in Request |-> {}]
  /\ cur = [r \in Request |-> NoReq]
  /\ to = [r \in Request |-> NoConn]
  /\ via = [r \in Request |-> NoReq]
  /\ tried = [r \in Request |-> {}]
  /\ ready = {}
  /\ answered = {}
  /\ view = {}
  /\ up = TRUE

-----------------------------------------------------------------------------
(* Messages: arrival and answer.                                           *)

\* ClientEvents._receive: listeners exist from add until the close event.
Arrives(r, types) ==
  /\ up
  /\ pc[r] = "idle"
  /\ Type[r] \in types
  /\ status[From[r]] = "open"

\* ClientEvents.send: a message for a closed ClientEvents is dropped.
Answer(r) ==
  answered' = IF status[From[r]] = "open" THEN answered \union {r} ELSE answered

Goto(r, label) == pc' = [pc EXCEPT ![r] = label]

-----------------------------------------------------------------------------
(* Joining and leaving the room.                                           *)

\* room.add; a Map keeps the position of a key that is set again.  Rooms.ts
\* calls it only on a room it still lists.
Add(c) ==
  /\ up
  /\ room = "open"
  /\ status[c] = "absent"
  /\ status' = [status EXCEPT ![c] = "open"]
  /\ clients' = [clients EXCEPT ![IdOf[c]] = c]
  /\ UNCHANGED <<caps, transportVars, mediaVars, loopVars, consumerVars,
                 pc, ready, answered, up>>

LeaveTransports(T, open) ==  \* mutant: the close listener closes no transport
  UNCHANGED <<transports, live, prodMap, consumers, view>>

CloseTransportsSilently(T, open) ==  \* mutant: no ConsumerClosedNotification
  /\ transports' = transports \ T
  /\ live' = {p \in live : host[p] \notin T}
  /\ prodMap' = {p \in prodMap : host[p] \notin T}
  /\ consumers' = {k \in consumers : k.via \notin T}
  /\ UNCHANGED view

\* Closing the open transports T closes what was made on them: producers leave
\* their Map, consumers leave theirs and are retracted from the clients that
\* are still open.
CloseTransports(T, open) ==
  /\ transports' = transports \ T
  /\ live' = {p \in live : host[p] \notin T}
  /\ prodMap' = {p \in prodMap : host[p] \notin T}
  /\ consumers' = {k \in consumers : k.via \notin T}
  /\ view' = view \ {k \in consumers : k.via \in T /\ k.conn \in open}

WithoutAll(c) == [i \in ClientId |-> NoConn]     \* mutant: a key all clients share

\* _clients.delete(clientId), whoever holds the key now
Without(c) == [clients EXCEPT ![IdOf[c]] = NoConn]

AlmostEmpty(m) ==  \* mutant: size <= 1
  \A i, h \in ClientId : m[i] # NoConn /\ m[h] # NoConn => i = h

IsEmpty(m) == \A i \in ClientId : m[i] = NoConn

\* The close event of a websocket: the client's two transports, its key of
\* _clients, and the room itself when no key is left.
ClientClosed(c) ==
  LET closing == IsEmpty(Without(c)) /\ router = "open"
      open    == {d \in Conn : status[d] = "open"} \ {c}
  IN /\ up
     /\ status[c] = "open"
     /\ status' = [status EXCEPT ![c] = "closed"]
     /\ clients' = Without(c)
     /\ seen' = [r \in Request |-> seen[r] \ {IdOf[c]}]
     /\ IF closing
        THEN /\ CloseTransports(transports, open)
             /\ router' = "closed"
             /\ room' = "closed"
        ELSE /\ CloseTransports(transports \intersect {snd[c], rcv[c]}, open)
             /\ UNCHANGED <<router, room>>
     /\ UNCHANGED <<caps, snd, rcv, host, cur, to, via, tried, pc,
                    ready, answered, up>>

\* The mediasoup worker dies: the router closes under the room, and every call
\* that waits for the worker is rejected.  The close listener calls room.close,
\* which returns early because the router is closed already, so onClosed is not
\* called.
RouterClosed ==
  /\ up
  /\ router = "open"
  /\ router' = "closed"
  /\ CloseTransports(transports, {d \in Conn : status[d] = "open"})
  /\ pc' = [r \in Request |-> CASE pc[r] \in {"creating", "consuming"} -> "doomed"
                               [] pc[r] = "producing" -> "done"
                               [] OTHER -> pc[r]]
  /\ UNCHANGED <<clientVars, snd, rcv, room, host, loopVars, ready, answered, up>>

-----------------------------------------------------------------------------
(* Capabilities and transports.                                            *)

GetRouterCapabilities(r) ==
  /\ Arrives(r, {"get-router-capabilities-request"})
  /\ Goto(r, "done")
  /\ Answer(r)
  /\ UNCHANGED <<clientVars, transportVars, mediaVars, loopVars, consumerVars,
                 ready, up>>

ClientRtpCapabilities(r) ==
  /\ Arrives(r, {"client-rtp-capabilities"})
  /\ Goto(r, "done")
  /\ caps' = caps \union {From[r]}
  /\ UNCHANGED <<status, clients, transportVars, mediaVars, loopVars,
                 consumerVars, ready, answered, up>>

TransportOf(r) ==
  IF Type[r] = "create-transport-producing" THEN snd[From[r]] ELSE rcv[From[r]]

\* A client that already has a transport of this role gets no answer.
CreateTransport(r) ==
  /\ Arrives(r, {"create-transport-producing", "create-transport-consuming"})
  /\ IF TransportOf(r) # NoReq
     THEN /\ Goto(r, "done")
          /\ UNCHANGED transports
     ELSE IF router = "open"
     THEN /\ Goto(r, "creating")
          /\ transports' = transports \union {r}
     ELSE /\ Goto(r, "doomed")
          /\ UNCHANGED transports
  /\ UNCHANGED <<clientVars, snd, rcv, room, router, mediaVars, loopVars,
                 consumerVars, ready, answered, up>>

\* The continuation stores the transport whatever happened in between.
TransportCreated(r) ==
  /\ up
  /\ pc[r] = "creating"
  /\ Goto(r, "done")
  /\ IF Type[r] = "create-transport-producing"
     THEN snd' = [snd EXCEPT ![From[r]] = r] /\ UNCHANGED rcv
     ELSE rcv' = [rcv EXCEPT ![From[r]] = r] /\ UNCHANGED snd
  /\ Answer(r)
  /\ UNCHANGED <<clientVars, room, router, transports, mediaVars, loopVars,
                 consumerVars, ready, up>>

\* Whether the transport of the role, or the producer of the id, that the
\* message names exists: the values this can take.
Found(r) ==
  IF Type[r] = "transport-connected-notification"
  THEN {snd[From[r]] # NoReq, rcv[From[r]] # NoReq}
  ELSE {FALSE, \E p \in prodMap : From[p] = From[r]}

\* transport-connected, pause and resume: a failure of the awaited call is
\* caught.
AwaitWorker(r) ==
  /\ Arrives(r, {"transport-connected-notification",
                 "pause-producer-request", "resume-producer-request"})
  /\ \E found \in Found(r) : Goto(r, IF found THEN "acking" ELSE "done")
  /\ UNCHANGED <<clientVars, transportVars, mediaVars, loopVars,
                 consumerVars, ready, answered, up>>

WorkerAcked(r) ==
  /\ up
  /\ pc[r] = "acking"
  /\ Goto(r, "done")
  /\ IF Type[r] = "transport-connected-notification"
     THEN UNCHANGED answered
     ELSE Answer(r)
  /\ UNCHANGED <<clientVars, transportVars, mediaVars, loopVars, consumerVars,
                 ready, up>>

-----------------------------------------------------------------------------
(* Fan-out: _consumeClient and the two loops that call it.                 *)

Consumes(ks, b, p) == \E k \in ks : k.conn = b /\ k.prod = p

CandidatesOnce(a, b, done, pm, ks) ==  \* mutant: return after the first producer
  IF b \in caps /\ rcv[b] # NoReq /\ done = {}
  THEN {p \in pm : From[p] = a /\ ~Consumes(ks, b, p)}
  ELSE {}

\* Producers of a that the loop of _consumeClient(a, b) would consume next,
\* given the producers pm and consumers ks in the Maps.
Candidates(a, b, done, pm, ks) ==
  IF b \in caps /\ rcv[b] # NoReq
  THEN {p \in pm : From[p] = a /\ p \notin done /\ ~Consumes(ks, b, p)}
  ELSE {}

\* Run _consumeClient(a, b) up to its next await, or to its end.
ConsumeNext(r, a, b, done, pm, ks) ==
  LET cand == Candidates(a, b, done, pm, ks)
  IN IF cand = {}
     THEN /\ Goto(r, "outer")
          /\ cur' = [cur EXCEPT ![r] = NoReq]
          /\ to' = [to EXCEPT ![r] = NoConn]
          /\ via' = [via EXCEPT ![r] = NoReq]
          /\ tried' = [tried EXCEPT ![r] = {}]
     ELSE \E p \in cand :
          /\ Goto(r, IF rcv[b] \in transports /\ p \in live
                     THEN "consuming" ELSE "doomed")
          /\ cur' = [cur EXCEPT ![r] = p]
          /\ to' = [to EXCEPT ![r] = b]
          /\ via' = [via EXCEPT ![r] = rcv[b]]
          /\ tried' = [tried EXCEPT ![r] = done \union {p}]

IsJoin(r) == Type[r] = "join-call-request"

UnvisitedOrOwn(r) ==  \* mutant: no continue for the own clientId
  {i \in ClientId : clients[i] # NoConn /\ i \notin seen[r]}

UnvisitedOrSeen(r) ==  \* mutant: the iterator does not advance
  {i \in ClientId : clients[i] # NoConn /\ i # IdOf[From[r]]}

\* Keys the for loop over _clients.keys() has still to visit.
Unvisited(r) ==
  {i \in ClientId : clients[i] # NoConn /\ i \notin seen[r] /\ i # IdOf[From[r]]}

\* One turn of the loop over the other clients: a join consumes from them, a
\* new producer is consumed by them.  At the end a join is answered.
LoopStep(r, pm) ==
  \/ \E i \in Unvisited(r) :
       LET own == IdOf[From[r]]
           a == IF IsJoin(r) THEN clients[i] ELSE clients[own]
           b == IF IsJoin(r) THEN clients[own] ELSE clients[i]
       IN /\ seen' = [seen EXCEPT ![r] = seen[r] \union {i}]
          /\ IF a = NoConn \/ b = NoConn
             THEN Goto(r, "outer") /\ UNCHANGED <<cur, to, via, tried>>
             ELSE ConsumeNext(r, a, b, {}, pm, consumers)
  \/ /\ Unvisited(r) = {}
     /\ Goto(r, "done")
     /\ UNCHANGED loopVars

FinishesEarly(r) == IsJoin(r)  \* mutant: the response is sent before the loop
Finishes(r) == Unvisited(r) = {} /\ IsJoin(r)

JoinCall(r) ==
  /\ Arrives(r, {"join-call-request"})
  /\ ready' = IF From[r] \in caps /\ rcv[From[r]] # NoReq
              THEN ready \union {r} ELSE ready
  /\ LoopStep(r, prodMap)
  /\ IF Finishes(r) THEN Answer(r) ELSE UNCHANGED answered
  /\ UNCHANGED <<clientVars, transportVars, mediaVars, consumerVars, up>>

CreateProducer(r) ==
  LET t == snd[From[r]]
  IN /\ Arrives(r, {"create-producer-request"})
     /\ IF t = NoReq
        THEN /\ Goto(r, "done")
             /\ UNCHANGED <<host, live>>
        ELSE \/ /\ t \in transports
                /\ Goto(r, "producing")
                /\ host' = [host EXCEPT ![r] = t]
                /\ live' = live \union {r}
             \/ \* refused by the worker; the rejection is caught
                /\ Goto(r, "done")
                /\ UNCHANGED <<host, live>>
     /\ UNCHANGED <<clientVars, transportVars, prodMap, loopVars, consumerVars,
                    ready, answered, up>>

ProducerSetLast(r) ==  \* mutant: the loop runs before producers.set
  /\ up
  /\ pc[r] = "producing"
  /\ prodMap' = prodMap \union {r}
  /\ Answer(r)
  /\ LoopStep(r, prodMap)
  /\ UNCHANGED <<clientVars, transportVars, host, live, consumerVars, ready, up>>

ProducerCreated(r) ==
  /\ up
  /\ pc[r] = "producing"
  /\ prodMap' = prodMap \union {r}
  /\ Answer(r)
  /\ LoopStep(r, prodMap')
  /\ UNCHANGED <<clientVars, transportVars, host, live, consumerVars, ready, up>>

NextClient(r) ==
  /\ up
  /\ pc[r] = "outer"
  /\ LoopStep(r, prodMap)
  /\ IF Finishes(r) THEN Answer(r) ELSE UNCHANGED answered
  /\ UNCHANGED <<clientVars, transportVars, mediaVars, consumerVars, ready, up>>

ConsumerCreated(r) ==
  LET k == [task |-> r, prod |-> cur[r], conn |-> to[r], via |-> via[r]]
  IN /\ up
     /\ pc[r] = "consuming"
     /\ consumers' = consumers \union {k}
     /\ view' = IF status[k.conn] = "open" THEN view \union {k} ELSE view
     /\ ConsumeNext(r, From[cur[r]], to[r], tried[r], prodMap, consumers')
     /\ UNCHANGED <<clientVars, transportVars, mediaVars, seen, ready,
                    answered, up>>

ConsumerLost(k) ==  \* mutant: the close of a producer is not passed on
  /\ up
  /\ k \in consumers
  /\ k.prod \notin live
  /\ k.via \in transports
  /\ consumers' = consumers \ {k}
  /\ UNCHANGED <<clientVars, transportVars, mediaVars, loopVars, view,
                 pc, ready, answered, up>>

\* The worker reports that the producer of k is gone (event producerclose).
ConsumerClosed(k) ==
  /\ up
  /\ k \in consumers
  /\ k.prod \notin live
  /\ k.via \in transports
  /\ consumers' = consumers \ {k}
  /\ view' = IF status[k.conn] = "open" THEN view \ {k} ELSE view
  /\ UNCHANGED <<clientVars, transportVars, mediaVars, loopVars,
                 pc, ready, answered, up>>

\* createWebRtcTransport and consume are awaited without a catch: when the
\* worker refuses, the unhandled rejection ends the process.
UnhandledRejection(r) ==
  /\ up
  /\ pc[r] \in {"creating", "consuming", "doomed"}
  /\ up' = FALSE
  /\ UNCHANGED <<clientVars, transportVars, mediaVars, loopVars, consumerVars,
                 pc, ready, answered>>

-----------------------------------------------------------------------------

\* What the event loop owes a handler that waits: its continuation.
Continue(r) ==
  \/ TransportCreated(r)
  \/ WorkerAcked(r)
  \/ ProducerCreated(r)
  \/ NextClient(r)
  \/ ConsumerCreated(r)

Receive(r) ==
  \/ GetRouterCapabilities(r)
  \/ ClientRtpCapabilities(r)
  \/ CreateTransport(r)
  \/ AwaitWorker(r)
  \/ JoinCall(r)
  \/ CreateProducer(r)

Next ==
  \/ \E c \in Conn : Add(c) \/ ClientClosed(c)
  \/ \E r \in Request : Receive(r) \/ Continue(r) \/ UnhandledRejection(r)
  \/ \E k \in consumers : ConsumerClosed(k)
  \/ RouterClosed

Spec == Init /\ [][Next]_vars

-----------------------------------------------------------------------------
(* Properties.                                                             *)

PC == {"idle", "creating", "producing", "consuming", "doomed", "outer",
       "acking", "done"}

\* The values of the fields and Maps of Room.ts and of the waiting handlers.
TypeOK ==
  /\ status \in [Conn -> {"absent", "open", "closed"}]
  /\ clients \in [ClientId -> Conn \union {NoConn}]
  /\ caps \subseteq Conn
  /\ snd \in [Conn -> Request \union {NoReq}]
  /\ rcv \in [Conn -> Request \union {NoReq}]
  /\ room \in {"open", "closed"}
  /\ router \in {"open", "closed"}
  /\ transports \subseteq Request
  /\ host \in [Request -> Request \union {NoReq}]
  /\ live \subseteq Request
  /\ prodMap \subseteq Request
  /\ consumers \subseteq Consumer
  /\ view \subseteq Consumer
  /\ pc \in [Request -> PC]
  /\ seen \in [Request -> SUBSET ClientId]
  /\ cur \in [Request -> Request \union {NoReq}]
  /\ to \in [Request -> Conn \union {NoConn}]
  /\ via \in [Request -> Request \union {NoReq}]
  /\ tried \in [Request -> SUBSET Request]
  /\ ready \subseteq Request
  /\ answered \subseteq Request
  /\ up \in BOOLEAN

\* A key of _clients leads to a Client whose websocket is still open, under the
\* clientId it came with: the close listener never leaves a dead entry behind.
RegisteredIsOpen ==
  \A i \in ClientId : clients[i] # NoConn =>
    status[clients[i]] = "open" /\ IdOf[clients[i]] = i

\* While no other connection ever used its clientId, an open client stays in
\* _clients, whoever else leaves (the delete of Room.ts:221 is by key).
SoleConnectionIsRegistered ==
  \A c \in Conn :
    /\ status[c] = "open"
    /\ \A d \in Conn \ {c} : IdOf[d] = IdOf[c] => status[d] = "absent"
    => Registered(c)

\* The room is closed when its last key goes, and only then: a closed room has
\* no clients, and an empty one has no router.
EmptyRoomIsClosed ==
  /\ room = "closed" => router = "closed" /\ \A i \in ClientId : clients[i] = NoConn
  /\ (\E c \in Conn : status[c] # "absent") /\ (\A i \in ClientId : clients[i] = NoConn)
       => router = "closed"

\* An open transport that neither a waiting handler nor an open client has, so
\* that no close listener is going to close it.
Orphan(r) ==
  /\ r \in transports
  /\ pc[r] # "creating"
  /\ ~(status[From[r]] = "open" /\ TransportOf(r) = r)

\* A transport is orphaned only by the await of createWebRtcTransport: a second
\* request of the same role passed the check of Room.ts:90-96 in the meantime and
\* takes its place, or the client left before it was stored.
OrphanedWhileCreating ==
  [][\A r \in Request :
       ~Orphan(r) /\ Orphan(r)' =>
         \E q \in Request :
           /\ TransportCreated(q)
           /\ From[q] = From[r]
           /\ Type[q] = Type[r]
           /\ q # r \/ status[From[r]] = "closed"]_vars

\* No client is made to consume a producer of its own clientId, whoever takes
\* over the key while the loop waits.
NoSelfConsume ==
  \A k \in consumers : IdOf[From[k.prod]] # IdOf[k.conn]

\* A client that is still connected knows exactly the consumers the room holds
\* for it: every consumer was announced, and retracted when it was closed.
ClientViewExact ==
  \A k \in view \union consumers :
    status[k.conn] = "open" => k \in view /\ k \in consumers

Quiet == up /\ \A r \in Request : pc[r] \in {"idle", "done"}

\* When no handler is waiting, every client that joined with capabilities and a
\* receiving transport consumes every producer of every other client: no
\* overlap of a join with a new producer leaves a pair unconnected.
MeshWhenQuiet ==
  Quiet =>
    \A j \in ready, p \in prodMap :
      /\ pc[j] = "done"
      /\ Registered(From[j])
      /\ Registered(From[p])
      /\ From[j] # From[p]
      => Consumes(consumers, From[j], p)

\* The check of Room.ts:247-258 takes a producer that "is already consumed" for
\* one that is not consumed again.
AtMostOneConsumer ==
  \A k, l \in consumers : k.conn = l.conn /\ k.prod = l.prod => k = l

=============================================================================
