------------------------------- MODULE Rooms -------------------------------
(***************************************************************************)
(* The SFU's directory of rooms (sfu/src/media/Rooms.ts), the websocket    *)
(* connections that ask it for one (sfu/src/main.ts) and the part of       *)
(* MediasoupRoom that decides when a room closes.  What happens inside a   *)
(* room is in module Room.                                                 *)
(*                                                                         *)
(* A room object is named by the connection whose arrival created it.      *)
(* getOrCreateRoom suspends its caller only while createRouter is          *)
(* outstanding; the promise callbacks that follow run without another      *)
(* event in between, so a step of the model is one event.                  *)
(***************************************************************************)
CONSTANTS
  Conn,      \* websocket connections
  RoomId,    \* values of roomId in the query string: keys of _rooms
  ClientId,  \* values of clientId: keys of a room's _clients
  RoomOf,    \* RoomOf[c]: the roomId of connection c, NoRoom when one is missing
  IdOf,      \* IdOf[c]: its clientId
  NoRoom, NoConn

ASSUME RoomsAssumption ==
  /\ RoomOf \in [Conn -> RoomId \union {NoRoom}]
  /\ IdOf \in [Conn -> ClientId]
  /\ NoRoom \notin RoomId
  /\ NoConn \notin Conn

VARIABLES
  sock,      \* sock[c]: "none" before the connection, then "open" or "closed"
  rooms,     \* the Map _rooms: roomId -> room
  creating,  \* the Map _creatingRooms: roomId -> promise of a room
  pending,   \* rooms whose createRouter is outstanding
  waiters,   \* waiters[i]: callers that await the promise of room i
  joined,    \* joined[c]: the room whose add was called for c
  keys,      \* keys[i]: the Map _clients of room i
  router,    \* router[i]: "none", "open" or "closed"
  worker,    \* the mediasoup worker, "alive" or "dead"
  up,        \* FALSE once an unhandled rejection has ended the process
  early      \* connections whose websocket closed before add (history)

vars == <<sock, rooms, creating, pending, waiters, joined, keys, router, worker, up,
          early>>

NoKeys == [x \in ClientId |-> NoConn]

Init ==
  /\ sock = [c \in Conn |-> "none"]
  /\ rooms = [r \in RoomId |-> NoConn]
  /\ creating = [r \in RoomId |-> NoConn]
  /\ pending = {}
  /\ waiters = [i \in Conn |-> {}]
  /\ joined = [c \in Conn |-> NoConn]
  /\ keys = [i \in Conn |-> NoKeys]
  /\ router = [i \in Conn |-> "none"]
  /\ worker = "alive"
  /\ up = TRUE
  /\ early = {}

-----------------------------------------------------------------------------

\* room.add for the connections of W in turn; which of several that share a
\* clientId comes last, and holds the key, is left open.
AddAll(i, W) ==
  /\ joined' = [c \in Conn |-> IF c \in W THEN i ELSE joined[c]]
  /\ \E m \in [ClientId -> W \union {keys[i][x] : x \in ClientId}] :
       /\ \A x \in ClientId :
            IF \E c \in W : IdOf[c] = x
            THEN m[x] \in W /\ IdOf[m[x]] = x
            ELSE m[x] = keys[i][x]
       /\ keys' = [keys EXCEPT ![i] = m]

\* A websocket without roomId or clientId is closed with code 4001.
Refuse(c) ==
  /\ up
  /\ sock[c] = "none"
  /\ RoomOf[c] = NoRoom
  /\ sock' = [sock EXCEPT ![c] = "closed"]
  /\ UNCHANGED <<rooms, creating, pending, waiters, joined, keys, router, worker, up,
                 early>>

AwaitAlone(W, c) == {c}               \* mutant: the earlier callers are forgotten
Await(W, c) == W \union {c}            \* one more caller awaits the promise

NeverCreating(r) == NoConn    \* mutant: _creatingRooms is not consulted
Creating(r) == creating[r]    \* _creatingRooms.get(roomId)

\* getOrCreateRoom: the listed room, or the promise of the one being created,
\* or a new one.  The listener of main.ts adds the client when it is there.
Connect(c) ==
  LET r == RoomOf[c]
  IN /\ up
     /\ sock[c] = "none"
     /\ r # NoRoom
     /\ sock' = [sock EXCEPT ![c] = "open"]
     /\ \/ /\ rooms[r] # NoConn
           /\ AddAll(rooms[r], {c})
           /\ UNCHANGED <<creating, pending, waiters>>
        \/ /\ rooms[r] = NoConn
           /\ Creating(r) # NoConn
           /\ waiters' = [waiters EXCEPT ![creating[r]] = Await(@, c)]
           /\ UNCHANGED <<creating, pending, joined, keys>>
        \/ /\ rooms[r] = NoConn
           /\ Creating(r) = NoConn
           /\ creating' = [creating EXCEPT ![r] = c]
           /\ pending' = pending \union {c}
           /\ waiters' = [waiters EXCEPT ![c] = {c}]
           /\ UNCHANGED <<joined, keys>>
     /\ UNCHANGED <<rooms, router, worker, up, early>>

\* createRouter resolves: the room is listed, the promise forgotten, and every
\* caller adds its client, whether or not its websocket closed in the meantime.
RouterCreated(i) ==
  /\ up
  /\ i \in pending
  /\ worker = "alive"
  /\ pending' = pending \ {i}
  /\ router' = [router EXCEPT ![i] = "open"]
  /\ rooms' = [rooms EXCEPT ![RoomOf[i]] = i]
  /\ creating' = [creating EXCEPT ![RoomOf[i]] = NoConn]
  /\ waiters' = [waiters EXCEPT ![i] = {}]
  /\ AddAll(i, waiters[i])
  /\ UNCHANGED <<sock, worker, up, early>>

\* createRouter rejects: neither the finally callback's promise nor the
\* callers catch it, and the unhandled rejection ends the process.
RouterRejected(i) ==
  /\ up
  /\ i \in pending
  /\ worker = "dead"
  /\ up' = FALSE
  /\ UNCHANGED <<sock, rooms, creating, pending, waiters, joined, keys, router, worker,
                 early>>

LastKey(m) ==  \* mutant: size <= 1
  \A x, y \in ClientId : m[x] # NoConn /\ m[y] # NoConn => x = y

IsEmpty(m) == \A x \in ClientId : m[x] = NoConn

KeepListed(i) == rooms                              \* mutant: onClosed does nothing
Unlist(i) == [rooms EXCEPT ![RoomOf[i]] = NoConn]   \* onClosed

KeepKey(i, c) == keys[i]                                \* mutant: without _clients.delete
WithoutKey(i, c) == [keys[i] EXCEPT ![IdOf[c]] = NoConn]

\* The close event of a websocket.  Before add nobody listens to it; after, the
\* client's key is deleted and an empty room closes its router and is unlisted.
Close(c) ==
  LET i == joined[c]
      left == WithoutKey(i, c)
      closing == IsEmpty(left) /\ router[i] = "open"
  IN /\ up
     /\ sock[c] = "open"
     /\ sock' = [sock EXCEPT ![c] = "closed"]
     /\ IF i = NoConn
        THEN early' = early \union {c} /\ UNCHANGED <<keys, router, rooms>>
        ELSE /\ keys' = [keys EXCEPT ![i] = left]
             /\ router' = IF closing THEN [router EXCEPT ![i] = "closed"] ELSE router
             /\ rooms' = IF closing THEN Unlist(i) ELSE rooms
             /\ UNCHANGED early
     /\ UNCHANGED <<creating, pending, waiters, joined, worker, up>>

\* The worker dies and takes every router with it.  room.close finds its router
\* closed and returns before onClosed: the rooms stay listed.
WorkerDied ==
  /\ up
  /\ worker = "alive"
  /\ worker' = "dead"
  /\ router' = [i \in Conn |-> IF router[i] = "open" THEN "closed" ELSE router[i]]
  /\ UNCHANGED <<sock, rooms, creating, pending, waiters, joined, keys, up, early>>

Next ==
  \/ \E c \in Conn : Refuse(c) \/ Connect(c) \/ Close(c)
  \/ \E i \in Conn : RouterCreated(i) \/ RouterRejected(i)
  \/ WorkerDied

Spec == Init /\ [][Next]_vars

\* The worker answers createRouter, or its death rejects it.
Fairness == \A i \in Conn : WF_vars(RouterCreated(i) \/ RouterRejected(i))

FairSpec == Spec /\ Fairness

-----------------------------------------------------------------------------
(* Properties.                                                             *)

\* The values of the two Maps of Rooms.ts and of what hangs on them.
TypeOK ==
  /\ sock \in [Conn -> {"none", "open", "closed"}]
  /\ rooms \in [RoomId -> Conn \union {NoConn}]
  /\ creating \in [RoomId -> Conn \union {NoConn}]
  /\ pending \subseteq Conn
  /\ waiters \in [Conn -> SUBSET Conn]
  /\ joined \in [Conn -> Conn \union {NoConn}]
  /\ keys \in [Conn -> [ClientId -> Conn \union {NoConn}]]
  /\ router \in [Conn -> {"none", "open", "closed"}]
  /\ worker \in {"alive", "dead"}
  /\ up \in BOOLEAN
  /\ early \subseteq Conn

\* However many clients arrive while a router is being created, a roomId has at
\* most one room, open or on the way.
OneRoomPerId ==
  \A i, j \in Conn :
    /\ router[i] = "open" \/ i \in pending
    /\ router[j] = "open" \/ j \in pending
    /\ RoomOf[i] = RoomOf[j]
    => i = j

\* A room whose router is open can be found, and while the worker lives a room
\* that can be found is open and has a client.
ListedIsOpen ==
  /\ \A i \in Conn : router[i] = "open" => RoomOf[i] \in RoomId /\ rooms[RoomOf[i]] = i
  /\ worker = "alive" =>
       \A r \in RoomId : rooms[r] # NoConn =>
         router[rooms[r]] = "open" /\ ~IsEmpty(keys[rooms[r]])

Sole(c) ==
  \A d \in Conn \ {c} :
    RoomOf[d] = RoomOf[c] /\ IdOf[d] = IdOf[c] => sock[d] = "none"

\* While the worker lives, a client whose clientId nobody else uses in the room
\* sits in the room that the next arrivals will be given.
MembersMeet ==
  \A c \in Conn :
    /\ worker = "alive"
    /\ sock[c] = "open"
    /\ joined[c] # NoConn
    /\ Sole(c)
    => rooms[RoomOf[c]] = joined[c]

\* While the worker lives, a room is listed only for the sake of a client that is
\* connected, or of one whose websocket closed before add: nobody hears that
\* close event, and such a room stays until another client with its clientId
\* comes and goes.
RoomsEmptyOut ==
  worker = "alive" =>
    \A r \in RoomId : rooms[r] # NoConn =>
      \E c \in Conn : joined[c] = rooms[r] /\ (sock[c] = "open" \/ c \in early)

\* Every client that was not refused gets its room, or the process ends.
EveryoneJoins ==
  \A c \in Conn : sock[c] = "open" ~> (joined[c] # NoConn \/ ~up)
=============================================================================
