---------------------------- MODULE RoomsProofs ----------------------------
(***************************************************************************)
(* Theorems about Rooms, for any number of connections, rooms and          *)
(* clientIds.                                                              *)
(***************************************************************************)
EXTENDS Rooms, TLAPS

\* A room on the way: its promise is the one in _creatingRooms, nothing is
\* listed under its roomId yet, and somebody waits for it.
PendingInv ==
  /\ \A i \in pending :
       /\ RoomOf[i] \in RoomId
       /\ creating[RoomOf[i]] = i
       /\ rooms[RoomOf[i]] = NoConn
       /\ router[i] = "none"
       /\ sock[i] # "none"
       /\ waiters[i] # {}
  /\ \A r \in RoomId : creating[r] # NoConn => creating[r] \in pending /\ RoomOf[creating[r]] = r
  /\ \A i \in Conn : i \notin pending => waiters[i] = {}
  /\ \A i \in Conn : \A c \in waiters[i] :
       sock[c] # "none" /\ RoomOf[c] = RoomOf[i] /\ joined[c] = NoConn

\* A listed room was created for the roomId it is listed under, and the keys of
\* a room belong to clients that were added to it.
MemberInv ==
  /\ \A r \in RoomId : rooms[r] # NoConn => RoomOf[rooms[r]] = r /\ router[rooms[r]] # "none"
  /\ \A i \in Conn : router[i] # "none" => sock[i] # "none" /\ RoomOf[i] \in RoomId
  /\ \A c \in Conn : joined[c] # NoConn =>
       sock[c] # "none" /\ RoomOf[c] = RoomOf[joined[c]] /\ router[joined[c]] # "none"
  /\ worker = "alive" => \A i \in Conn : router[i] # "open" => IsEmpty(keys[i])

\* A client whose clientId nobody else uses holds its key.
SoleInv ==
  \A c \in Conn :
    sock[c] = "open" /\ joined[c] # NoConn /\ Sole(c) => keys[joined[c]][IdOf[c]] = c

IInv ==
  /\ TypeOK
  /\ ListedIsOpen
  /\ PendingInv
  /\ MemberInv
  /\ SoleInv

-----------------------------------------------------------------------------

\* Adding clients to room i changes the keys of no other room, and leaves a key
\* for every client that was added.
LEMMA AddAllEffect ==
  ASSUME TypeOK, NEW i \in Conn, NEW W \in SUBSET Conn, AddAll(i, W)
  PROVE  /\ joined' \in [Conn -> Conn \union {NoConn}]
         /\ keys' \in [Conn -> [ClientId -> Conn \union {NoConn}]]
         /\ \A c \in Conn : joined'[c] = IF c \in W THEN i ELSE joined[c]
         /\ \A h \in Conn \ {i} : keys'[h] = keys[h]
         /\ \A x \in ClientId :
              IF \E c \in W : IdOf[c] = x
              THEN keys'[i][x] \in W /\ IdOf[keys'[i][x]] = x
              ELSE keys'[i][x] = keys[i][x]
<1>1. PICK m \in [ClientId -> W \union {keys[i][x] : x \in ClientId}] :
        /\ \A x \in ClientId :
             IF \E c \in W : IdOf[c] = x
             THEN m[x] \in W /\ IdOf[m[x]] = x
             ELSE m[x] = keys[i][x]
        /\ keys' = [keys EXCEPT ![i] = m]
  BY DEF AddAll
<1>2. m \in [ClientId -> Conn \union {NoConn}]
  BY <1>1 DEF TypeOK
<1>3. keys'[i] = m /\ \A h \in Conn \ {i} : keys'[h] = keys[h]
  BY <1>1 DEF TypeOK
<1> QED
  BY <1>1, <1>2, <1>3 DEF AddAll, TypeOK

\* A room that was given a client is not empty.
LEMMA NotEmpty ==
  ASSUME NEW m \in [ClientId -> Conn \union {NoConn}], NEW x \in ClientId, m[x] # NoConn
  PROVE  ~IsEmpty(m)
  BY DEF IsEmpty

\* A process that has just started has no rooms.
LEMMA InitIInv == Init => IInv
  BY RoomsAssumption
  DEF Init, IInv, TypeOK, ListedIsOpen, PendingInv, MemberInv, SoleInv, NoKeys, IsEmpty

\* Arrivals: getOrCreateRoom returns the listed room, the promise in
\* _creatingRooms, or a new promise, and keeps the two Maps apart.
LEMMA ConnectStep ==
  ASSUME IInv, NEW c \in Conn, Connect(c)
  PROVE  IInv'
<1> USE RoomsAssumption DEF IInv
<1> DEFINE r == RoomOf[c]
<1>1. /\ r \in RoomId /\ sock[c] = "none" /\ sock'[c] = "open"
      /\ sock' \in [Conn -> {"none", "open", "closed"}]
      /\ \A d \in Conn \ {c} : sock'[d] = sock[d]
      /\ UNCHANGED <<rooms, router, worker, up, early>>
  <2>1. /\ r # NoRoom /\ sock[c] = "none" /\ sock' = [sock EXCEPT ![c] = "open"]
        /\ UNCHANGED <<rooms, router, worker, up, early>>
    BY DEF Connect
  <2>2. sock \in [Conn -> {"none", "open", "closed"}] /\ r \in RoomId
    BY <2>1 DEF TypeOK
  <2> QED
    BY <2>1, <2>2
<1>2. joined[c] = NoConn /\ c \notin pending /\ waiters[c] = {} /\ router[c] = "none"
  BY <1>1 DEF PendingInv, MemberInv, TypeOK
<1>3. \A d \in Conn \ {c} : Sole(d)' => Sole(d)
  BY <1>1 DEF Sole
<1>4. CASE /\ rooms[r] # NoConn
           /\ AddAll(rooms[r], {c})
           /\ UNCHANGED <<creating, pending, waiters>>
  <2>1. rooms[r] \in Conn /\ {c} \in SUBSET Conn
    BY <1>1, <1>4 DEF TypeOK
  <2>2. /\ joined' \in [Conn -> Conn \union {NoConn}]
        /\ keys' \in [Conn -> [ClientId -> Conn \union {NoConn}]]
        /\ \A d \in Conn : joined'[d] = IF d \in {c} THEN rooms[r] ELSE joined[d]
        /\ \A h \in Conn \ {rooms[r]} : keys'[h] = keys[h]
        /\ \A x \in ClientId :
             IF \E d \in {c} : IdOf[d] = x
             THEN keys'[rooms[r]][x] \in {c} /\ IdOf[keys'[rooms[r]][x]] = x
             ELSE keys'[rooms[r]][x] = keys[rooms[r]][x]
    BY <1>4, <2>1, AddAllEffect
  <2>3. /\ joined'[c] = rooms[r] /\ \A d \in Conn \ {c} : joined'[d] = joined[d]
        /\ keys'[rooms[r]][IdOf[c]] = c
        /\ \A x \in ClientId \ {IdOf[c]} : keys'[rooms[r]][x] = keys[rooms[r]][x]
    BY <2>2
  <2>4. TypeOK'
    BY <1>1, <1>4, <2>2 DEF TypeOK
  <2>5. ListedIsOpen'
    <3>1. ~IsEmpty(keys'[rooms[r]])
      BY <2>1, <2>2, <2>3 DEF IsEmpty
    <3>2. ASSUME NEW q \in RoomId, rooms[q] # NoConn, ~IsEmpty(keys[rooms[q]])
          PROVE  ~IsEmpty(keys'[rooms[q]])
      <4>1. CASE rooms[q] = rooms[r]
        BY <3>1, <4>1
      <4>2. CASE rooms[q] # rooms[r]
        BY <2>2, <3>2, <4>2 DEF TypeOK
      <4> QED
        BY <4>1, <4>2
    <3> QED
      BY <1>1, <3>2 DEF ListedIsOpen
  <2>6. PendingInv'
    BY <1>1, <1>2, <1>4, <2>3 DEF PendingInv, TypeOK
  <2>7. MemberInv'
    <3>1. worker = "alive" => router[rooms[r]] = "open"
      BY <1>1, <1>4 DEF ListedIsOpen
    <3>2. RoomOf[rooms[r]] = r /\ router[rooms[r]] # "none"
      BY <1>1, <1>4 DEF MemberInv
    <3>3. (\A i \in Conn : router[i] # "open" => IsEmpty(keys[i])) /\ router[rooms[r]] = "open"
          => \A i \in Conn : router[i] # "open" => IsEmpty(keys'[i])
      BY <2>2
    <3>4. \A d \in Conn : joined'[d] # NoConn =>
            sock'[d] # "none" /\ RoomOf[d] = RoomOf[joined'[d]] /\ router[joined'[d]] # "none"
      BY <1>1, <2>3, <3>2 DEF MemberInv
    <3>5. \A h \in Conn : router[h] # "none" => sock'[h] # "none" /\ RoomOf[h] \in RoomId
      BY <1>1 DEF MemberInv
    <3> QED
      BY <1>1, <3>1, <3>3, <3>4, <3>5 DEF MemberInv
  <2>8. SoleInv'
    <3> SUFFICES ASSUME NEW d \in Conn, sock'[d] = "open", joined'[d] # NoConn, Sole(d)'
                 PROVE  keys'[joined'[d]][IdOf[d]] = d
      BY DEF SoleInv
    <3>1. CASE d = c
      BY <2>3, <3>1
    <3>2. CASE d # c
      <4>1. keys[joined[d]][IdOf[d]] = d /\ joined'[d] = joined[d] /\ joined[d] \in Conn
        BY <1>1, <1>3, <2>3, <3>2 DEF SoleInv, TypeOK
      <4>2. CASE joined[d] # rooms[r]
        BY <2>2, <4>1, <4>2
      <4>3. CASE joined[d] = rooms[r]
        <5>1. RoomOf[d] = r
          BY <1>1, <1>4, <4>1, <4>3 DEF MemberInv
        <5>2. IdOf[d] # IdOf[c]
          BY <1>1, <3>2, <5>1 DEF Sole
        <5> QED
          BY <2>3, <4>1, <4>3, <5>2
      <4> QED
        BY <4>2, <4>3
    <3> QED
      BY <3>1, <3>2
  <2> QED
    BY <2>4, <2>5, <2>6, <2>7, <2>8
<1>5. CASE /\ rooms[r] = NoConn
           /\ Creating(r) # NoConn
           /\ waiters' = [waiters EXCEPT ![creating[r]] = Await(@, c)]
           /\ UNCHANGED <<creating, pending, joined, keys>>
  <2>1. /\ creating[r] \in pending /\ creating[r] \in Conn /\ RoomOf[creating[r]] = r
        /\ waiters'[creating[r]] = waiters[creating[r]] \union {c}
        /\ \A i \in Conn \ {creating[r]} : waiters'[i] = waiters[i]
        /\ waiters' \in [Conn -> SUBSET Conn]
    BY <1>1, <1>5 DEF Creating, Await, PendingInv, TypeOK
  <2>2. TypeOK' /\ ListedIsOpen'
    BY <1>1, <1>5, <2>1 DEF TypeOK, ListedIsOpen
  <2>3. PendingInv'
    BY <1>1, <1>2, <1>5, <2>1 DEF PendingInv, TypeOK
  <2>4. MemberInv'
    BY <1>1, <1>2, <1>5 DEF MemberInv, TypeOK
  <2>5. SoleInv'
    BY <1>1, <1>2, <1>3, <1>5 DEF SoleInv
  <2> QED
    BY <2>2, <2>3, <2>4, <2>5
<1>6. CASE /\ rooms[r] = NoConn
           /\ Creating(r) = NoConn
           /\ creating' = [creating EXCEPT ![r] = c]
           /\ pending' = pending \union {c}
           /\ waiters' = [waiters EXCEPT ![c] = {c}]
           /\ UNCHANGED <<joined, keys>>
  <2>1. /\ creating' \in [RoomId -> Conn \union {NoConn}]
        /\ creating'[r] = c /\ \A q \in RoomId \ {r} : creating'[q] = creating[q]
        /\ waiters' \in [Conn -> SUBSET Conn]
        /\ waiters'[c] = {c} /\ \A i \in Conn \ {c} : waiters'[i] = waiters[i]
    BY <1>1, <1>6 DEF TypeOK
  <2>2. \A i \in pending : RoomOf[i] # r
    BY <1>6 DEF PendingInv, Creating, TypeOK
  <2>3. TypeOK' /\ ListedIsOpen'
    BY <1>1, <1>6, <2>1 DEF TypeOK, ListedIsOpen
  <2>4. PendingInv'
    BY <1>1, <1>2, <1>6, <2>1, <2>2 DEF PendingInv, TypeOK
  <2>5. MemberInv'
    BY <1>1, <1>2, <1>6 DEF MemberInv, TypeOK
  <2>6. SoleInv'
    BY <1>1, <1>2, <1>3, <1>6 DEF SoleInv
  <2> QED
    BY <2>3, <2>4, <2>5, <2>6
<1> QED
  BY <1>4, <1>5, <1>6 DEF Connect

\* createRouter resolves: the room is listed and everyone who waited is in it.
LEMMA RouterCreatedStep ==
  ASSUME IInv, NEW i \in Conn, RouterCreated(i)
  PROVE  IInv'
<1> USE RoomsAssumption DEF IInv
<1> DEFINE r == RoomOf[i]
           W == waiters[i]
<1>1. /\ i \in pending /\ r \in RoomId /\ creating[r] = i /\ rooms[r] = NoConn
      /\ router[i] = "none" /\ W # {} /\ W \in SUBSET Conn /\ sock[i] # "none"
      /\ \A c \in W : sock[c] # "none" /\ RoomOf[c] = r /\ joined[c] = NoConn
  BY DEF RouterCreated, PendingInv, TypeOK
<1>2. /\ pending' = pending \ {i}
      /\ router' \in [Conn -> {"none", "open", "closed"}]
      /\ router'[i] = "open" /\ \A h \in Conn \ {i} : router'[h] = router[h]
      /\ rooms' \in [RoomId -> Conn \union {NoConn}]
      /\ rooms'[r] = i /\ \A q \in RoomId \ {r} : rooms'[q] = rooms[q]
      /\ creating' \in [RoomId -> Conn \union {NoConn}]
      /\ creating'[r] = NoConn /\ \A q \in RoomId \ {r} : creating'[q] = creating[q]
      /\ waiters' \in [Conn -> SUBSET Conn]
      /\ waiters'[i] = {} /\ \A h \in Conn \ {i} : waiters'[h] = waiters[h]
      /\ UNCHANGED <<sock, worker, up, early>>
  BY <1>1 DEF RouterCreated, TypeOK
<1>3. /\ joined' \in [Conn -> Conn \union {NoConn}]
      /\ keys' \in [Conn -> [ClientId -> Conn \union {NoConn}]]
      /\ \A c \in Conn : joined'[c] = IF c \in W THEN i ELSE joined[c]
      /\ \A h \in Conn \ {i} : keys'[h] = keys[h]
      /\ \A x \in ClientId :
           IF \E c \in W : IdOf[c] = x
           THEN keys'[i][x] \in W /\ IdOf[keys'[i][x]] = x
           ELSE keys'[i][x] = keys[i][x]
  BY <1>1, AddAllEffect DEF RouterCreated
<1>4. TypeOK'
  BY <1>2, <1>3 DEF TypeOK
<1>5. ListedIsOpen'
  <2>1. ~IsEmpty(keys'[i])
    BY <1>1, <1>3 DEF IsEmpty
  <2>2. \A h \in Conn \ {i} : router[h] = "open" => RoomOf[h] # r
    BY <1>1 DEF ListedIsOpen
  <2>3. \A q \in RoomId \ {r} : rooms[q] # NoConn => rooms[q] \in Conn \ {i}
    BY <1>1 DEF TypeOK, MemberInv
  <2>4. \A h \in Conn : router'[h] = "open" => RoomOf[h] \in RoomId /\ rooms'[RoomOf[h]] = h
    BY <1>1, <1>2, <2>2 DEF ListedIsOpen
  <2>5. ASSUME worker = "alive", NEW q \in RoomId, rooms'[q] # NoConn
        PROVE  router'[rooms'[q]] = "open" /\ ~IsEmpty(keys'[rooms'[q]])
    <3>1. CASE q = r
      BY <1>2, <2>1, <3>1
    <3>2. CASE q # r
      BY <1>2, <1>3, <2>3, <2>5, <3>2 DEF ListedIsOpen
    <3> QED
      BY <3>1, <3>2
  <2> QED
    BY <1>2, <2>4, <2>5 DEF ListedIsOpen
<1>6. PendingInv'
  <2>1. \A h \in pending \ {i} : RoomOf[h] # r
    BY <1>1 DEF PendingInv
  <2>2. \A h \in Conn \ {i} : \A c \in waiters[h] : c \notin W
    BY <1>1, <2>1 DEF PendingInv, TypeOK
  <2>3. ASSUME NEW h \in pending'
        PROVE  /\ RoomOf[h] \in RoomId /\ creating'[RoomOf[h]] = h
               /\ rooms'[RoomOf[h]] = NoConn /\ router'[h] = "none"
               /\ sock'[h] # "none" /\ waiters'[h] # {}
    BY <1>2, <2>1, <2>3 DEF PendingInv, TypeOK
  <2>4. \A q \in RoomId : creating'[q] # NoConn =>
          creating'[q] \in pending' /\ RoomOf[creating'[q]] = q
    BY <1>1, <1>2 DEF PendingInv
  <2>5. \A h \in Conn : h \notin pending' => waiters'[h] = {}
    BY <1>2 DEF PendingInv
  <2>6. ASSUME NEW h \in Conn, NEW c \in waiters'[h]
        PROVE  sock'[c] # "none" /\ RoomOf[c] = RoomOf[h] /\ joined'[c] = NoConn
    <3>1. h # i /\ c \in waiters[h] /\ c \in Conn
      BY <1>2, <2>6 DEF TypeOK
    <3> QED
      BY <1>2, <1>3, <2>2, <3>1 DEF PendingInv
  <2> QED
    BY <2>3, <2>4, <2>5, <2>6 DEF PendingInv
<1>7. MemberInv'
  <2>1. ASSUME NEW h \in Conn, router'[h] # "open", IsEmpty(keys[h]) PROVE IsEmpty(keys'[h])
    BY <1>2, <1>3, <2>1
  <2>2. worker' = "alive" => \A h \in Conn : router'[h] # "open" => IsEmpty(keys'[h])
    BY <1>1, <1>2, <2>1 DEF MemberInv
  <2>3. \A c \in Conn : joined'[c] # NoConn =>
          sock[c] # "none" /\ RoomOf[c] = RoomOf[joined'[c]] /\ router'[joined'[c]] # "none"
    <3> SUFFICES ASSUME NEW c \in Conn, joined'[c] # NoConn
                 PROVE  /\ sock[c] # "none" /\ RoomOf[c] = RoomOf[joined'[c]]
                        /\ router'[joined'[c]] # "none"
      OBVIOUS
    <3>1. CASE c \in W
      BY <1>1, <1>2, <1>3, <3>1
    <3>2. CASE c \notin W
      BY <1>2, <1>3, <3>2 DEF MemberInv, TypeOK
    <3> QED
      BY <3>1, <3>2
  <2>4. \A h \in Conn : router'[h] # "none" => sock'[h] # "none" /\ RoomOf[h] \in RoomId
    BY <1>1, <1>2 DEF MemberInv
  <2>5. \A q \in RoomId : rooms'[q] # NoConn => RoomOf[rooms'[q]] = q /\ router'[rooms'[q]] # "none"
    BY <1>1, <1>2 DEF MemberInv, TypeOK
  <2> QED
    BY <1>2, <2>2, <2>3, <2>4, <2>5 DEF MemberInv
<1>8. SoleInv'
  <2> SUFFICES ASSUME NEW d \in Conn, sock[d] = "open", joined'[d] # NoConn, Sole(d)
               PROVE  keys'[joined'[d]][IdOf[d]] = d
    BY <1>2 DEF SoleInv, Sole
  <2>1. CASE d \in W
    <3>1. joined'[d] = i /\ keys'[i][IdOf[d]] \in W /\ IdOf[keys'[i][IdOf[d]]] = IdOf[d]
      BY <1>3, <2>1
    <3>2. \A c \in W : IdOf[c] = IdOf[d] => c = d
      BY <1>1, <2>1 DEF Sole
    <3> QED
      BY <3>1, <3>2
  <2>2. CASE d \notin W
    <3>1. joined'[d] = joined[d] /\ joined[d] \in Conn /\ keys[joined[d]][IdOf[d]] = d
      BY <1>3, <2>2 DEF SoleInv, TypeOK
    <3>2. joined[d] # i
      BY <1>1, <3>1 DEF MemberInv
    <3> QED
      BY <1>3, <3>1, <3>2
  <2> QED
    BY <2>1, <2>2
<1> QED
  BY <1>4, <1>5, <1>6, <1>7, <1>8

\* A websocket closes: only the room of that client can close, and only when
\* its last key goes.
LEMMA CloseStep ==
  ASSUME IInv, NEW c \in Conn, Close(c)
  PROVE  IInv'
<1> USE RoomsAssumption DEF IInv
<1> DEFINE i == joined[c]
           left == [keys[i] EXCEPT ![IdOf[c]] = NoConn]
<1>1. /\ sock[c] = "open" /\ sock'[c] = "closed"
      /\ sock' \in [Conn -> {"none", "open", "closed"}]
      /\ \A d \in Conn \ {c} : sock'[d] = sock[d]
      /\ \A d \in Conn : sock'[d] = "none" <=> sock[d] = "none"
      /\ UNCHANGED <<creating, pending, waiters, joined, worker, up>>
      /\ early' \subseteq Conn
  BY DEF Close, TypeOK
<1>2. \A d \in Conn : Sole(d)' => Sole(d)
  BY <1>1 DEF Sole
<1>3. CASE i = NoConn
  <2>1. UNCHANGED <<keys, router, rooms>>
    BY <1>3 DEF Close
  <2>2. TypeOK' /\ ListedIsOpen'
    BY <1>1, <2>1 DEF TypeOK, ListedIsOpen
  <2>3. PendingInv' /\ MemberInv'
    BY <1>1, <2>1 DEF PendingInv, MemberInv, TypeOK
  <2>4. SoleInv'
    BY <1>1, <1>2, <2>1 DEF SoleInv
  <2> QED
    BY <2>2, <2>3, <2>4
<1>4. CASE i # NoConn
  <2>1. /\ i \in Conn /\ RoomOf[c] = RoomOf[i] /\ router[i] # "none" /\ RoomOf[i] \in RoomId
        /\ left \in [ClientId -> Conn \union {NoConn}]
        /\ \A x \in ClientId : left[x] = IF x = IdOf[c] THEN NoConn ELSE keys[i][x]
    BY <1>4 DEF MemberInv, TypeOK
  <2>2. /\ keys' \in [Conn -> [ClientId -> Conn \union {NoConn}]]
        /\ keys'[i] = left /\ \A h \in Conn \ {i} : keys'[h] = keys[h]
    <3>1. keys' = [keys EXCEPT ![i] = left]
      BY <1>4 DEF Close, WithoutKey
    <3> HIDE DEF left
    <3> QED
      BY <2>1, <3>1 DEF TypeOK
  <2>3. SoleInv'
    <3> SUFFICES ASSUME NEW d \in Conn, sock'[d] = "open", joined[d] # NoConn, Sole(d)
                 PROVE  keys'[joined[d]][IdOf[d]] = d
      BY <1>1, <1>2 DEF SoleInv
    <3>1. d # c /\ keys[joined[d]][IdOf[d]] = d /\ joined[d] \in Conn
      BY <1>1 DEF SoleInv, TypeOK
    <3>2. CASE joined[d] # i
      BY <2>2, <3>1, <3>2
    <3>3. CASE joined[d] = i
      <4>1. RoomOf[d] = RoomOf[c] /\ sock[c] # "none"
        BY <1>1, <2>1, <3>1, <3>3 DEF MemberInv
      <4>2. IdOf[d] # IdOf[c]
        BY <3>1, <4>1 DEF Sole
      <4> QED
        BY <2>1, <2>2, <3>1, <3>3, <4>2
    <3> QED
      BY <3>2, <3>3
  <2> HIDE DEF left
  <2>4. CASE IsEmpty(left) /\ router[i] = "open"
    <3>1. rooms[RoomOf[i]] = i
      BY <2>1, <2>4 DEF ListedIsOpen
    <3>2. /\ router' = [router EXCEPT ![i] = "closed"]
          /\ rooms' = [rooms EXCEPT ![RoomOf[i]] = NoConn]
      BY <1>4, <2>4 DEF Close, Unlist, WithoutKey, left
    <3>3. /\ router' \in [Conn -> {"none", "open", "closed"}]
          /\ router'[i] = "closed" /\ \A h \in Conn \ {i} : router'[h] = router[h]
          /\ rooms' \in [RoomId -> Conn \union {NoConn}]
          /\ rooms'[RoomOf[i]] = NoConn
          /\ \A q \in RoomId \ {RoomOf[i]} : rooms'[q] = rooms[q]
      BY <2>1, <3>2 DEF TypeOK
    <3>4. \A h \in Conn \ {i} : router[h] = "open" => RoomOf[h] # RoomOf[i]
      BY <2>1, <3>1 DEF ListedIsOpen
    <3>5. \A q \in RoomId \ {RoomOf[i]} : rooms[q] # NoConn => rooms[q] \in Conn \ {i}
      BY DEF MemberInv, TypeOK
    <3>6. TypeOK'
      BY <1>1, <2>2, <3>3 DEF TypeOK
    <3>7. ListedIsOpen'
      <4>1. \A h \in Conn : router'[h] = "open" => RoomOf[h] \in RoomId /\ rooms'[RoomOf[h]] = h
        BY <2>1, <3>3, <3>4 DEF ListedIsOpen
      <4>2. ASSUME worker = "alive", NEW q \in RoomId, rooms'[q] # NoConn
            PROVE  router'[rooms'[q]] = "open" /\ ~IsEmpty(keys'[rooms'[q]])
        BY <2>2, <3>3, <3>5, <4>2 DEF ListedIsOpen
      <4> QED
        BY <1>1, <4>1, <4>2 DEF ListedIsOpen
    <3>8. PendingInv'
      BY <1>1, <2>1, <3>3 DEF PendingInv, TypeOK
    <3>9. MemberInv'
      <4>1. \A q \in RoomId : rooms'[q] # NoConn =>
              RoomOf[rooms'[q]] = q /\ router'[rooms'[q]] # "none"
        BY <3>3, <3>5 DEF MemberInv
      <4>2. \A h \in Conn : router'[h] # "none" => sock'[h] # "none" /\ RoomOf[h] \in RoomId
        BY <1>1, <2>1, <3>3 DEF MemberInv
      <4>3. \A d \in Conn : joined'[d] # NoConn =>
              /\ sock'[d] # "none" /\ RoomOf[d] = RoomOf[joined'[d]]
              /\ router'[joined'[d]] # "none"
        BY <1>1, <3>3 DEF MemberInv, TypeOK
      <4>4. ASSUME worker = "alive", NEW h \in Conn, router'[h] # "open"
            PROVE  IsEmpty(keys'[h])
        BY <2>2, <2>4, <3>3, <4>4 DEF MemberInv
      <4> QED
        BY <1>1, <4>1, <4>2, <4>3, <4>4 DEF MemberInv
    <3> QED
      BY <2>3, <3>6, <3>7, <3>8, <3>9
  <2>5. CASE ~(IsEmpty(left) /\ router[i] = "open")
    <3>1. UNCHANGED <<router, rooms>>
      BY <1>4, <2>5 DEF Close, WithoutKey, left
    <3>2. TypeOK' /\ PendingInv'
      BY <1>1, <2>2, <3>1 DEF TypeOK, PendingInv
    <3>3. ASSUME NEW h \in Conn, IsEmpty(keys[h]) PROVE IsEmpty(keys'[h])
      BY <2>1, <2>2, <3>3 DEF IsEmpty
    <3>4. MemberInv'
      BY <1>1, <3>1, <3>3 DEF MemberInv, TypeOK
    <3>5. ASSUME NEW h \in Conn, router[h] = "open", ~IsEmpty(keys[h])
          PROVE  ~IsEmpty(keys'[h])
      BY <2>2, <2>5, <3>5
    <3>6. ListedIsOpen'
      BY <1>1, <3>1, <3>5 DEF ListedIsOpen, TypeOK
    <3> QED
      BY <2>3, <3>2, <3>4, <3>6
  <2> QED
    BY <2>4, <2>5
<1> QED
  BY <1>3, <1>4

\* The invariant holds in every state of the directory.
THEOREM Invariance == Spec => []IInv
<1>1. IInv /\ [Next]_vars => IInv'
  <2> SUFFICES ASSUME IInv, [Next]_vars PROVE IInv'
    OBVIOUS
  <2>1. ASSUME NEW c \in Conn, Refuse(c) PROVE IInv'
    <3>1. /\ sock' \in [Conn -> {"none", "open", "closed"}]
          /\ \A d \in Conn : sock'[d] = "open" => sock[d] = "open"
          /\ \A d \in Conn : sock'[d] = "none" => sock[d] = "none"
          /\ UNCHANGED <<rooms, creating, pending, waiters, joined, keys, router, worker, up,
                        early>>
      BY <2>1 DEF Refuse, IInv, TypeOK
    <3>2. \A d \in Conn : Sole(d)' => Sole(d)
      BY <3>1 DEF Sole
    <3> QED
      BY <3>1, <3>2 DEF IInv, TypeOK, ListedIsOpen, PendingInv, MemberInv, SoleInv
  <2>2. ASSUME NEW i \in Conn, RouterRejected(i) PROVE IInv'
    <3>1. TypeOK'
      BY <2>2 DEF RouterRejected, IInv, TypeOK
    <3>2. ListedIsOpen' /\ MemberInv'
      BY <2>2 DEF RouterRejected, IInv, ListedIsOpen, MemberInv
    <3>3. PendingInv' /\ SoleInv'
      BY <2>2 DEF RouterRejected, IInv, PendingInv, SoleInv, Sole
    <3> QED
      BY <3>1, <3>2, <3>3 DEF IInv
  <2>3. ASSUME WorkerDied PROVE IInv'
    <3>1. /\ router' \in [Conn -> {"none", "open", "closed"}]
          /\ \A i \in Conn : router'[i] # "open" /\ (router'[i] = "none" <=> router[i] = "none")
          /\ worker' = "dead"
          /\ UNCHANGED <<sock, rooms, creating, pending, waiters, joined, keys, up, early>>
      BY <2>3 DEF WorkerDied, IInv, TypeOK
    <3> QED
      BY <3>1 DEF IInv, TypeOK, ListedIsOpen, PendingInv, MemberInv, SoleInv, Sole
  <2>4. CASE UNCHANGED vars
    BY <2>4 DEF vars, IInv, TypeOK, ListedIsOpen, PendingInv, MemberInv, SoleInv, Sole
  <2> QED
    BY <2>1, <2>2, <2>3, <2>4, ConnectStep, RouterCreatedStep, CloseStep DEF Next
<1> QED
  BY <1>1, InitIInv, PTL DEF Spec

\* The Maps _rooms and _creatingRooms keep their types.
THEOREM RoomsTypeOK == Spec => []TypeOK
<1>1. IInv => TypeOK
  BY DEF IInv
<1> QED
  BY <1>1, Invariance, PTL

\* getOrCreateRoom never makes two rooms for one roomId, however its callers
\* overlap with the creation and the closing of rooms.
THEOREM RoomsOneRoomPerId == Spec => []OneRoomPerId
<1>1. IInv => OneRoomPerId
  BY RoomsAssumption DEF IInv, TypeOK, ListedIsOpen, PendingInv, OneRoomPerId
<1> QED
  BY <1>1, Invariance, PTL

\* What _rooms lists is what is open.
THEOREM RoomsListedIsOpen == Spec => []ListedIsOpen
<1>1. IInv => ListedIsOpen
  BY DEF IInv
<1> QED
  BY <1>1, Invariance, PTL

\* Clients of one roomId meet in one room as long as the worker lives and
\* nobody shares a clientId.
THEOREM RoomsMembersMeet == Spec => []MembersMeet
<1>1. IInv => MembersMeet
  <2> SUFFICES ASSUME IInv, NEW c \in Conn, worker = "alive", sock[c] = "open",
                      joined[c] # NoConn, Sole(c)
               PROVE  rooms[RoomOf[c]] = joined[c]
    BY DEF MembersMeet
  <2>1. /\ keys[joined[c]][IdOf[c]] = c /\ c # NoConn /\ IdOf[c] \in ClientId
        /\ joined[c] \in Conn /\ RoomOf[c] = RoomOf[joined[c]]
    BY RoomsAssumption DEF IInv, SoleInv, MemberInv, TypeOK
  <2>2. ~IsEmpty(keys[joined[c]])
    BY <2>1 DEF IsEmpty
  <2>3. router[joined[c]] = "open"
    BY <2>1, <2>2 DEF IInv, MemberInv
  <2> QED
    BY <2>1, <2>3 DEF IInv, ListedIsOpen
<1> QED
  BY <1>1, Invariance, PTL

-----------------------------------------------------------------------------

\* Who holds a key of a room was added to it, and is connected or closed before
\* that.
PresentInv ==
  \A i \in Conn, x \in ClientId : keys[i][x] # NoConn =>
    LET c == keys[i][x]
    IN joined[c] = i /\ IdOf[c] = x /\ (sock[c] = "open" \/ c \in early)

\* A client that waits for a room and is not connected any more closed early.
WaitInv ==
  \A i \in Conn : \A c \in waiters[i] : sock[c] = "open" \/ c \in early

\* The clients in W are added to room i.
LEMMA AddAllPresent ==
  ASSUME IInv, PresentInv, UNCHANGED early,
         NEW i \in Conn, NEW W \in SUBSET Conn, AddAll(i, W),
         \A c \in W : joined[c] = NoConn /\ (sock'[c] = "open" \/ c \in early),
         \A c \in Conn : sock[c] = "open" => sock'[c] = "open"
  PROVE  PresentInv'
<1> SUFFICES ASSUME NEW h \in Conn, NEW x \in ClientId, keys'[h][x] # NoConn
             PROVE  /\ joined'[keys'[h][x]] = h /\ IdOf[keys'[h][x]] = x
                    /\ sock'[keys'[h][x]] = "open" \/ keys'[h][x] \in early
  BY DEF PresentInv
<1>1. /\ \A c \in Conn : joined'[c] = IF c \in W THEN i ELSE joined[c]
      /\ \A g \in Conn \ {i} : keys'[g] = keys[g]
      /\ IF \E c \in W : IdOf[c] = x
         THEN keys'[i][x] \in W /\ IdOf[keys'[i][x]] = x
         ELSE keys'[i][x] = keys[i][x]
  BY AddAllEffect DEF IInv
<1>2. CASE h = i /\ \E c \in W : IdOf[c] = x
  BY <1>1, <1>2
<1>3. CASE ~(h = i /\ \E c \in W : IdOf[c] = x)
  <2>1. keys'[h][x] = keys[h][x] /\ keys[h][x] \in Conn
    BY <1>1, <1>3 DEF IInv, TypeOK
  <2>2. /\ joined[keys[h][x]] = h /\ IdOf[keys[h][x]] = x
        /\ sock[keys[h][x]] = "open" \/ keys[h][x] \in early
    BY <2>1 DEF PresentInv
  <2>3. keys[h][x] \notin W
    BY <2>2, RoomsAssumption
  <2> QED
    BY <1>1, <2>1, <2>2, <2>3
<1> QED
  BY <1>2, <1>3

\* The close event of c takes the key of c away, or is remembered in early.
LEMMA ClosePresent ==
  ASSUME IInv, PresentInv, WaitInv, NEW c \in Conn, Close(c)
  PROVE  PresentInv' /\ WaitInv'
<1> USE RoomsAssumption
<1>1. /\ UNCHANGED <<joined, waiters>>
      /\ \A d \in Conn \ {c} : sock'[d] = sock[d]
      /\ early \subseteq early'
      /\ joined[c] = NoConn => c \in early'
  BY DEF Close, IInv, TypeOK
<1>2. \A i \in Conn, x \in ClientId : keys'[i][x] # NoConn => keys'[i][x] = keys[i][x]
  <2>1. CASE joined[c] = NoConn
    BY <2>1 DEF Close
  <2>2. CASE joined[c] # NoConn
    <3>1. joined[c] \in Conn /\ keys' = [keys EXCEPT ![joined[c]] = WithoutKey(joined[c], c)]
      BY <2>2 DEF Close, IInv, TypeOK
    <3> QED
      BY <3>1 DEF WithoutKey, IInv, TypeOK
  <2> QED
    BY <2>1, <2>2
<1>3. joined[c] # NoConn => keys'[joined[c]][IdOf[c]] = NoConn
  <2> SUFFICES ASSUME joined[c] # NoConn PROVE keys'[joined[c]][IdOf[c]] = NoConn
    OBVIOUS
  <2>1. joined[c] \in Conn /\ keys' = [keys EXCEPT ![joined[c]] = WithoutKey(joined[c], c)]
    BY DEF Close, IInv, TypeOK
  <2> QED
    BY <2>1 DEF WithoutKey, IInv, TypeOK
<1>4. ASSUME NEW i \in Conn, NEW x \in ClientId, keys'[i][x] # NoConn
      PROVE  /\ joined'[keys'[i][x]] = i /\ IdOf[keys'[i][x]] = x
             /\ sock'[keys'[i][x]] = "open" \/ keys'[i][x] \in early'
  <2>1. /\ keys'[i][x] = keys[i][x] /\ keys[i][x] \in Conn
        /\ joined[keys[i][x]] = i /\ IdOf[keys[i][x]] = x
        /\ sock[keys[i][x]] = "open" \/ keys[i][x] \in early
    BY <1>2, <1>4 DEF PresentInv, IInv, TypeOK
  <2>2. keys[i][x] # c
    BY <1>3, <1>4, <2>1
  <2> QED
    BY <1>1, <2>1, <2>2
<1>5. WaitInv'
  BY <1>1 DEF WaitInv, IInv, TypeOK, PendingInv
<1> QED
  BY <1>4, <1>5 DEF PresentInv

\* Rooms do not outlive their clients, but for those that closed before add.
THEOREM RoomsRoomsEmptyOut == Spec => []RoomsEmptyOut
<1> DEFINE J == PresentInv /\ WaitInv
<1>1. Init => J
  BY DEF Init, PresentInv, WaitInv, NoKeys
<1>2. IInv /\ J /\ [Next]_vars => J'
  <2> SUFFICES ASSUME IInv, PresentInv, WaitInv, [Next]_vars
               PROVE  PresentInv' /\ WaitInv'
    OBVIOUS
  <2>1. ASSUME NEW c \in Conn, Connect(c) PROVE PresentInv' /\ WaitInv'
    <3>1. /\ sock[c] = "none" /\ sock'[c] = "open" /\ UNCHANGED early
          /\ \A d \in Conn \ {c} : sock'[d] = sock[d]
      BY <2>1 DEF Connect, IInv, TypeOK
    <3>2. joined[c] = NoConn
      BY <3>1 DEF IInv, MemberInv
    <3>3. \A i \in Conn : waiters'[i] \subseteq waiters[i] \union {c}
      BY <2>1 DEF Connect, Await, IInv, TypeOK
    <3>4. WaitInv'
      BY <3>1, <3>3 DEF WaitInv, IInv, TypeOK
    <3>5. CASE rooms[RoomOf[c]] # NoConn
      <4>1. rooms[RoomOf[c]] \in Conn /\ AddAll(rooms[RoomOf[c]], {c})
        BY <2>1, <3>5, RoomsAssumption DEF Connect, IInv, TypeOK
      <4> QED
        BY <3>1, <3>2, <3>4, <4>1, AddAllPresent
    <3>6. CASE rooms[RoomOf[c]] = NoConn
      <4>1. UNCHANGED <<joined, keys>>
        BY <2>1, <3>6 DEF Connect
      <4> QED
        BY <3>1, <3>4, <4>1 DEF PresentInv, IInv, TypeOK
    <3> QED
      BY <3>5, <3>6
  <2>2. ASSUME NEW i \in Conn, RouterCreated(i) PROVE PresentInv' /\ WaitInv'
    <3>1. /\ UNCHANGED <<sock, early>> /\ AddAll(i, waiters[i]) /\ waiters[i] \in SUBSET Conn
          /\ \A h \in Conn : waiters'[h] \subseteq waiters[h]
      BY <2>2 DEF RouterCreated, IInv, TypeOK
    <3>2. \A c \in waiters[i] : joined[c] = NoConn /\ (sock'[c] = "open" \/ c \in early)
      BY <3>1 DEF WaitInv, IInv, PendingInv
    <3>3. PresentInv'
      BY <3>1, <3>2, AddAllPresent
    <3> QED
      BY <3>1, <3>3 DEF WaitInv
  <2>3. ASSUME NEW c \in Conn, Refuse(c) PROVE PresentInv' /\ WaitInv'
    <3>1. /\ UNCHANGED <<keys, joined, waiters, early>>
          /\ \A d \in Conn : sock[d] = "open" => sock'[d] = "open"
      BY <2>3 DEF Refuse, IInv, TypeOK
    <3> QED
      BY <3>1 DEF PresentInv, WaitInv, IInv, TypeOK
  <2>4. ASSUME NEW i \in Conn, RouterRejected(i) PROVE PresentInv' /\ WaitInv'
    BY <2>4 DEF RouterRejected, PresentInv, WaitInv
  <2>5. CASE WorkerDied \/ UNCHANGED vars
    BY <2>5 DEF WorkerDied, vars, PresentInv, WaitInv
  <2> QED
    BY <2>1, <2>2, <2>3, <2>4, <2>5, ClosePresent DEF Next
<1>3. IInv /\ J => RoomsEmptyOut
  <2> SUFFICES ASSUME IInv, PresentInv, worker = "alive", NEW r \in RoomId, rooms[r] # NoConn
               PROVE  \E c \in Conn : joined[c] = rooms[r] /\ (sock[c] = "open" \/ c \in early)
    BY DEF RoomsEmptyOut
  <2>1. rooms[r] \in Conn /\ ~IsEmpty(keys[rooms[r]])
    BY DEF IInv, TypeOK, ListedIsOpen
  <2>2. PICK x \in ClientId : keys[rooms[r]][x] # NoConn
    BY <2>1 DEF IsEmpty
  <2>3. keys[rooms[r]][x] \in Conn
    BY <2>1, <2>2 DEF IInv, TypeOK
  <2> QED
    BY <2>1, <2>2, <2>3 DEF PresentInv
<1> HIDE DEF J
<1> QED
  BY <1>1, <1>2, <1>3, Invariance, PTL DEF Spec
=============================================================================
