----------------------------- MODULE RoomProofs -----------------------------
(***************************************************************************)
(* Theorems about Room, for any number of connections, clientIds and       *)
(* messages.  The invariant is built in layers: what a waiting handler     *)
(* knows (HandlerInv), who owns transports and consumers (OwnerInv), and   *)
(* how a producer that no consumer serves yet is still on the way          *)
(* (MeshInv).                                                              *)
(*                                                                         *)
(* The second half is about Call: the room is the SFU that the browser     *)
(* assumes.  CallAssumption, on the participant of a call, is cited there  *)
(* only; what is proved of Room holds without it.                          *)
(***************************************************************************)
EXTENDS Call, FiniteSetTheorems, SequenceTheorems, TLAPS

Pending(r) ==
  /\ cur[r] \in Request
  /\ to[r] \in Conn
  /\ via[r] \in Request
  /\ From[via[r]] = to[r]
  /\ status[to[r]] # "absent"
  /\ IdOf[From[cur[r]]] # IdOf[to[r]]

HandlerInv ==
  \A r \in Request :
    /\ status[From[r]] = "absent" => pc[r] = "idle"
    /\ pc[r] = "idle" => r \notin ready /\ r \notin prodMap
    /\ pc[r] \in {"idle", "producing"} => seen[r] = {}
    /\ r \in ready => IsJoin(r) /\ From[r] \in caps /\ rcv[From[r]] # NoReq
    /\ r \in prodMap \/ pc[r] = "producing" => ~IsJoin(r)
    /\ pc[r] = "consuming" => Pending(r)

OwnerInv ==
  /\ \A c \in Conn : snd[c] # NoReq => From[snd[c]] = c
  /\ \A c \in Conn : rcv[c] # NoReq => From[rcv[c]] = c
  /\ \A p \in live : host[p] \in Request /\ From[host[p]] = From[p]
  /\ \A k \in consumers \union view :
       From[k.via] = k.conn /\ status[k.conn] # "absent"

LiveInv ==
  \A p \in Request :
    (p \in prodMap \/ pc[p] = "producing") /\ Registered(From[p]) => p \in live

\* mediasoup: closing a transport or the router closes what was made on it.
RouterInv ==
  /\ router = "closed" => transports = {}
  /\ \A p \in live : host[p] \in transports

\* The loop of handler r will still reach the client with key i, or it is
\* in _consumeClient from the owner of p to b and has not come to p.
OnTheWay(r, i, p, b) ==
  \/ pc[r] \in {"outer", "consuming"} /\ i \notin seen[r]
  \/ pc[r] = "consuming" /\ to[r] = b /\ From[cur[r]] = From[p] /\ p \notin tried[r]

Served(j, p) ==
  \/ Consumes(consumers, From[j], p)
  \/ \E r \in Request : pc[r] = "consuming" /\ cur[r] = p /\ to[r] = From[j]
  \/ OnTheWay(p, IdOf[From[j]], p, From[j])
  \/ OnTheWay(j, IdOf[From[p]], p, From[j])
  \/ \E r \in Request : pc[r] = "doomed"

MeshInv ==
  \A j \in ready, p \in prodMap :
    Registered(From[j]) /\ Registered(From[p]) /\ From[j] # From[p] => Served(j, p)
-----------------------------------------------------------------------------
(* Type correctness.                                                       *)

LoopType ==
  /\ pc \in [Request -> PC]
  /\ seen \in [Request -> SUBSET ClientId]
  /\ cur \in [Request -> Request \union {NoReq}]
  /\ to \in [Request -> Conn \union {NoConn}]
  /\ via \in [Request -> Request \union {NoReq}]
  /\ tried \in [Request -> SUBSET Request]

\* A stretch of _consumeClient leaves the handler's locals well typed.
LEMMA ConsumeNextType ==
  ASSUME TypeOK, NEW r \in Request, NEW a \in Conn, NEW b \in Conn,
         NEW done \in SUBSET Request, NEW pm \in SUBSET Request, NEW ks,
         ConsumeNext(r, a, b, done, pm, ks)
  PROVE  /\ pc' \in [Request -> PC]
         /\ cur' \in [Request -> Request \union {NoReq}]
         /\ to' \in [Request -> Conn \union {NoConn}]
         /\ via' \in [Request -> Request \union {NoReq}]
         /\ tried' \in [Request -> SUBSET Request]
<1>1. Candidates(a, b, done, pm, ks) \subseteq Request
  BY DEF Candidates
<1>2. CASE Candidates(a, b, done, pm, ks) = {}
  BY <1>2 DEF ConsumeNext, TypeOK, Goto, PC
<1>3. CASE Candidates(a, b, done, pm, ks) # {}
  <2>1. PICK p \in Candidates(a, b, done, pm, ks) :
          /\ Goto(r, IF rcv[b] \in transports /\ p \in live
                     THEN "consuming" ELSE "doomed")
          /\ cur' = [cur EXCEPT ![r] = p]
          /\ to' = [to EXCEPT ![r] = b]
          /\ via' = [via EXCEPT ![r] = rcv[b]]
          /\ tried' = [tried EXCEPT ![r] = done \union {p}]
    BY <1>3 DEF ConsumeNext
  <2>2. p \in Request /\ rcv[b] \in Request \union {NoReq}
    BY <1>1 DEF TypeOK
  <2> QED
    BY <2>1, <2>2 DEF TypeOK, Goto, PC
<1> QED
  BY <1>2, <1>3

\* So does one turn of the loop over the other clients.
LEMMA LoopStepType ==
  ASSUME TypeOK, NEW r \in Request, NEW pm \in SUBSET Request, LoopStep(r, pm)
  PROVE  LoopType'
<1>1. CASE Unvisited(r) = {} /\ Goto(r, "done") /\ UNCHANGED loopVars
  BY <1>1 DEF TypeOK, LoopType, Goto, PC, loopVars
<1>2. ASSUME NEW i \in Unvisited(r), NEW a, NEW b,
             a = IF IsJoin(r) THEN clients[i] ELSE clients[IdOf[From[r]]],
             b = IF IsJoin(r) THEN clients[IdOf[From[r]]] ELSE clients[i],
             seen' = [seen EXCEPT ![r] = seen[r] \union {i}],
             IF a = NoConn \/ b = NoConn
             THEN Goto(r, "outer") /\ UNCHANGED <<cur, to, via, tried>>
             ELSE ConsumeNext(r, a, b, {}, pm, consumers)
      PROVE  LoopType'
  <2>1. seen' \in [Request -> SUBSET ClientId]
    BY <1>2 DEF TypeOK, Unvisited
  <2>2. a \in Conn \union {NoConn} /\ b \in Conn \union {NoConn}
    BY <1>2, ConstantsAssumption DEF TypeOK, Unvisited
  <2>3. CASE a = NoConn \/ b = NoConn
    BY <1>2, <2>1, <2>3 DEF TypeOK, LoopType, Goto, PC
  <2>4. CASE ~(a = NoConn \/ b = NoConn)
    BY <1>2, <2>1, <2>2, <2>4, ConsumeNextType DEF LoopType
  <2> QED
    BY <2>3, <2>4
<1> QED
  BY <1>1, <1>2 DEF LoopStep

\* Closing transports keeps the worker's sets and the Maps well typed.
LEMMA CloseTransportsType ==
  ASSUME TypeOK, NEW T, NEW open, CloseTransports(T, open)
  PROVE  /\ transports' \subseteq Request
         /\ live' \subseteq Request
         /\ prodMap' \subseteq Request
         /\ consumers' \subseteq Consumer
         /\ view' \subseteq Consumer
  BY DEF TypeOK, CloseTransports

\* The initial state of a room is well typed.
LEMMA InitType == Init => TypeOK
  BY ConstantsAssumption DEF Init, TypeOK, PC

\* Every handler keeps the room well typed; a consumer record is complete
\* because the handler that waits for it knows its producer and its client.
LEMMA NextType ==
  ASSUME TypeOK, HandlerInv, [Next]_vars
  PROVE  TypeOK'
<1> USE DEF clientVars, transportVars, mediaVars, loopVars, consumerVars
<1>1. ASSUME NEW c \in Conn, Add(c) PROVE TypeOK'
  <2>1. IdOf[c] \in ClientId
    BY ConstantsAssumption
  <2> QED
    BY <1>1, <2>1 DEF Add, TypeOK
<1>2. ASSUME NEW c \in Conn, ClientClosed(c) PROVE TypeOK'
  <2>1. PICK T, open : CloseTransports(T, open)
    BY <1>2 DEF ClientClosed
  <2>2. /\ status' \in [Conn -> {"absent", "open", "closed"}]
        /\ clients' \in [ClientId -> Conn \union {NoConn}]
        /\ seen' \in [Request -> SUBSET ClientId]
        /\ room' \in {"open", "closed"}
        /\ router' \in {"open", "closed"}
    BY <1>2 DEF ClientClosed, Without, TypeOK
  <2> QED
    BY <1>2, <2>1, <2>2, CloseTransportsType DEF ClientClosed, TypeOK
<1>3. ASSUME RouterClosed PROVE TypeOK'
  <2>1. pc' \in [Request -> PC]
    BY <1>3 DEF RouterClosed, TypeOK, PC
  <2>2. PICK T, open : CloseTransports(T, open)
    BY <1>3 DEF RouterClosed
  <2> QED
    BY <1>3, <2>1, <2>2, CloseTransportsType DEF RouterClosed, TypeOK
<1>4. ASSUME NEW r \in Request, GetRouterCapabilities(r) PROVE TypeOK'
  BY <1>4 DEF GetRouterCapabilities, Arrives, Answer, Goto, TypeOK, PC
<1>5. ASSUME NEW r \in Request, ClientRtpCapabilities(r) PROVE TypeOK'
  BY <1>5, ConstantsAssumption DEF ClientRtpCapabilities, Arrives, Goto, TypeOK, PC
<1>6. ASSUME NEW r \in Request, CreateTransport(r) PROVE TypeOK'
  <2>1. pc' \in [Request -> PC] /\ transports' \subseteq Request
    BY <1>6 DEF CreateTransport, Goto, TypeOK, PC
  <2> QED
    BY <1>6, <2>1 DEF CreateTransport, TypeOK
<1>7. ASSUME NEW r \in Request, TransportCreated(r) PROVE TypeOK'
  <2>1. /\ pc' \in [Request -> PC]
        /\ snd' \in [Conn -> Request \union {NoReq}]
        /\ rcv' \in [Conn -> Request \union {NoReq}]
        /\ answered' \subseteq Request
    BY <1>7 DEF TransportCreated, Answer, Goto, TypeOK, PC
  <2> QED
    BY <1>7, <2>1 DEF TransportCreated, TypeOK
<1>8. ASSUME NEW r \in Request, AwaitWorker(r) PROVE TypeOK'
  BY <1>8 DEF AwaitWorker, Goto, TypeOK, PC
<1>9. ASSUME NEW r \in Request, WorkerAcked(r) PROVE TypeOK'
  BY <1>9 DEF WorkerAcked, Answer, Goto, TypeOK, PC
<1>10. ASSUME NEW r \in Request, JoinCall(r) PROVE TypeOK'
  <2>1. LoopType'
    BY <1>10, LoopStepType DEF JoinCall, TypeOK
  <2>2. ready' \subseteq Request /\ answered' \subseteq Request
    BY <1>10 DEF JoinCall, Answer, TypeOK
  <2> QED
    BY <1>10, <2>1, <2>2 DEF JoinCall, TypeOK, LoopType
<1>11. ASSUME NEW r \in Request, CreateProducer(r) PROVE TypeOK'
  <2>1. snd[From[r]] \in Request \union {NoReq}
    BY ConstantsAssumption DEF TypeOK
  <2>2. /\ pc' \in [Request -> PC]
        /\ host' \in [Request -> Request \union {NoReq}]
        /\ live' \subseteq Request
    BY <1>11, <2>1 DEF CreateProducer, Goto, TypeOK, PC
  <2> QED
    BY <1>11, <2>2 DEF CreateProducer, TypeOK
<1>12. ASSUME NEW r \in Request, ProducerCreated(r) PROVE TypeOK'
  <2>1. prodMap' \in SUBSET Request /\ answered' \subseteq Request
    BY <1>12 DEF ProducerCreated, Answer, TypeOK
  <2>2. LoopType'
    BY <1>12, <2>1, LoopStepType DEF ProducerCreated
  <2> QED
    BY <1>12, <2>1, <2>2 DEF ProducerCreated, TypeOK, LoopType
<1>13. ASSUME NEW r \in Request, NextClient(r) PROVE TypeOK'
  <2>1. LoopType'
    BY <1>13, LoopStepType DEF NextClient, TypeOK
  <2>2. answered' \subseteq Request
    BY <1>13 DEF NextClient, Answer, TypeOK
  <2> QED
    BY <1>13, <2>1, <2>2 DEF NextClient, TypeOK, LoopType
<1>14. ASSUME NEW r \in Request, ConsumerCreated(r) PROVE TypeOK'
  <2> DEFINE k == [task |-> r, prod |-> cur[r], conn |-> to[r], via |-> via[r]]
  <2>1. Pending(r)
    BY <1>14 DEF ConsumerCreated, HandlerInv
  <2>2. k \in Consumer
    BY <2>1 DEF Pending, Consumer
  <2>3. consumers' \subseteq Consumer /\ view' \subseteq Consumer
    BY <1>14, <2>2 DEF ConsumerCreated, TypeOK
  <2>4. From[cur[r]] \in Conn /\ tried[r] \in SUBSET Request /\ prodMap \in SUBSET Request
    BY <2>1, ConstantsAssumption DEF Pending, TypeOK
  <2>5. ConsumeNext(r, From[cur[r]], to[r], tried[r], prodMap, consumers')
    BY <1>14 DEF ConsumerCreated
  <2>6. /\ pc' \in [Request -> PC]
        /\ cur' \in [Request -> Request \union {NoReq}]
        /\ to' \in [Request -> Conn \union {NoConn}]
        /\ via' \in [Request -> Request \union {NoReq}]
        /\ tried' \in [Request -> SUBSET Request]
    BY <2>1, <2>4, <2>5, ConsumeNextType DEF Pending
  <2> QED
    BY <1>14, <2>3, <2>6 DEF ConsumerCreated, TypeOK
<1>15. ASSUME NEW k \in consumers, ConsumerClosed(k) PROVE TypeOK'
  BY <1>15 DEF ConsumerClosed, TypeOK
<1>16. ASSUME NEW r \in Request, UnhandledRejection(r) PROVE TypeOK'
  BY <1>16 DEF UnhandledRejection, TypeOK
<1>17. CASE UNCHANGED vars
  BY <1>17 DEF vars, TypeOK
<1> QED
  BY <1>1, <1>2, <1>3, <1>4, <1>5, <1>6, <1>7, <1>8, <1>9, <1>10, <1>11, <1>12,
     <1>13, <1>14, <1>15, <1>16, <1>17 DEF Next, Receive, Continue

-----------------------------------------------------------------------------
(* What a stretch of a loop does to its handler, and to no other.          *)

Frame(r) ==
  \A q \in Request \ {r} :
    /\ pc'[q] = pc[q]
    /\ seen'[q] = seen[q]
    /\ cur'[q] = cur[q]
    /\ to'[q] = to[q]
    /\ via'[q] = via[q]
    /\ tried'[q] = tried[q]

\* The consume a handler waits for next is one between clients of different
\* clientIds, on a transport of the consuming client.
WaitsFor(r) ==
  /\ cur'[r] \in Request
  /\ to'[r] \in Conn
  /\ via'[r] \in Request
  /\ From[via'[r]] = to'[r]
  /\ status[to'[r]] # "absent"
  /\ IdOf[From[cur'[r]]] # IdOf[to'[r]]

\* Where _consumeClient stands after a stretch that found the producers cand
\* left to consume for b: at its end, or at the consume of one of them.
Consuming(r, b, done, cand) ==
  /\ pc'[r] \in {"outer", "consuming", "doomed"}
  /\ pc'[r] = "outer" => cand = {}
  /\ pc'[r] = "consuming" =>
       /\ WaitsFor(r)
       /\ cur'[r] \in cand
       /\ to'[r] = b
       /\ via'[r] = rcv[b]
       /\ tried'[r] = done \union {cur'[r]}

\* The next await of _consumeClient(a, b), whatever it has consumed so far.
LEMMA ConsumeNextEffect ==
  ASSUME TypeOK, OwnerInv, NEW r \in Request, NEW a \in Conn, NEW b \in Conn,
         IdOf[a] # IdOf[b], status[b] # "absent",
         NEW done \in SUBSET Request, NEW pm \in SUBSET Request, NEW ks,
         \A q \in Request \ {r} : seen'[q] = seen[q],
         ConsumeNext(r, a, b, done, pm, ks)
  PROVE  Frame(r) /\ Consuming(r, b, done, Candidates(a, b, done, pm, ks))
<1>1. CASE Candidates(a, b, done, pm, ks) = {}
  BY <1>1 DEF ConsumeNext, TypeOK, Goto, Frame, Consuming
<1>2. CASE Candidates(a, b, done, pm, ks) # {}
  <2>1. PICK p \in Candidates(a, b, done, pm, ks) :
          /\ Goto(r, IF rcv[b] \in transports /\ p \in live
                     THEN "consuming" ELSE "doomed")
          /\ cur' = [cur EXCEPT ![r] = p]
          /\ to' = [to EXCEPT ![r] = b]
          /\ via' = [via EXCEPT ![r] = rcv[b]]
          /\ tried' = [tried EXCEPT ![r] = done \union {p}]
    BY <1>2 DEF ConsumeNext
  <2>2. p \in Request /\ From[p] = a /\ rcv[b] \in Request /\ From[rcv[b]] = b
    BY <2>1 DEF Candidates, TypeOK, OwnerInv
  <2>3. /\ pc'[r] = IF rcv[b] \in transports /\ p \in live THEN "consuming" ELSE "doomed"
        /\ cur'[r] = p /\ to'[r] = b /\ via'[r] = rcv[b] /\ tried'[r] = done \union {p}
    BY <2>1 DEF TypeOK, Goto
  <2>4. Frame(r)
    BY <2>1 DEF TypeOK, Goto, Frame
  <2> QED
    BY <2>1, <2>2, <2>3, <2>4 DEF WaitsFor, Consuming
<1> QED
  BY <1>1, <1>2

\* One turn of the loop: it ends when no key is left to visit, and otherwise
\* visits one key and runs _consumeClient for it.
LEMMA LoopStepEffect ==
  ASSUME TypeOK, RegisteredIsOpen, OwnerInv,
         NEW r \in Request, NEW pm \in SUBSET Request, LoopStep(r, pm)
  PROVE  /\ Frame(r)
         /\ \/ pc'[r] = "done" /\ seen'[r] = seen[r] /\ Unvisited(r) = {}
            \/ \E i \in Unvisited(r) :
                 LET a == IF IsJoin(r) THEN clients[i] ELSE clients[IdOf[From[r]]]
                     b == IF IsJoin(r) THEN clients[IdOf[From[r]]] ELSE clients[i]
                 IN /\ seen'[r] = seen[r] \union {i}
                    /\ \/ (a = NoConn \/ b = NoConn) /\ pc'[r] = "outer"
                       \/ Consuming(r, b, {}, Candidates(a, b, {}, pm, consumers))
<1>1. CASE Unvisited(r) = {} /\ Goto(r, "done") /\ UNCHANGED loopVars
  BY <1>1 DEF TypeOK, Goto, Frame, loopVars
<1>2. CASE \E i \in Unvisited(r) :
       LET own == IdOf[From[r]]
           a == IF IsJoin(r) THEN clients[i] ELSE clients[own]
           b == IF IsJoin(r) THEN clients[own] ELSE clients[i]
       IN /\ seen' = [seen EXCEPT ![r] = seen[r] \union {i}]
          /\ IF a = NoConn \/ b = NoConn
             THEN Goto(r, "outer") /\ UNCHANGED <<cur, to, via, tried>>
             ELSE ConsumeNext(r, a, b, {}, pm, consumers)
  <2>1. PICK i \in Unvisited(r) :
       LET own == IdOf[From[r]]
           a == IF IsJoin(r) THEN clients[i] ELSE clients[own]
           b == IF IsJoin(r) THEN clients[own] ELSE clients[i]
       IN /\ seen' = [seen EXCEPT ![r] = seen[r] \union {i}]
          /\ IF a = NoConn \/ b = NoConn
             THEN Goto(r, "outer") /\ UNCHANGED <<cur, to, via, tried>>
             ELSE ConsumeNext(r, a, b, {}, pm, consumers)
    BY <1>2
  <2> DEFINE a == IF IsJoin(r) THEN clients[i] ELSE clients[IdOf[From[r]]]
             b == IF IsJoin(r) THEN clients[IdOf[From[r]]] ELSE clients[i]
  <2>2. /\ i \in ClientId /\ clients[i] # NoConn /\ i # IdOf[From[r]]
        /\ IdOf[From[r]] \in ClientId
    BY <2>1, ConstantsAssumption DEF Unvisited
  <2>3. /\ seen' \in [Request -> SUBSET ClientId]
        /\ seen'[r] = seen[r] \union {i}
        /\ \A q \in Request \ {r} : seen'[q] = seen[q]
    BY <2>1, <2>2 DEF TypeOK
  <2>4. CASE a = NoConn \/ b = NoConn
    <3>1. Goto(r, "outer") /\ UNCHANGED <<cur, to, via, tried>>
      BY <2>1, <2>4
    <3>2. pc'[r] = "outer" /\ Frame(r)
      BY <3>1, <2>3 DEF TypeOK, Goto, Frame
    <3> QED
      BY <2>1, <2>3, <2>4, <3>2
  <2>5. CASE ~(a = NoConn \/ b = NoConn)
    <3>1. ConsumeNext(r, a, b, {}, pm, consumers)
      BY <2>1, <2>5
    <3>2. a \in Conn /\ b \in Conn /\ IdOf[a] # IdOf[b] /\ status[b] # "absent"
      BY <2>2, <2>5, ConstantsAssumption DEF TypeOK, RegisteredIsOpen
    <3> HIDE DEF a, b
    <3>3. {} \in SUBSET Request
      OBVIOUS
    <3>4. Frame(r) /\ Consuming(r, b, {}, Candidates(a, b, {}, pm, consumers))
      BY <3>1, <3>2, <2>3, <3>3, ConsumeNextEffect
    <3> QED
      BY <2>1, <2>3, <3>4 DEF a, b
  <2> QED
    BY <2>4, <2>5
<1> QED
  BY <1>1, <1>2 DEF LoopStep

-----------------------------------------------------------------------------
(* The inductive invariant.                                                *)

IInv ==
  /\ TypeOK
  /\ RegisteredIsOpen
  /\ HandlerInv
  /\ OwnerInv
  /\ LiveInv
  /\ RouterInv
  /\ MeshInv

\* The close listener deletes the entry of the client that closes, and add
\* makes one for a client that is open.
LEMMA RegisteredStep ==
  ASSUME IInv, [Next]_vars
  PROVE  RegisteredIsOpen'
<1> USE DEF IInv, clientVars
<1>1. ASSUME NEW c \in Conn, Add(c) PROVE RegisteredIsOpen'
  BY <1>1, ConstantsAssumption DEF Add, TypeOK, RegisteredIsOpen
<1>2. ASSUME NEW c \in Conn, ClientClosed(c) PROVE RegisteredIsOpen'
  BY <1>2, ConstantsAssumption DEF ClientClosed, Without, TypeOK, RegisteredIsOpen
<1>3. CASE UNCHANGED <<status, clients>>
  BY <1>3 DEF RegisteredIsOpen
<1> QED
  BY <1>1, <1>2, <1>3 DEF Next, Receive, Continue, RouterClosed, GetRouterCapabilities,
     ClientRtpCapabilities, CreateTransport, TransportCreated, AwaitWorker, WorkerAcked,
     JoinCall, CreateProducer, ProducerCreated, NextClient, ConsumerCreated,
     ConsumerClosed, UnhandledRejection, vars

\* The three handlers that run a loop, seen from the loop: the handler waited
\* before it or was idle, and pm holds the producers it can see.
LEMMA LoopHandlers ==
  ASSUME TypeOK, NEW r \in Request, JoinCall(r) \/ ProducerCreated(r) \/ NextClient(r)
  PROVE  /\ prodMap' \in SUBSET Request /\ LoopStep(r, prodMap')
         /\ prodMap \subseteq prodMap'
         /\ pc[r] \in {"idle", "producing", "outer"}
         /\ UNCHANGED <<clientVars, transportVars, host, live, consumerVars, up>>
<1>1. CASE JoinCall(r)
  BY <1>1 DEF JoinCall, Arrives, TypeOK, mediaVars
<1>2. CASE NextClient(r)
  BY <1>2 DEF NextClient, TypeOK, mediaVars
<1>3. CASE ProducerCreated(r)
  BY <1>3 DEF ProducerCreated, TypeOK
<1> QED
  BY <1>1, <1>2, <1>3

\* What the locals of a waiting handler say stays true while others run.
LEMMA HandlerStep ==
  ASSUME IInv, [Next]_vars
  PROVE  HandlerInv'
<1> USE DEF IInv, clientVars, transportVars, mediaVars, loopVars, consumerVars
<1>1. ASSUME NEW c \in Conn, Add(c) PROVE HandlerInv'
  BY <1>1, ConstantsAssumption DEF Add, TypeOK, HandlerInv, Pending
<1>2. ASSUME NEW c \in Conn, ClientClosed(c) PROVE HandlerInv'
  <2>1. prodMap' \subseteq prodMap
    BY <1>2 DEF ClientClosed, CloseTransports
  <2> QED
    BY <1>2, <2>1, ConstantsAssumption DEF ClientClosed, TypeOK, HandlerInv, Pending
<1>3. ASSUME RouterClosed PROVE HandlerInv'
  <2>1. prodMap' \subseteq prodMap
    BY <1>3 DEF RouterClosed, CloseTransports
  <2>2. \A r \in Request :
          /\ pc'[r] = "idle" <=> pc[r] = "idle"
          /\ pc'[r] # "producing" /\ pc'[r] # "consuming"
    BY <1>3 DEF RouterClosed, TypeOK
  <2> QED
    BY <1>3, <2>1, <2>2 DEF RouterClosed, HandlerInv
<1>4. ASSUME NEW r \in Request, GetRouterCapabilities(r) PROVE HandlerInv'
  BY <1>4 DEF GetRouterCapabilities, Arrives, Goto, TypeOK, HandlerInv, Pending
<1>5. ASSUME NEW r \in Request, ClientRtpCapabilities(r) PROVE HandlerInv'
  BY <1>5 DEF ClientRtpCapabilities, Arrives, Goto, TypeOK, HandlerInv, Pending
<1>6. ASSUME NEW r \in Request, CreateTransport(r) PROVE HandlerInv'
  BY <1>6 DEF CreateTransport, Arrives, Goto, TypeOK, HandlerInv, Pending
<1>7. ASSUME NEW r \in Request, TransportCreated(r) PROVE HandlerInv'
  BY <1>7, ConstantsAssumption DEF TransportCreated, Goto, TypeOK, HandlerInv, Pending
<1>8. ASSUME NEW r \in Request, AwaitWorker(r) PROVE HandlerInv'
  BY <1>8 DEF AwaitWorker, Arrives, Goto, TypeOK, HandlerInv, Pending
<1>9. ASSUME NEW r \in Request, WorkerAcked(r) PROVE HandlerInv'
  BY <1>9 DEF WorkerAcked, Goto, TypeOK, HandlerInv, Pending
<1>10. ASSUME NEW r \in Request, CreateProducer(r) PROVE HandlerInv'
  BY <1>10 DEF CreateProducer, Arrives, Goto, TypeOK, HandlerInv, Pending, IsJoin
<1>11. ASSUME NEW r \in Request, JoinCall(r) \/ ProducerCreated(r) \/ NextClient(r)
       PROVE HandlerInv'
  <2>1. /\ prodMap' \in SUBSET Request /\ LoopStep(r, prodMap')
        /\ pc[r] \in {"idle", "producing", "outer"}
        /\ UNCHANGED <<clientVars, transportVars, host, live, consumerVars, up>>
    BY <1>11, LoopHandlers
  <2>2. /\ Frame(r)
        /\ pc'[r] \in {"outer", "consuming", "doomed", "done"}
        /\ pc'[r] = "consuming" => WaitsFor(r)
    BY <2>1, LoopStepEffect DEF Consuming
  <2>3. /\ status[From[r]] # "absent"
        /\ \A q \in Request \ {r} : q \in ready' <=> q \in ready
        /\ \A q \in Request \ {r} : q \in prodMap' <=> q \in prodMap
        /\ r \in ready' => IsJoin(r) /\ From[r] \in caps /\ rcv[From[r]] # NoReq
        /\ r \in prodMap' => ~IsJoin(r)
    BY <1>11, ConstantsAssumption
    DEF JoinCall, ProducerCreated, NextClient, Arrives, HandlerInv, IsJoin
  <2>4. pc'[r] = "consuming" => Pending(r)'
    BY <2>1, <2>2 DEF WaitsFor, Pending
  <2> QED
    BY <2>1, <2>2, <2>3, <2>4 DEF HandlerInv, Frame, Pending
<1>12. ASSUME NEW r \in Request, ConsumerCreated(r) PROVE HandlerInv'
  <2>1. Pending(r) /\ pc[r] = "consuming"
    BY <1>12 DEF ConsumerCreated, HandlerInv
  <2>2. /\ From[cur[r]] \in Conn /\ to[r] \in Conn
        /\ tried[r] \in SUBSET Request /\ prodMap \in SUBSET Request
        /\ IdOf[From[cur[r]]] # IdOf[to[r]] /\ status[to[r]] # "absent"
        /\ \A q \in Request \ {r} : seen'[q] = seen[q]
    BY <1>12, <2>1, ConstantsAssumption DEF Pending, TypeOK, ConsumerCreated
  <2>3. ConsumeNext(r, From[cur[r]], to[r], tried[r], prodMap, consumers')
    BY <1>12 DEF ConsumerCreated
  <2>4. Frame(r) /\ Consuming(r, to[r], tried[r],
                     Candidates(From[cur[r]], to[r], tried[r], prodMap, consumers'))
    BY <2>2, <2>3, ConsumeNextEffect
  <2>5. pc'[r] = "consuming" => Pending(r)'
    BY <1>12, <2>4 DEF ConsumerCreated, Consuming, WaitsFor, Pending
  <2> QED
    BY <1>12, <2>1, <2>4, <2>5 DEF ConsumerCreated, HandlerInv, Frame, Pending, Consuming
<1>13. ASSUME NEW k \in consumers, ConsumerClosed(k) PROVE HandlerInv'
  BY <1>13 DEF ConsumerClosed, HandlerInv, Pending
<1>14. ASSUME NEW r \in Request, UnhandledRejection(r) PROVE HandlerInv'
  BY <1>14 DEF UnhandledRejection, HandlerInv, Pending
<1>15. CASE UNCHANGED vars
  BY <1>15 DEF vars, HandlerInv, Pending
<1> QED
  BY <1>1, <1>2, <1>3, <1>4, <1>5, <1>6, <1>7, <1>8, <1>9, <1>10, <1>11, <1>12,
     <1>13, <1>14, <1>15 DEF Next, Receive, Continue

\* Transports and consumers stay with the connection they were made for.
LEMMA OwnerStep ==
  ASSUME IInv, [Next]_vars
  PROVE  OwnerInv'
<1> USE DEF IInv, clientVars, transportVars, mediaVars, loopVars, consumerVars
<1>1. ASSUME NEW c \in Conn, Add(c) PROVE OwnerInv'
  BY <1>1 DEF Add, TypeOK, OwnerInv, Consumer
<1>2. ASSUME NEW c \in Conn, ClientClosed(c) PROVE OwnerInv'
  <2>1. /\ live' \subseteq live
        /\ consumers' \subseteq consumers
        /\ view' \subseteq view
    BY <1>2 DEF ClientClosed, CloseTransports
  <2>2. \A d \in Conn : status'[d] = "absent" => status[d] = "absent"
    BY <1>2 DEF ClientClosed, TypeOK
  <2>3. \A k \in consumers \union view : k.conn \in Conn
    BY DEF TypeOK, Consumer
  <2> QED
    BY <1>2, <2>1, <2>2, <2>3 DEF ClientClosed, OwnerInv
<1>3. ASSUME RouterClosed PROVE OwnerInv'
  <2>1. /\ live' \subseteq live
        /\ consumers' \subseteq consumers
        /\ view' \subseteq view
    BY <1>3 DEF RouterClosed, CloseTransports
  <2> QED
    BY <1>3, <2>1 DEF RouterClosed, OwnerInv
<1>4. ASSUME NEW r \in Request, TransportCreated(r) PROVE OwnerInv'
  BY <1>4, ConstantsAssumption DEF TransportCreated, TypeOK, OwnerInv
<1>5. ASSUME NEW r \in Request, CreateProducer(r) PROVE OwnerInv'
  BY <1>5, ConstantsAssumption DEF CreateProducer, TypeOK, OwnerInv
<1>6. ASSUME NEW r \in Request, JoinCall(r) \/ ProducerCreated(r) \/ NextClient(r)
      PROVE OwnerInv'
  BY <1>6, LoopHandlers DEF OwnerInv
<1>7. ASSUME NEW r \in Request, ConsumerCreated(r) PROVE OwnerInv'
  <2>1. Pending(r)
    BY <1>7 DEF ConsumerCreated, HandlerInv
  <2> QED
    BY <1>7, <2>1 DEF ConsumerCreated, OwnerInv, Pending
<1>8. ASSUME NEW k \in consumers, ConsumerClosed(k) PROVE OwnerInv'
  BY <1>8 DEF ConsumerClosed, OwnerInv
<1>9. CASE UNCHANGED <<status, snd, rcv, host, live, consumers, view>>
  BY <1>9 DEF OwnerInv
<1> QED
  BY <1>1, <1>2, <1>3, <1>4, <1>5, <1>6, <1>7, <1>8, <1>9
  DEF Next, Receive, Continue, GetRouterCapabilities, ClientRtpCapabilities,
      CreateTransport, AwaitWorker, WorkerAcked, UnhandledRejection, vars

\* A transport that ClientClosed(c) closes is one of c, unless the room empties.
LEMMA ClosedTransports ==
  ASSUME IInv, NEW c \in Conn, ClientClosed(c), NEW d \in Conn, Registered(d)'
  PROVE  /\ d # c /\ Registered(d)
         /\ \E T, open :
              /\ CloseTransports(T, open)
              /\ \A t \in T \intersect Request : From[t] = c
<1> USE DEF IInv
<1>1. /\ clients' = Without(c) /\ IdOf[d] \in ClientId
      /\ Without(c) = [clients EXCEPT ![IdOf[c]] = NoConn]
  BY ConstantsAssumption DEF ClientClosed, Without
<1>2. d # c /\ IdOf[d] # IdOf[c] /\ Registered(d)
  BY <1>1, ConstantsAssumption DEF Registered, TypeOK
<1>3. ~IsEmpty(Without(c))
  BY <1>1, ConstantsAssumption DEF Registered, IsEmpty
<1>4. \E open : CloseTransports(transports \intersect {snd[c], rcv[c]}, open)
  BY <1>3 DEF ClientClosed
<1>5. \A t \in transports \intersect {snd[c], rcv[c]} : t \in Request => From[t] = c
  BY ConstantsAssumption DEF OwnerInv, TypeOK
<1> QED
  BY <1>2, <1>4, <1>5

\* A producer in the Map of a registered client is open in the worker.
LEMMA LiveStep ==
  ASSUME IInv, [Next]_vars
  PROVE  LiveInv'
<1> USE DEF IInv, clientVars, transportVars, mediaVars, loopVars, consumerVars
<1>1. ASSUME NEW c \in Conn, Add(c) PROVE LiveInv'
  BY <1>1, ConstantsAssumption DEF Add, TypeOK, LiveInv, HandlerInv, Registered
<1>2. ASSUME NEW c \in Conn, ClientClosed(c) PROVE LiveInv'
  <2> SUFFICES ASSUME NEW p \in Request, p \in prodMap' \/ pc'[p] = "producing",
                      Registered(From[p])'
               PROVE  p \in live'
    BY DEF LiveInv
  <2>1. From[p] \in Conn
    BY ConstantsAssumption
  <2>2. PICK T, open : /\ CloseTransports(T, open)
                       /\ \A t \in T \intersect Request : From[t] = c
    BY <1>2, <2>1, ClosedTransports
  <2>3. From[p] # c /\ Registered(From[p])
    BY <1>2, <2>1, ClosedTransports
  <2>4. prodMap' \subseteq prodMap /\ pc' = pc
    BY <1>2, <2>2 DEF ClientClosed, CloseTransports
  <2>5. p \in live /\ host[p] \in Request /\ From[host[p]] = From[p]
    BY <2>3, <2>4 DEF LiveInv, OwnerInv
  <2> QED
    BY <2>2, <2>3, <2>5 DEF CloseTransports
<1>3. ASSUME RouterClosed PROVE LiveInv'
  <2> SUFFICES ASSUME NEW p \in Request, p \in prodMap' \/ pc'[p] = "producing",
                      Registered(From[p])
               PROVE  p \in live'
    BY <1>3 DEF LiveInv, RouterClosed, Registered
  <2>1. pc'[p] # "producing"
    BY <1>3 DEF RouterClosed, TypeOK
  <2>2. p \in prodMap /\ host[p] \notin transports
    BY <1>3, <2>1 DEF RouterClosed, CloseTransports
  <2>3. p \in live
    BY <2>2 DEF LiveInv
  <2> QED
    BY <1>3, <2>2, <2>3 DEF RouterClosed, CloseTransports
<1>4. ASSUME NEW r \in Request, CreateProducer(r) PROVE LiveInv'
  BY <1>4 DEF CreateProducer, Goto, TypeOK, LiveInv, Registered
<1>5. ASSUME NEW r \in Request, JoinCall(r) \/ ProducerCreated(r) \/ NextClient(r)
      PROVE LiveInv'
  <2>1. /\ prodMap' \in SUBSET Request /\ LoopStep(r, prodMap')
        /\ UNCHANGED <<clientVars, transportVars, host, live, consumerVars, up>>
    BY <1>5, LoopHandlers
  <2>2. Frame(r) /\ pc'[r] # "producing"
    BY <2>1, LoopStepEffect DEF Consuming
  <2>3. prodMap' \subseteq prodMap \union {r}
    BY <1>5 DEF JoinCall, ProducerCreated, NextClient
  <2>4. r \in prodMap' => r \in prodMap \/ pc[r] = "producing"
    BY <1>5 DEF JoinCall, ProducerCreated, NextClient
  <2> QED
    BY <2>1, <2>2, <2>3, <2>4 DEF LiveInv, Frame, Registered
<1>6. ASSUME NEW r \in Request, ConsumerCreated(r) PROVE LiveInv'
  <2>1. \A q \in Request : pc'[q] = "producing" => pc[q] = "producing"
    BY <1>6 DEF ConsumerCreated, ConsumeNext, Goto, TypeOK
  <2> QED
    BY <1>6, <2>1 DEF ConsumerCreated, LiveInv, Registered
<1>7. ASSUME NEW r \in Request,
             \/ GetRouterCapabilities(r) \/ ClientRtpCapabilities(r) \/ CreateTransport(r)
             \/ TransportCreated(r) \/ AwaitWorker(r) \/ WorkerAcked(r)
      PROVE  LiveInv'
  <2>1. /\ \A q \in Request : pc'[q] = "producing" => pc[q] = "producing"
        /\ UNCHANGED <<clients, prodMap, live>>
    BY <1>7 DEF GetRouterCapabilities, ClientRtpCapabilities, CreateTransport,
       TransportCreated, AwaitWorker, WorkerAcked, Goto, TypeOK
  <2> QED
    BY <2>1 DEF LiveInv, Registered
<1>8. CASE UNCHANGED <<clients, prodMap, pc, live>>
  BY <1>8 DEF LiveInv, Registered
<1> QED
  BY <1>1, <1>2, <1>3, <1>4, <1>5, <1>6, <1>7, <1>8
  DEF Next, Receive, Continue, ConsumerClosed, UnhandledRejection, vars

\* Every transport goes when the router closes, and none is made after.
LEMMA ClosedRouterStep ==
  ASSUME IInv, [Next]_vars
  PROVE  RouterInv'
<1> USE DEF IInv, transportVars, mediaVars
<1>1. ASSUME NEW c \in Conn, ClientClosed(c) PROVE RouterInv'
  BY <1>1 DEF ClientClosed, CloseTransports, RouterInv
<1>2. ASSUME RouterClosed PROVE RouterInv'
  BY <1>2 DEF RouterClosed, CloseTransports, RouterInv
<1>3. ASSUME NEW r \in Request, CreateTransport(r) PROVE RouterInv'
  BY <1>3 DEF CreateTransport, RouterInv
<1>4. ASSUME NEW r \in Request, CreateProducer(r) PROVE RouterInv'
  BY <1>4 DEF CreateProducer, RouterInv, TypeOK
<1>5. ASSUME NEW r \in Request, JoinCall(r) \/ ProducerCreated(r) \/ NextClient(r)
      PROVE RouterInv'
  BY <1>5, LoopHandlers DEF RouterInv
<1>6. CASE UNCHANGED <<router, transports, host, live>>
  BY <1>6 DEF RouterInv
<1> QED
  BY <1>1, <1>2, <1>3, <1>4, <1>5, <1>6
  DEF Next, Receive, Continue, Add, GetRouterCapabilities, ClientRtpCapabilities,
      TransportCreated, AwaitWorker, WorkerAcked, ConsumerCreated, ConsumerClosed,
      UnhandledRejection, vars

-----------------------------------------------------------------------------
(* No pair of clients is left unconnected.                                 *)

\* Steps that leave the running loops alone leave a served pair served.
LEMMA ServedFrame ==
  ASSUME NEW j \in Request, NEW p \in Request, Served(j, p),
         Consumes(consumers, From[j], p) => Consumes(consumers', From[j], p),
         \A q \in Request : pc[q] \in {"outer", "consuming", "doomed"} =>
           /\ pc'[q] = pc[q]
           /\ seen'[q] \subseteq seen[q]
           /\ cur'[q] = cur[q]
           /\ to'[q] = to[q]
           /\ tried'[q] = tried[q]
  PROVE  Served(j, p)'
  BY DEF Served, OnTheWay, Consumes

\* A loop over candidates of the pair ends with the pair consumed, waits for
\* one of them, or is refused by the worker.
LEMMA ConsumingServes ==
  ASSUME TypeOK, NEW j \in Request, NEW p \in Request, NEW r \in {j, p},
         NEW done \in SUBSET Request, NEW pm \in SUBSET Request, p \in pm, p \notin done,
         From[j] \in caps, rcv[From[j]] # NoReq,
         Consuming(r, From[j], done,
                   Candidates(From[p], From[j], done, pm, consumers'))
  PROVE  Served(j, p)'
<1> DEFINE cand == Candidates(From[p], From[j], done, pm, consumers')
<1>1. cand = {q \in pm : From[q] = From[p] /\ q \notin done /\ ~Consumes(consumers', From[j], q)}
  BY DEF Candidates
<1>2. CASE pc'[r] = "outer"
  <2>1. Consumes(consumers', From[j], p)
    BY <1>1, <1>2 DEF Consuming
  <2> QED
    BY <2>1 DEF Served, Consumes
<1>3. CASE pc'[r] = "consuming"
  <2>1. /\ From[cur'[r]] = From[p]
        /\ to'[r] = From[j]
        /\ tried'[r] = done \union {cur'[r]}
    BY <1>1, <1>3 DEF Consuming
  <2>2. CASE cur'[r] = p
    BY <1>3, <2>1, <2>2 DEF Served
  <2>3. CASE cur'[r] # p
    BY <1>3, <2>1, <2>3 DEF Served, OnTheWay
  <2> QED
    BY <2>2, <2>3
<1>4. CASE pc'[r] = "doomed"
  BY <1>4 DEF Served
<1> QED
  BY <1>2, <1>3, <1>4 DEF Consuming

\* A loop that has not visited the other client of the pair reaches it.
LEMMA LoopReaches ==
  ASSUME IInv, NEW r \in Request, NEW j \in Request, NEW p \in Request,
         JoinCall(r) \/ ProducerCreated(r) \/ NextClient(r),
         p \in prodMap', From[j] \in caps, rcv[From[j]] # NoReq,
         Registered(From[j]), Registered(From[p]), From[j] # From[p],
         \/ r = p /\ ~IsJoin(r) /\ IdOf[From[j]] \notin seen[r]
         \/ r = j /\ IsJoin(r) /\ IdOf[From[p]] \notin seen[r]
  PROVE  Served(j, p)'
<1> USE DEF IInv
<1> DEFINE i0 == IF IsJoin(r) THEN IdOf[From[p]] ELSE IdOf[From[j]]
<1>1. /\ prodMap' \in SUBSET Request /\ LoopStep(r, prodMap')
      /\ UNCHANGED consumers
  BY LoopHandlers DEF consumerVars
<1>2. i0 \in Unvisited(r)
  BY ConstantsAssumption DEF Unvisited, Registered
<1>3. PICK i \in Unvisited(r) :
        LET a == IF IsJoin(r) THEN clients[i] ELSE clients[IdOf[From[r]]]
            b == IF IsJoin(r) THEN clients[IdOf[From[r]]] ELSE clients[i]
        IN /\ seen'[r] = seen[r] \union {i}
           /\ \/ (a = NoConn \/ b = NoConn) /\ pc'[r] = "outer"
              \/ Consuming(r, b, {}, Candidates(a, b, {}, prodMap', consumers))
  BY <1>1, <1>2, LoopStepEffect
<1>4. CASE i # i0
  <2>1. i0 \notin seen'[r]
    BY <1>2, <1>3, <1>4 DEF Unvisited
  <2>2. pc'[r] \in {"outer", "consuming", "doomed"}
    BY <1>3 DEF Consuming
  <2> QED
    BY <2>1, <2>2 DEF Served, OnTheWay
<1>5. CASE i = i0
  <2>1. /\ From[p] \in Conn /\ From[p] # NoConn
        /\ From[j] \in Conn /\ From[j] # NoConn
    BY ConstantsAssumption
  <2>2. Consuming(r, From[j], {}, Candidates(From[p], From[j], {}, prodMap', consumers'))
    BY <1>1, <1>3, <1>5, <2>1 DEF Registered
  <2>3. r \in {j, p} /\ {} \in SUBSET Request
    OBVIOUS
  <2> QED
    BY <1>1, <2>2, <2>3, ConsumingServes
<1> QED
  BY <1>4, <1>5

\* No step leaves a pair of registered clients behind: a producer that is not
\* consumed yet stays ahead of some loop.
LEMMA MeshStep ==
  ASSUME IInv, [Next]_vars
  PROVE  MeshInv'
<1> USE DEF IInv, clientVars, transportVars, mediaVars, loopVars, consumerVars
<1> SUFFICES ASSUME NEW j \in ready', NEW p \in prodMap', Registered(From[j])',
                    Registered(From[p])', From[j] # From[p]
             PROVE  Served(j, p)'
  BY DEF MeshInv
<1>0. TypeOK' /\ j \in Request /\ p \in Request /\ From[j] \in Conn /\ From[p] \in Conn
  BY NextType, ConstantsAssumption DEF TypeOK
<1>1. ASSUME NEW c \in Conn, Add(c) PROVE Served(j, p)'
  <2>1. From[j] # c /\ From[p] # c
    BY <1>0, <1>1 DEF Add, HandlerInv
  <2>2. Registered(From[j]) /\ Registered(From[p])
    BY <1>0, <1>1, <2>1, ConstantsAssumption DEF Add, Registered, TypeOK
  <2>3. Served(j, p)
    BY <1>1, <2>2 DEF Add, MeshInv
  <2> QED
    BY <1>0, <1>1, <2>3, ServedFrame DEF Add
<1>2. ASSUME NEW c \in Conn, ClientClosed(c) PROVE Served(j, p)'
  <2>1. From[j] # c /\ Registered(From[j]) /\ Registered(From[p])
    BY <1>0, <1>2, ClosedTransports
  <2>2. PICK T, open : /\ CloseTransports(T, open)
                       /\ \A t \in T \intersect Request : From[t] = c
    BY <1>0, <1>2, ClosedTransports
  <2>3. Served(j, p)
    BY <1>2, <2>1, <2>2 DEF ClientClosed, CloseTransports, MeshInv
  <2>4. ASSUME Consumes(consumers, From[j], p) PROVE Consumes(consumers', From[j], p)
    <3>1. PICK k \in consumers : k.conn = From[j] /\ k.prod = p
      BY <2>4 DEF Consumes
    <3>2. k.via \in Request /\ From[k.via] = k.conn
      BY <3>1 DEF TypeOK, Consumer, OwnerInv
    <3>3. k \in consumers'
      BY <2>1, <2>2, <3>1, <3>2 DEF CloseTransports
    <3> QED
      BY <3>1, <3>3 DEF Consumes
  <2>5. \A q \in Request : seen'[q] \subseteq seen[q]
    BY <1>2 DEF ClientClosed
  <2> QED
    BY <1>0, <1>2, <2>3, <2>4, <2>5, ServedFrame DEF ClientClosed
<1>3. ASSUME RouterClosed PROVE Served(j, p)'
  <2>1. p \in prodMap /\ host[p] \notin transports /\ Registered(From[p])
    BY <1>3 DEF RouterClosed, CloseTransports, Registered
  <2> QED
    BY <1>0, <2>1 DEF LiveInv, RouterInv
<1>4. ASSUME NEW r \in Request,
             \/ GetRouterCapabilities(r) \/ ClientRtpCapabilities(r) \/ CreateTransport(r)
             \/ TransportCreated(r) \/ AwaitWorker(r) \/ WorkerAcked(r) \/ CreateProducer(r)
             \/ UnhandledRejection(r)
      PROVE  Served(j, p)'
  <2>1. /\ \A q \in Request : pc[q] \in {"outer", "consuming", "doomed"} => pc'[q] = pc[q]
        /\ UNCHANGED <<clients, prodMap, ready, consumers, seen, cur, to, tried>>
    BY <1>4 DEF GetRouterCapabilities, ClientRtpCapabilities, CreateTransport,
       TransportCreated, AwaitWorker, WorkerAcked, CreateProducer, UnhandledRejection,
       Arrives, Goto, TypeOK
  <2>2. Served(j, p)
    BY <2>1 DEF MeshInv, Registered
  <2> QED
    BY <1>0, <2>1, <2>2, ServedFrame
<1>5. ASSUME NEW r \in Request, JoinCall(r) \/ ProducerCreated(r) \/ NextClient(r)
      PROVE  Served(j, p)'
  <2>1. /\ prodMap' \in SUBSET Request /\ LoopStep(r, prodMap')
        /\ pc[r] \in {"idle", "producing", "outer"}
        /\ UNCHANGED <<clientVars, transportVars, host, live, consumerVars, up>>
    BY <1>5, LoopHandlers
  <2>2. Frame(r)
    BY <2>1, LoopStepEffect
  <2>3. Registered(From[j]) /\ Registered(From[p])
    BY <2>1 DEF Registered
  <2>4. HandlerInv'
    BY HandlerStep
  <2>5. From[j] \in caps /\ rcv[From[j]] # NoReq /\ IsJoin(j) /\ ~IsJoin(p)
    BY <1>0, <2>1, <2>4 DEF HandlerInv
  <2>6. CASE j \notin ready \/ p \notin prodMap
    <3>1. \/ r = j /\ pc[r] = "idle"
          \/ r = p /\ pc[r] = "producing"
      BY <1>5, <2>6 DEF JoinCall, ProducerCreated, NextClient, Arrives
    <3>2. seen[r] = {}
      BY <3>1 DEF HandlerInv
    <3> QED
      BY <1>0, <1>5, <2>3, <2>5, <3>1, <3>2, LoopReaches
  <2>7. CASE j \in ready /\ p \in prodMap
    <3>1. Served(j, p)
      BY <2>3, <2>7 DEF MeshInv
    <3>2. CASE OnTheWay(r, IdOf[From[j]], p, From[j]) /\ r = p
      <4>1. IdOf[From[j]] \notin seen[r]
        BY <2>1, <3>2 DEF OnTheWay
      <4> QED
        BY <1>0, <1>5, <2>3, <2>5, <3>2, <4>1, LoopReaches
    <3>3. CASE OnTheWay(r, IdOf[From[p]], p, From[j]) /\ r = j
      <4>1. IdOf[From[p]] \notin seen[r]
        BY <2>1, <3>3 DEF OnTheWay
      <4> QED
        BY <1>0, <1>5, <2>3, <2>5, <3>3, <4>1, LoopReaches
    <3>4. CASE Consumes(consumers, From[j], p)
      BY <2>1, <3>4 DEF Served, Consumes
    <3>5. CASE \E q \in Request \ {r} :
                 \/ pc[q] = "consuming" /\ cur[q] = p /\ to[q] = From[j]
                 \/ pc[q] = "doomed"
                 \/ q = p /\ OnTheWay(q, IdOf[From[j]], p, From[j])
                 \/ q = j /\ OnTheWay(q, IdOf[From[p]], p, From[j])
      BY <2>2, <3>5 DEF Frame, Served, OnTheWay
    <3> QED
      BY <1>0, <2>1, <3>1, <3>2, <3>3, <3>4, <3>5 DEF Served
  <2> QED
    BY <2>6, <2>7
<1>6. ASSUME NEW r \in Request, ConsumerCreated(r) PROVE Served(j, p)'
  <2>1. Pending(r) /\ pc[r] = "consuming"
    BY <1>6 DEF ConsumerCreated, HandlerInv
  <2>2. /\ From[cur[r]] \in Conn /\ to[r] \in Conn
        /\ tried[r] \in SUBSET Request /\ prodMap \in SUBSET Request
        /\ IdOf[From[cur[r]]] # IdOf[to[r]] /\ status[to[r]] # "absent"
        /\ \A q \in Request \ {r} : seen'[q] = seen[q]
    BY <1>6, <2>1, ConstantsAssumption DEF Pending, TypeOK, ConsumerCreated
  <2>3. ConsumeNext(r, From[cur[r]], to[r], tried[r], prodMap, consumers')
    BY <1>6 DEF ConsumerCreated
  <2>4. Frame(r) /\ Consuming(r, to[r], tried[r],
                     Candidates(From[cur[r]], to[r], tried[r], prodMap, consumers'))
    BY <2>2, <2>3, ConsumeNextEffect
  <2>5. /\ j \in ready /\ p \in prodMap /\ Served(j, p)
        /\ From[j] \in caps /\ rcv[From[j]] # NoReq
    BY <1>6 DEF ConsumerCreated, MeshInv, Registered, HandlerInv, TypeOK
  <2>6. seen' = seen /\ consumers \subseteq consumers'
    BY <1>6 DEF ConsumerCreated
  <2>7. CASE Consumes(consumers, From[j], p)
    BY <2>6, <2>7 DEF Served, Consumes
  <2>8. CASE cur[r] = p /\ to[r] = From[j]
    <3>1. [task |-> r, prod |-> cur[r], conn |-> to[r], via |-> via[r]] \in consumers'
      BY <1>6 DEF ConsumerCreated
    <3>2. Consumes(consumers', From[j], p)
      BY <2>8, <3>1 DEF Consumes
    <3> QED
      BY <3>2 DEF Served, Consumes
  <2>9. CASE /\ r = p /\ IdOf[From[j]] \notin seen[r]
    BY <2>4, <2>6, <2>9 DEF Served, OnTheWay, Consuming
  <2>10. CASE /\ r = j /\ IdOf[From[p]] \notin seen[r]
    BY <2>4, <2>6, <2>10 DEF Served, OnTheWay, Consuming
  <2>11. CASE r \in {j, p} /\ to[r] = From[j] /\ From[cur[r]] = From[p] /\ p \notin tried[r]
    <3>1. Consuming(r, From[j], tried[r],
                    Candidates(From[p], From[j], tried[r], prodMap, consumers'))
      BY <2>4, <2>11
    <3> QED
      BY <1>0, <2>2, <2>5, <2>11, <3>1, ConsumingServes
  <2>12. CASE \E q \in Request \ {r} :
                \/ pc[q] = "consuming" /\ cur[q] = p /\ to[q] = From[j]
                \/ pc[q] = "doomed"
                \/ q = p /\ OnTheWay(q, IdOf[From[j]], p, From[j])
                \/ q = j /\ OnTheWay(q, IdOf[From[p]], p, From[j])
    BY <2>4, <2>12 DEF Frame, Served, OnTheWay
  <2> QED
    BY <1>0, <2>1, <2>5, <2>7, <2>8, <2>9, <2>10, <2>11, <2>12 DEF Served, OnTheWay
<1>7. ASSUME NEW k \in consumers, ConsumerClosed(k) PROVE Served(j, p)'
  <2>1. p \in live /\ Served(j, p)
    BY <1>0, <1>7 DEF ConsumerClosed, LiveInv, MeshInv, Registered
  <2>2. Consumes(consumers, From[j], p) => Consumes(consumers', From[j], p)
    BY <1>7, <2>1 DEF ConsumerClosed, Consumes
  <2> QED
    BY <1>0, <1>7, <2>1, <2>2, ServedFrame DEF ConsumerClosed
<1>8. CASE UNCHANGED vars
  <2>1. Served(j, p)
    BY <1>8 DEF vars, MeshInv, Registered
  <2> QED
    BY <1>0, <1>8, <2>1, ServedFrame DEF vars
<1> QED
  BY <1>1, <1>2, <1>3, <1>4, <1>5, <1>6, <1>7, <1>8 DEF Next, Receive, Continue

\* The invariant holds in an empty room.
LEMMA InitInv == Init => IInv
  BY InitType, ConstantsAssumption
  DEF Init, IInv, RegisteredIsOpen, HandlerInv, OwnerInv, LiveInv,
      RouterInv, MeshInv

\* Every stretch of a handler keeps it.
LEMMA StepInv ==
  ASSUME IInv, [Next]_vars
  PROVE  IInv'
<1>1. TypeOK'
  BY NextType DEF IInv
<1> QED
  BY <1>1, RegisteredStep, HandlerStep, OwnerStep, LiveStep, ClosedRouterStep, MeshStep
  DEF IInv

\* The invariant holds in every state of a room.
THEOREM Invariance == Spec => []IInv
  BY InitInv, StepInv, PTL DEF Spec

\* The fields and Maps of Room.ts keep their types, whatever the clients send
\* and in whatever order handlers, closes and worker answers interleave.
THEOREM RoomTypeOK == Spec => []TypeOK
<1>1. IInv => TypeOK
  BY DEF IInv
<1> QED
  BY <1>1, Invariance, PTL

\* A key of _clients never leads to a client whose websocket has closed.
THEOREM RoomRegisteredIsOpen == Spec => []RegisteredIsOpen
<1>1. IInv => RegisteredIsOpen
  BY DEF IInv
<1> QED
  BY <1>1, Invariance, PTL

TransportType ==
  \A r \in Request :
    r \in transports \/ pc[r] = "creating" =>
      Type[r] \in {"create-transport-producing", "create-transport-consuming"}

\* Transports are made by create-transport-request alone.
LEMMA TransportTypeStep ==
  ASSUME TypeOK, TransportType, [Next]_vars
  PROVE  TransportType'
<1> USE DEF transportVars, clientVars
<1>1. ASSUME transports' \subseteq transports,
             \A h \in Request : pc'[h] = "creating" => pc[h] = "creating"
      PROVE  TransportType'
  BY <1>1 DEF TransportType
<1>2. ASSUME NEW q \in Request, NEW label, Goto(q, label), label # "creating",
             UNCHANGED transports
      PROVE  TransportType'
  BY <1>1, <1>2 DEF Goto, TypeOK
<1>3. ASSUME NEW q \in Request, CreateTransport(q)
      PROVE  TransportType'
  BY <1>3 DEF CreateTransport, Arrives, Goto, TypeOK, TransportType
<1>4. ASSUME NEW q \in Request, JoinCall(q) \/ ProducerCreated(q) \/ NextClient(q)
      PROVE  TransportType'
  <2>1. LoopStep(q, prodMap') /\ UNCHANGED transports
    BY <1>4, LoopHandlers
  <2>2. \E label : Goto(q, label) /\ label # "creating"
    BY <2>1 DEF LoopStep, ConsumeNext
  <2> QED BY <1>2, <2>1, <2>2
<1>5. ASSUME NEW q \in Request, ConsumerCreated(q)
      PROVE  TransportType'
  <2>1. \E label : Goto(q, label) /\ label # "creating"
    BY <1>5 DEF ConsumerCreated, ConsumeNext
  <2> QED BY <1>2, <1>5, <2>1 DEF ConsumerCreated
<1>6. ASSUME NEW q \in Request,
             \/ GetRouterCapabilities(q) \/ ClientRtpCapabilities(q)
             \/ AwaitWorker(q) \/ WorkerAcked(q) \/ CreateProducer(q) \/ TransportCreated(q)
      PROVE  TransportType'
  <2>1. \E label : Goto(q, label) /\ label # "creating"
    BY <1>6 DEF GetRouterCapabilities, ClientRtpCapabilities, AwaitWorker,
                WorkerAcked, CreateProducer, TransportCreated
  <2>2. UNCHANGED transports
    BY <1>6 DEF GetRouterCapabilities, ClientRtpCapabilities, AwaitWorker,
                WorkerAcked, CreateProducer, TransportCreated
  <2> QED BY <1>2, <2>1, <2>2
<1>7. ASSUME NEW c \in Conn, ClientClosed(c)
      PROVE  TransportType'
  BY <1>1, <1>7 DEF ClientClosed, CloseTransports
<1>8. ASSUME RouterClosed
      PROVE  TransportType'
  BY <1>1, <1>8 DEF RouterClosed, CloseTransports
<1>9. CASE UNCHANGED <<transports, pc>>
  BY <1>1, <1>9
<1> QED
  BY <1>3, <1>4, <1>5, <1>6, <1>7, <1>8, <1>9
  DEF Next, Receive, Continue, Add, ConsumerClosed, UnhandledRejection, vars

\* No transport is orphaned but by the await of createWebRtcTransport: the close
\* listener closes the transports of its client, and every other handler leaves
\* them where they are.
THEOREM RoomOrphanedWhileCreating == Spec => OrphanedWhileCreating
<1> DEFINE ByCreation(r) ==
      \E q \in Request :
        /\ TransportCreated(q)
        /\ From[q] = From[r]
        /\ Type[q] = Type[r]
        /\ q # r \/ status[From[r]] = "closed"
<1>1. ASSUME IInv, TransportType, [Next]_vars, NEW r \in Request, ~Orphan(r), Orphan(r)'
      PROVE  ByCreation(r)
  <2> USE DEF IInv, clientVars, transportVars
  <2>1. /\ r \in transports' /\ pc'[r] # "creating"
        /\ ~(status'[From[r]] = "open" /\ TransportOf(r)' = r)
    BY <1>1 DEF Orphan
  <2>2. r \in transports =>
          pc[r] = "creating" \/ (status[From[r]] = "open" /\ TransportOf(r) = r)
    BY <1>1 DEF Orphan
  <2>3. ASSUME NEW c \in Conn, Add(c)
        PROVE  FALSE
    BY <1>1, <2>1, <2>2, <2>3 DEF Add, TypeOK, TransportOf
  <2>4. ASSUME NEW c \in Conn, ClientClosed(c)
        PROVE  FALSE
    <3>1. /\ pc' = pc /\ snd' = snd /\ rcv' = rcv
          /\ transports' \in {{}, transports \ {snd[c], rcv[c]}}
          /\ status' = [status EXCEPT ![c] = "closed"]
      BY <2>4 DEF ClientClosed, CloseTransports
    <3>2. status[From[r]] = "open" /\ TransportOf(r) = r /\ r \in transports
      BY <2>1, <2>2, <3>1
    <3>3. From[r] = c
      BY <1>1, <2>1, <3>1, <3>2 DEF TypeOK, TransportOf
    <3> QED BY <2>1, <3>1, <3>2, <3>3 DEF TransportOf
  <2>5. ASSUME RouterClosed
        PROVE  FALSE
    BY <2>1, <2>5 DEF RouterClosed, CloseTransports
  <2>6. ASSUME NEW q \in Request, CreateTransport(q)
        PROVE  FALSE
    <3>1. /\ transports' \subseteq transports \union {q}
          /\ q \in transports' \ transports => pc'[q] = "creating"
          /\ \A h \in Request \ {q} : pc'[h] = pc[h]
          /\ pc[q] = "idle"
          /\ UNCHANGED <<status, snd, rcv>>
      BY <1>1, <2>6 DEF CreateTransport, Arrives, Goto, TypeOK
    <3> QED BY <2>1, <2>2, <3>1 DEF TransportOf
  <2>7. ASSUME NEW q \in Request, TransportCreated(q)
        PROVE  ByCreation(r)
    <3>1. /\ transports' = transports /\ status' = status
          /\ \A h \in Request \ {q} : pc'[h] = pc[h]
      BY <1>1, <2>7 DEF TransportCreated, Goto, TypeOK
    <3>2. CASE q = r
      <4>1. TransportOf(r)' = r
        BY <1>1, <2>7, <3>2, ConstantsAssumption DEF TransportCreated, TransportOf, TypeOK
      <4>2. pc[r] = "creating" /\ r \in transports
        BY <2>1, <2>7, <3>1, <3>2 DEF TransportCreated
      <4>3. status[From[r]] # "open"
        BY <2>1, <3>1, <4>1
      <4>4. status[From[r]] # "absent"
        BY <1>1, <4>2 DEF HandlerInv
      <4>5. status[From[r]] = "closed"
        BY <1>1, <4>3, <4>4, ConstantsAssumption DEF TypeOK
      <4> QED BY <2>7, <3>2, <4>5
    <3>3. CASE q # r
      <4>1. status[From[r]] = "open" /\ TransportOf(r) = r
        BY <2>1, <2>2, <3>1, <3>3
      <4>2. TransportOf(r)' # TransportOf(r)
        BY <2>1, <3>1, <4>1
      <4>3. From[q] = From[r]
        BY <1>1, <2>7, <4>2, ConstantsAssumption DEF TransportCreated, TransportOf, TypeOK
      <4>4. Type[q] = Type[r]
        BY <1>1, <2>1, <2>7, <3>1, <4>2 DEF TransportCreated, TransportOf, TransportType
      <4> QED BY <2>7, <3>3, <4>3, <4>4
    <3> QED BY <3>2, <3>3
  <2>8. ASSUME UNCHANGED <<transports, status, snd, rcv>>,
               \A h \in Request : pc[h] = "creating" => pc'[h] = "creating"
        PROVE  FALSE
    BY <2>1, <2>2, <2>8 DEF TransportOf
  <2>9. ASSUME NEW q \in Request, pc[q] # "creating", NEW label,
               Goto(q, label), UNCHANGED <<transports, status, snd, rcv>>
        PROVE  FALSE
    BY <1>1, <2>8, <2>9 DEF Goto, TypeOK
  <2>10. ASSUME NEW q \in Request, JoinCall(q) \/ ProducerCreated(q) \/ NextClient(q)
         PROVE  FALSE
    <3>1. /\ LoopStep(q, prodMap') /\ pc[q] # "creating"
          /\ UNCHANGED <<transports, status, snd, rcv>>
      BY <1>1, <2>10, LoopHandlers
    <3>2. \E label : Goto(q, label)
      BY <3>1 DEF LoopStep, ConsumeNext
    <3> QED BY <2>9, <3>1, <3>2
  <2>11. ASSUME NEW q \in Request, ConsumerCreated(q)
         PROVE  FALSE
    <3>1. pc[q] # "creating" /\ UNCHANGED <<transports, status, snd, rcv>>
      BY <2>11 DEF ConsumerCreated
    <3>2. \E label : Goto(q, label)
      BY <2>11 DEF ConsumerCreated, ConsumeNext
    <3> QED BY <2>9, <3>1, <3>2
  <2>12. ASSUME NEW q \in Request,
                \/ GetRouterCapabilities(q) \/ ClientRtpCapabilities(q)
                \/ AwaitWorker(q) \/ WorkerAcked(q) \/ CreateProducer(q)
         PROVE  FALSE
    <3>1. pc[q] # "creating" /\ UNCHANGED <<transports, status, snd, rcv>>
      BY <2>12 DEF GetRouterCapabilities, ClientRtpCapabilities, AwaitWorker,
                   WorkerAcked, CreateProducer, Arrives
    <3>2. \E label : Goto(q, label)
      BY <2>12 DEF GetRouterCapabilities, ClientRtpCapabilities, AwaitWorker,
                   WorkerAcked, CreateProducer
    <3> QED BY <2>9, <3>1, <3>2
  <2>13. CASE UNCHANGED <<transports, status, snd, rcv, pc>>
    BY <2>8, <2>13
  <2> HIDE DEF ByCreation
  <2> QED
    BY <1>1, <2>3, <2>4, <2>5, <2>6, <2>7, <2>10, <2>11, <2>12, <2>13
    DEF Next, Receive, Continue, ConsumerClosed, UnhandledRejection, vars
<1>2. IInv /\ TransportType /\ [Next]_vars =>
        (\A r \in Request : ~Orphan(r) /\ Orphan(r)' => ByCreation(r))
  BY <1>1
<1>3. Init => TransportType
  BY DEF Init, TransportType
<1>4. IInv /\ TransportType /\ [Next]_vars => TransportType'
  BY TransportTypeStep DEF IInv
<1> QED
  BY <1>2, <1>3, <1>4, Invariance, PTL DEF Spec, OrphanedWhileCreating

\* The join-call-request handler and the create-producer-request handler never
\* miss each other: once no handler waits, every client that joined consumes
\* every producer of the others.
THEOREM RoomMesh == Spec => []MeshWhenQuiet
<1>1. IInv => MeshWhenQuiet
  <2> SUFFICES ASSUME IInv, Quiet, NEW j \in ready, NEW p \in prodMap,
                      Registered(From[j]), Registered(From[p]), From[j] # From[p]
               PROVE  Consumes(consumers, From[j], p)
    BY DEF MeshWhenQuiet
  <2>1. Served(j, p) /\ j \in Request /\ p \in Request
    BY DEF IInv, MeshInv, TypeOK
  <2> QED
    BY <2>1 DEF Served, OnTheWay, Quiet
<1> QED
  BY <1>1, Invariance, PTL

-----------------------------------------------------------------------------
(* Membership of the room.                                                 *)

\* While no other connection used its clientId, a connected client stays in
\* _clients, whoever else leaves.
THEOREM RoomSoleConnectionIsRegistered == Spec => []SoleConnectionIsRegistered
<1>1. Init => SoleConnectionIsRegistered
  BY DEF Init, SoleConnectionIsRegistered
<1>2. TypeOK /\ SoleConnectionIsRegistered /\ [Next]_vars => SoleConnectionIsRegistered'
  <2> SUFFICES ASSUME TypeOK, SoleConnectionIsRegistered, [Next]_vars
               PROVE  SoleConnectionIsRegistered'
    OBVIOUS
  <2> USE DEF clientVars
  <2>1. ASSUME NEW d \in Conn, Add(d) PROVE SoleConnectionIsRegistered'
    BY <2>1, ConstantsAssumption DEF Add, TypeOK, SoleConnectionIsRegistered, Registered
  <2>2. ASSUME NEW d \in Conn, ClientClosed(d) PROVE SoleConnectionIsRegistered'
    BY <2>2, ConstantsAssumption
    DEF ClientClosed, Without, TypeOK, SoleConnectionIsRegistered, Registered
  <2>3. CASE UNCHANGED <<status, clients>>
    BY <2>3 DEF SoleConnectionIsRegistered, Registered
  <2> QED
    BY <2>1, <2>2, <2>3
   DEF Next, Receive, Continue, RouterClosed, GetRouterCapabilities,
       ClientRtpCapabilities, CreateTransport, TransportCreated, AwaitWorker,
       WorkerAcked, JoinCall, CreateProducer, ProducerCreated, NextClient,
       ConsumerCreated, ConsumerClosed, UnhandledRejection, vars
<1> QED
  BY <1>1, <1>2, RoomTypeOK, PTL DEF Spec

\* The room closes with its last client: a room without clients has no router,
\* and a room that reported onClosed has no clients.
THEOREM RoomEmptyRoomIsClosed == Spec => []EmptyRoomIsClosed
<1>1. Init => EmptyRoomIsClosed
  BY DEF Init, EmptyRoomIsClosed
<1>2. TypeOK /\ EmptyRoomIsClosed /\ [Next]_vars => EmptyRoomIsClosed'
  <2> SUFFICES ASSUME TypeOK, EmptyRoomIsClosed, [Next]_vars
               PROVE  EmptyRoomIsClosed'
    OBVIOUS
  <2> USE DEF clientVars, transportVars
  <2>1. ASSUME NEW d \in Conn, Add(d) PROVE EmptyRoomIsClosed'
    <3>1. clients'[IdOf[d]] = d /\ d # NoConn /\ IdOf[d] \in ClientId
      BY <2>1, ConstantsAssumption DEF Add, TypeOK
    <3> QED
      BY <2>1, <3>1 DEF Add, EmptyRoomIsClosed
  <2>2. ASSUME NEW d \in Conn, ClientClosed(d) PROVE EmptyRoomIsClosed'
    BY <2>2, ConstantsAssumption DEF ClientClosed, Without, IsEmpty, TypeOK, EmptyRoomIsClosed
  <2>3. ASSUME RouterClosed PROVE EmptyRoomIsClosed'
    BY <2>3 DEF RouterClosed, EmptyRoomIsClosed
  <2>4. CASE UNCHANGED <<status, clients, room, router>>
    BY <2>4 DEF EmptyRoomIsClosed
  <2> QED
    BY <2>1, <2>2, <2>3, <2>4
   DEF Next, Receive, Continue, GetRouterCapabilities,
       ClientRtpCapabilities, CreateTransport, TransportCreated, AwaitWorker,
       WorkerAcked, JoinCall, CreateProducer, ProducerCreated, NextClient,
       ConsumerCreated, ConsumerClosed, UnhandledRejection, vars
<1> QED
  BY <1>1, <1>2, RoomTypeOK, PTL DEF Spec

-----------------------------------------------------------------------------
(* Consumers and what the clients know of them.                            *)

\* No client is made to consume itself, also when another connection takes
\* over its clientId while a loop waits for the worker.
THEOREM RoomNoSelfConsume == Spec => []NoSelfConsume
<1>1. Init => NoSelfConsume
  BY DEF Init, NoSelfConsume
<1>2. IInv /\ NoSelfConsume /\ [Next]_vars => NoSelfConsume'
  <2> SUFFICES ASSUME IInv, NoSelfConsume, [Next]_vars PROVE NoSelfConsume'
    OBVIOUS
  <2> USE DEF consumerVars
  <2>1. ASSUME NEW r \in Request, ConsumerCreated(r) PROVE NoSelfConsume'
    <3>1. IdOf[From[cur[r]]] # IdOf[to[r]]
      BY <2>1 DEF ConsumerCreated, IInv, HandlerInv, Pending
    <3> QED
      BY <2>1, <3>1 DEF ConsumerCreated, NoSelfConsume
  <2>2. CASE consumers' \subseteq consumers
    BY <2>2 DEF NoSelfConsume
  <2> QED
    BY <2>1, <2>2
    DEF Next, Receive, Continue, Add, ClientClosed, CloseTransports, RouterClosed,
        GetRouterCapabilities, ClientRtpCapabilities, CreateTransport, TransportCreated,
        AwaitWorker, WorkerAcked, JoinCall, CreateProducer, ProducerCreated, NextClient,
        ConsumerClosed, UnhandledRejection, vars
<1> QED
  BY <1>1, <1>2, Invariance, PTL DEF Spec

\* A connected client knows exactly the consumers the room holds for it: the
\* notifications of _consumeClient and of the close observers never drift from
\* the Map client.consumers.
THEOREM RoomClientViewExact == Spec => []ClientViewExact
<1>1. Init => ClientViewExact
  BY DEF Init, ClientViewExact
<1>2. IInv /\ ClientViewExact /\ [Next]_vars => ClientViewExact'
  <2> SUFFICES ASSUME IInv, ClientViewExact, [Next]_vars PROVE ClientViewExact'
    OBVIOUS
  <2> USE DEF clientVars, consumerVars, IInv
  <2>0. \A k \in view \union consumers : k.conn \in Conn
    BY DEF TypeOK, Consumer
  <2>1. ASSUME NEW c \in Conn, Add(c) PROVE ClientViewExact'
    BY <2>0, <2>1 DEF Add, TypeOK, OwnerInv, ClientViewExact
  <2>2. ASSUME NEW c \in Conn, ClientClosed(c) PROVE ClientViewExact'
    <3> DEFINE open == {d \in Conn : status[d] = "open"} \ {c}
    <3>1. PICK T : CloseTransports(T, open)
      BY <2>2 DEF ClientClosed
    <3>2. \A d \in Conn : status'[d] = "open" => d \in open /\ status[d] = "open"
      BY <2>2 DEF ClientClosed, TypeOK
    <3> QED
      BY <2>0, <3>1, <3>2 DEF CloseTransports, ClientViewExact
  <2>3. ASSUME RouterClosed PROVE ClientViewExact'
    BY <2>0, <2>3 DEF RouterClosed, CloseTransports, ClientViewExact
  <2>4. ASSUME NEW r \in Request, ConsumerCreated(r) PROVE ClientViewExact'
    BY <2>4 DEF ConsumerCreated, ClientViewExact
  <2>5. ASSUME NEW k \in consumers, ConsumerClosed(k) PROVE ClientViewExact'
    BY <2>5 DEF ConsumerClosed, ClientViewExact
  <2>6. CASE UNCHANGED <<status, consumers, view>>
    BY <2>6 DEF ClientViewExact
  <2> QED
    BY <2>1, <2>2, <2>3, <2>4, <2>5, <2>6
    DEF Next, Receive, Continue, GetRouterCapabilities, ClientRtpCapabilities,
        CreateTransport, TransportCreated, AwaitWorker, WorkerAcked, JoinCall,
        CreateProducer, ProducerCreated, NextClient, UnhandledRejection, vars
<1> QED
  BY <1>1, <1>2, Invariance, PTL DEF Spec

-----------------------------------------------------------------------------
(* The call: the invariant that its refinement rests on.                   *)

CapsReq == "get-router-capabilities-request"
RtpCaps == "client-rtp-capabilities"
SndReq == "create-transport-producing"
RcvReq == "create-transport-consuming"
JoinReq == "join-call-request"
ProducerReq == "create-producer-request"

\* Where handler r waits tells its type.
StageOf(r) ==
  /\ pc[r] = "creating" => Type[r] \in {SndReq, RcvReq}
  /\ pc[r] = "producing" => Type[r] = ProducerReq
  /\ pc[r] \in {"outer", "consuming"} => Type[r] \in {JoinReq, ProducerReq}
  /\ pc[r] = "acking" => Type[r] \notin Script

StageInv ==
  /\ \A r \in Request : StageOf(r)
  /\ \A p \in prodMap : Type[p] = ProducerReq

\* The participant in the room
SelfInv ==
  /\ status[me] # "closed"
  /\ \A r \in Mine : pc[r] # "idle" => \E t \in Script : r = Msg(t)
  /\ \A r \in Mine \intersect answered : pc[r] = "done"
  /\ snd[me] = IF pc[Msg(SndReq)] = "done" THEN Msg(SndReq) ELSE NoReq
  /\ rcv[me] = IF pc[Msg(RcvReq)] = "done" THEN Msg(RcvReq) ELSE NoReq

Idle(types) == \A t \in types : pc[Msg(t)] = "idle"

\* How far connect() has come
Progress ==
  \/ phase = "capabilities" /\ wire = <<CapsReq>> /\ Idle(Script)
  \/ phase \in {"capabilities", "loading", "failed"} /\ wire = <<>> /\ Idle(Script \ {CapsReq})
  \/ phase = "transports" /\ wire = <<RtpCaps, SndReq, RcvReq>> /\ Idle(Script \ {CapsReq})
  \/ phase = "transports" /\ wire = <<SndReq, RcvReq>> /\ Idle({SndReq, RcvReq, JoinReq})
  \/ /\ phase = "transports" /\ wire = <<RcvReq>>
     /\ pc[Msg(SndReq)] # "idle" /\ Idle({RcvReq, JoinReq})
  \/ /\ phase = "transports" /\ wire = <<>>
     /\ pc[Msg(SndReq)] # "idle" /\ pc[Msg(RcvReq)] # "idle" /\ Idle({JoinReq})
  \/ phase = "joining" /\ wire = <<JoinReq>> /\ Idle({JoinReq})
  \/ phase \in {"joining", "connected"} /\ wire = <<>> /\ pc[Msg(JoinReq)] # "idle"

\* The browser has read the answer.
Read(t) ==
  \/ t = CapsReq /\ phase # "capabilities"
  \/ t \in answers
  \/ t = JoinReq /\ phase = "connected"

Transports == {SndReq, RcvReq}

ReadInv ==
  /\ answers \subseteq Transports
  /\ answers = Transports <=> phase \in {"joining", "connected"}
  /\ \A t \in Script : Read(t) => pc[Msg(t)] = "done"

Letters == ({"answer"} \X MessageType) \union ({"created", "closed"} \X Consumer)

InboxType == inbox \in Seq(Letters) /\ IsFiniteSet(view)

\* An answer that was sent and has not been read
Unread(m) ==
  \E t \in Script \ {RtpCaps} : m = <<"answer", t>> /\ pc[Msg(t)] = "done" /\ ~Read(t)

\* Every request is answered once.
AnswerInv ==
  /\ \A i \in 1 .. Len(inbox) : inbox[i][1] = "answer" => Unread(inbox[i])
  /\ \A i, j \in 1 .. Len(inbox) : inbox[i] = inbox[j] /\ inbox[i][1] = "answer" => i = j

\* The consumer handler r is making
Making(r) == [task |-> r, prod |-> cur[r], conn |-> to[r], via |-> via[r]]

\* The loop of the handler that made k will not come to its client again.
Met(k) ==
  /\ status[From[k.prod]] # "absent"
  /\ IF IsJoin(k.task)
     THEN Registered(From[k.prod]) => IdOf[From[k.prod]] \in seen[k.task]
     ELSE IdOf[me] \in seen[k.task]

MakesMine(r) == pc[r] = "consuming" /\ to[r] = me

\* k was announced: the loop that made it is past k's producer.
Past(k) ==
  /\ k \in MyConsumers /\ Met(k)
  /\ MakesMine(k.task) /\ From[cur[k.task]] = From[k.prod] => k.prod \in tried[k.task]

\* The consumer that handler r makes for the participant is a new one.
Fresh(r) ==
  /\ Making(r) \in MyConsumers \ told
  /\ Met(Making(r)) /\ cur[r] \in tried[r] /\ rcv[me] # NoReq

ToldInv ==
  /\ view \subseteq told /\ told \subseteq Consumer
  /\ \A k \in told : k.conn = me => Past(k)
  /\ \A r \in Request : MakesMine(r) => Fresh(r)

-----------------------------------------------------------------------------
(* Messages and sequences.                                                 *)

\* connect() has one message of each type of its script.
LEMMA MsgFacts ==
  ASSUME NEW t \in Script
  PROVE  /\ Msg(t) \in Mine /\ Msg(t) \in Request
         /\ From[Msg(t)] = me /\ Type[Msg(t)] = t
<1>1. \E r \in Mine : Type[r] = t
  BY CallAssumption
<1>2. Msg(t) \in Mine /\ Type[Msg(t)] = t
  BY <1>1 DEF Msg
<1> QED
  BY <1>2 DEF Mine

\* Every message of the script has a listener.
LEMMA ScriptTypes ==
  Script \subseteq MessageType
  BY DEF Script, MessageType, RequestType, NotificationType

\* What SetToSeq makes of a finite set, of none and of one element.
LEMMA SetToSeqFinite ==
  ASSUME NEW N, IsFiniteSet(N)
  PROVE  /\ SetToSeq(N) \in Seq(N)
         /\ Len(SetToSeq(N)) = Cardinality(N)
<1> DEFINE c == Cardinality(N)
           s == SetToSeq(N)
<1>1. c \in Nat /\ ExistsBijection(1 .. c, N)
  BY FS_CardinalityType
<1>2. PICK f : f \in Bijection(1 .. c, N)
  BY <1>1 DEF ExistsBijection
<1>3. f \in [1 .. c -> N] /\ IsInjective(f)
  BY <1>2 DEF Bijection, Injection
<1>4. s \in [1 .. c -> N]
  BY <1>3 DEF SetToSeq
<1> HIDE DEF s, c
<1>5. s \in Seq(N) /\ Len(s) = c
  BY <1>1, <1>4
<1> QED
  BY <1>5 DEF s, c

LEMMA SetToSeqNone ==
  SetToSeq({}) = <<>>
<1>1. SetToSeq({}) \in Seq({}) /\ Len(SetToSeq({})) = 0
  BY FS_EmptySet, SetToSeqFinite
<1> QED
  BY <1>1, EmptySeq

LEMMA SetToSeqOne ==
  ASSUME NEW m
  PROVE  SetToSeq({m}) = <<m>>
<1> DEFINE s == SetToSeq({m})
<1>1. s \in Seq({m}) /\ Len(s) = 1
  BY FS_Singleton, SetToSeqFinite
<1>2. <<m>> \in Seq({m}) /\ Len(<<m>>) = 1 /\ <<m>>[1] = m
  OBVIOUS
<1> HIDE DEF s
<1>3. \A i \in 1 .. Len(s) : s[i] = <<m>>[i]
  BY <1>1, <1>2
<1>4. s = <<m>>
  BY <1>1, <1>2, <1>3, SeqEqual
<1> QED
  BY <1>4 DEF s
-----------------------------------------------------------------------------
(* The handlers, seen from the participant.                                *)

\* A stretch of a handler's loop leaves it at one of four places.
LEMMA LoopMoves ==
  ASSUME IInv, NEW r \in Request, JoinCall(r) \/ ProducerCreated(r) \/ NextClient(r)
  PROVE  Frame(r) /\ pc'[r] \in {"outer", "consuming", "doomed", "done"}
<1>1. prodMap' \in SUBSET Request /\ LoopStep(r, prodMap')
  BY LoopHandlers DEF IInv
<1> QED
  BY <1>1, LoopStepEffect DEF IInv, Consuming

\* The consumer a handler made is the one it waited for; the next one is for
\* the same client, from the same producing client.
LEMMA ConsumerMoves ==
  ASSUME IInv, NEW r \in Request, ConsumerCreated(r)
  PROVE  /\ Frame(r)
         /\ Consuming(r, to[r], tried[r],
              Candidates(From[cur[r]], to[r], tried[r], prodMap, consumers'))
<1> USE DEF IInv
<1>1. Pending(r) /\ pc[r] = "consuming"
  BY DEF ConsumerCreated, HandlerInv
<1>2. /\ From[cur[r]] \in Conn /\ to[r] \in Conn
      /\ tried[r] \in SUBSET Request /\ prodMap \in SUBSET Request
      /\ IdOf[From[cur[r]]] # IdOf[to[r]] /\ status[to[r]] # "absent"
      /\ \A q \in Request \ {r} : seen'[q] = seen[q]
  BY <1>1, ConstantsAssumption DEF Pending, TypeOK, ConsumerCreated
<1>3. ConsumeNext(r, From[cur[r]], to[r], tried[r], prodMap, consumers')
  BY DEF ConsumerCreated
<1> QED
  BY <1>2, <1>3, ConsumeNextEffect

\* A step of one handler moves no other, answers nobody else, and stores a
\* transport for nobody else.
LEMMA HandlerMoves ==
  ASSUME IInv, NEW r \in Request, Receive(r) \/ Continue(r)
  PROVE  /\ \A q \in Request \ {r} : pc'[q] = pc[q]
         /\ pc'[r] # "idle" /\ pc[r] # "done"
         /\ answered \subseteq answered' /\ answered' \subseteq answered \union {r}
         /\ status' = status /\ clients' = clients
         /\ \A c \in Conn \ {From[r]} : snd'[c] = snd[c] /\ rcv'[c] = rcv[c]
<1> USE DEF IInv, clientVars, transportVars, Goto, TypeOK
<1>1. CASE GetRouterCapabilities(r)
  BY <1>1 DEF GetRouterCapabilities, Arrives, Answer
<1>2. CASE ClientRtpCapabilities(r)
  BY <1>2 DEF ClientRtpCapabilities, Arrives
<1>3. CASE CreateTransport(r)
  BY <1>3 DEF CreateTransport, Arrives
<1>4. CASE AwaitWorker(r)
  BY <1>4 DEF AwaitWorker, Arrives
<1>5. CASE CreateProducer(r)
  BY <1>5 DEF CreateProducer, Arrives
<1>6. CASE TransportCreated(r)
  <2>1. From[r] \in Conn
    BY ConstantsAssumption
  <2> QED
    BY <1>6, <2>1 DEF TransportCreated, Answer
<1>7. CASE WorkerAcked(r)
  BY <1>7 DEF WorkerAcked, Answer
<1>8. CASE JoinCall(r) \/ ProducerCreated(r) \/ NextClient(r)
  <2>1. Frame(r) /\ pc'[r] \in {"outer", "consuming", "doomed", "done"}
    BY <1>8, LoopMoves
  <2>2. /\ answered \subseteq answered' /\ answered' \subseteq answered \union {r}
        /\ pc[r] # "done" /\ UNCHANGED <<clientVars, transportVars>>
    BY <1>8 DEF JoinCall, ProducerCreated, NextClient, Arrives, Answer
  <2> QED
    BY <2>1, <2>2 DEF Frame
<1>9. CASE ConsumerCreated(r)
  <2>1. Frame(r) /\ pc'[r] \in {"outer", "consuming", "doomed"}
    BY <1>9, ConsumerMoves DEF Consuming
  <2> QED
    BY <1>9, <2>1 DEF ConsumerCreated, Frame
<1> QED
  BY <1>1, <1>2, <1>3, <1>4, <1>5, <1>6, <1>7, <1>8, <1>9 DEF Receive, Continue

\* Where a handler waits fits its type, whatever the others do.
LEMMA StageStep ==
  ASSUME IInv, StageInv, [Next]_vars
  PROVE  StageInv'
<1> USE DEF IInv, clientVars, transportVars, mediaVars, loopVars, consumerVars
<1>0. \A q \in Request : StageOf(q)
  BY DEF StageInv, StageOf
<1>1. ASSUME \A q \in Request : StageOf(q)', \A p \in prodMap' : Type[p] = ProducerReq
      PROVE  StageInv'
  BY <1>1 DEF StageInv, StageOf
<1>2. ASSUME NEW r \in Request, Receive(r) \/ Continue(r), StageOf(r)',
             prodMap' \subseteq prodMap \union {r}, r \in prodMap' => Type[r] = ProducerReq
      PROVE  StageInv'
  <2>1. \A q \in Request \ {r} : pc'[q] = pc[q]
    BY <1>2, HandlerMoves
  <2>2. \A q \in Request : StageOf(q)'
    BY <1>0, <1>2, <2>1 DEF StageOf
  <2> QED
    BY <1>1, <1>2, <2>2 DEF StageInv
<1>3. ASSUME NEW r \in Request, CreateTransport(r) PROVE StageInv'
  <2>1. StageOf(r)' /\ prodMap' = prodMap
    BY <1>3 DEF CreateTransport, Arrives, Goto, TypeOK, StageOf, SndReq, RcvReq
  <2> QED
    BY <1>2, <1>3, <2>1 DEF Receive, StageInv
<1>4. ASSUME NEW r \in Request, AwaitWorker(r) PROVE StageInv'
  <2>1. StageOf(r)' /\ prodMap' = prodMap
    BY <1>4 DEF AwaitWorker, Arrives, Goto, TypeOK, StageOf, Script
  <2> QED
    BY <1>2, <1>4, <2>1 DEF Receive, StageInv
<1>5. ASSUME NEW r \in Request, CreateProducer(r) PROVE StageInv'
  <2>1. StageOf(r)' /\ prodMap' = prodMap
    BY <1>5 DEF CreateProducer, Arrives, Goto, TypeOK, StageOf, ProducerReq
  <2> QED
    BY <1>2, <1>5, <2>1 DEF Receive, StageInv
<1>6. ASSUME NEW r \in Request,
             GetRouterCapabilities(r) \/ ClientRtpCapabilities(r)
             \/ TransportCreated(r) \/ WorkerAcked(r)
      PROVE  StageInv'
  <2>1. pc'[r] = "done" /\ prodMap' = prodMap
    BY <1>6 DEF GetRouterCapabilities, ClientRtpCapabilities, TransportCreated,
                WorkerAcked, Goto, TypeOK
  <2>2. StageOf(r)'
    BY <2>1 DEF StageOf
  <2> QED
    BY <1>2, <1>6, <2>1, <2>2 DEF Receive, Continue, StageInv
<1>7. ASSUME NEW r \in Request, JoinCall(r) \/ ProducerCreated(r) \/ NextClient(r)
      PROVE  StageInv'
  <2>1. pc'[r] \in {"outer", "consuming", "doomed", "done"}
    BY <1>7, LoopMoves
  <2>2. /\ Type[r] \in {JoinReq, ProducerReq}
        /\ prodMap' \subseteq prodMap \union {r}
        /\ r \in prodMap' => Type[r] = ProducerReq
    BY <1>7 DEF JoinCall, ProducerCreated, NextClient, Arrives, StageInv, StageOf, JoinReq
  <2>3. StageOf(r)'
    BY <2>1, <2>2 DEF StageOf
  <2> QED
    BY <1>2, <1>7, <2>2, <2>3 DEF Receive, Continue
<1>8. ASSUME NEW r \in Request, ConsumerCreated(r) PROVE StageInv'
  <2>1. pc'[r] \in {"outer", "consuming", "doomed"} /\ pc[r] = "consuming"
    BY <1>8, ConsumerMoves DEF ConsumerCreated, Consuming
  <2>2. StageOf(r)' /\ prodMap' = prodMap
    BY <1>0, <1>8, <2>1 DEF StageOf, ConsumerCreated
  <2> QED
    BY <1>2, <1>8, <2>2 DEF Continue, StageInv
<1>9. ASSUME NEW c \in Conn, ClientClosed(c) PROVE StageInv'
  <2>1. pc' = pc /\ prodMap' \subseteq prodMap
    BY <1>9 DEF ClientClosed, CloseTransports
  <2> QED
    BY <2>1 DEF StageInv, StageOf
<1>10. ASSUME RouterClosed PROVE StageInv'
  <2>1. prodMap' \subseteq prodMap
    BY <1>10 DEF RouterClosed, CloseTransports
  <2>2. \A q \in Request : pc'[q] = pc[q] \/ pc'[q] \in {"doomed", "done"}
    BY <1>10 DEF RouterClosed, TypeOK
  <2>3. \A q \in Request : StageOf(q)'
    BY <1>0, <2>2 DEF StageOf
  <2> QED
    BY <1>1, <2>1, <2>3 DEF StageInv
<1>11. CASE UNCHANGED <<pc, prodMap>>
  BY <1>11 DEF StageInv, StageOf
<1>12. ASSUME NEW c \in Conn, Add(c) PROVE StageInv'
  BY <1>11, <1>12 DEF Add
<1>13. ASSUME NEW k \in consumers, ConsumerClosed(k) PROVE StageInv'
  BY <1>11, <1>13 DEF ConsumerClosed
<1>14. ASSUME NEW r \in Request, UnhandledRejection(r) PROVE StageInv'
  BY <1>11, <1>14 DEF UnhandledRejection
<1>15. CASE UNCHANGED vars
  BY <1>11, <1>15 DEF vars
<1> QED
  BY <1>3, <1>4, <1>5, <1>6, <1>7, <1>8, <1>9, <1>10, <1>12, <1>13, <1>14, <1>15
  DEF Next, Receive, Continue

\* The handler of the participant's message m returns with its answer.
Returns(m) ==
  pc'[m] = "done" /\ m \notin answered /\ answered' = answered \union {m}

\* It waits, and has answered nothing.
Stays(m) ==
  pc'[m] \notin {"idle", "done"} /\ answered' = answered

\* A step that is none of the participant's handlers
FarStep ==
  \/ \E c \in Conn \ {me} : Add(c) \/ ClientClosed(c)
  \/ \E r \in Request \ Mine : Receive(r) \/ Continue(r)
  \/ \E r \in Request : UnhandledRejection(r)
  \/ \E k \in consumers : ConsumerClosed(k)
  \/ RouterClosed
  \/ UNCHANGED vars

Far ==
  /\ \A r \in Mine :
       pc'[r] = pc[r] \/ (pc[r] \in {"creating", "consuming"} /\ pc'[r] = "doomed")
  /\ snd'[me] = snd[me] /\ rcv'[me] = rcv[me] /\ status'[me] = status[me]
  /\ Mine \intersect answered' = Mine \intersect answered

\* Such a step leaves the participant's transports and answers alone.
LEMMA FarSteps ==
  ASSUME IInv, StageInv, SelfInv, FarStep
  PROVE  Far
<1> USE DEF IInv, clientVars, transportVars
<1>1. Mine \subseteq Request /\ me \in Conn /\ \A r \in Request \ Mine : From[r] # me
  BY CallAssumption DEF Mine
<1>2. ASSUME NEW c \in Conn \ {me}, Add(c) \/ ClientClosed(c) PROVE Far
  BY <1>1, <1>2 DEF Add, ClientClosed, TypeOK, Far
<1>3. ASSUME NEW r \in Request \ Mine, Receive(r) \/ Continue(r) PROVE Far
  BY <1>1, <1>3, HandlerMoves DEF Far
<1>4. ASSUME NEW r \in Request, UnhandledRejection(r) PROVE Far
  BY <1>4 DEF UnhandledRejection, Far
<1>5. ASSUME NEW k \in consumers, ConsumerClosed(k) PROVE Far
  BY <1>5 DEF ConsumerClosed, Far
<1>6. ASSUME RouterClosed PROVE Far
  <2>1. \A r \in Mine : pc[r] # "producing"
    <3> SUFFICES ASSUME NEW r \in Mine, pc[r] = "producing" PROVE FALSE
      OBVIOUS
    <3>1. PICK t \in Script : r = Msg(t)
      BY DEF SelfInv
    <3>2. Type[r] = ProducerReq /\ Type[r] = t
      BY <1>1, <3>1, MsgFacts DEF StageInv, StageOf
    <3> QED
      BY <3>2 DEF Script, ProducerReq
  <2>2. \A r \in Mine :
          pc'[r] = pc[r] \/ (pc[r] \in {"creating", "consuming"} /\ pc'[r] = "doomed")
    BY <1>1, <1>6, <2>1 DEF RouterClosed, TypeOK
  <2> QED
    BY <1>6, <2>2 DEF RouterClosed, Far
<1>7. CASE UNCHANGED vars
  BY <1>7 DEF vars, Far
<1> QED
  BY <1>2, <1>3, <1>4, <1>5, <1>6, <1>7 DEF FarStep

\* What the arrival of a message of the participant does.
LEMMA ReceivesMine ==
  ASSUME IInv, StageInv, SelfInv, NEW t \in Script, Receive(Msg(t))
  PROVE  /\ pc[Msg(t)] = "idle" /\ status[me] = "open"
         /\ UNCHANGED <<snd, rcv, view>>
         /\ \/ t = CapsReq /\ Returns(Msg(t))
            \/ t = RtpCaps /\ pc'[Msg(t)] = "done" /\ answered' = answered
            \/ t \in Transports /\ Stays(Msg(t))
            \/ t = JoinReq /\ (Stays(Msg(t)) \/ Returns(Msg(t)))
<1> USE DEF IInv, transportVars, consumerVars
<1> DEFINE m == Msg(t)
<1>1. m \in Request /\ m \in Mine /\ From[m] = me /\ Type[m] = t
  BY MsgFacts
<1> HIDE DEF m
<1>2. Receive(m)
  BY DEF m
<1>3. pc[m] = "idle" /\ status[me] = "open"
  BY <1>1, <1>2 DEF Receive, GetRouterCapabilities, ClientRtpCapabilities,
     CreateTransport, AwaitWorker, JoinCall, CreateProducer, Arrives
<1>4. m \notin answered
  BY <1>1, <1>3 DEF SelfInv
<1>5. CASE GetRouterCapabilities(m)
  <2>1. t = CapsReq /\ UNCHANGED <<snd, rcv, view>>
    BY <1>1, <1>5 DEF GetRouterCapabilities, Arrives, CapsReq
  <2>2. Returns(m)
    BY <1>1, <1>3, <1>4, <1>5 DEF GetRouterCapabilities, Goto, Answer, TypeOK, Returns
  <2> QED
    BY <1>3, <2>1, <2>2 DEF m
<1>6. CASE ClientRtpCapabilities(m)
  <2>1. t = RtpCaps /\ UNCHANGED <<snd, rcv, view>>
    BY <1>1, <1>6 DEF ClientRtpCapabilities, Arrives, RtpCaps
  <2>2. pc'[m] = "done" /\ answered' = answered
    BY <1>1, <1>6 DEF ClientRtpCapabilities, Goto, TypeOK
  <2> QED
    BY <1>3, <2>1, <2>2 DEF m
<1>7. CASE CreateTransport(m)
  <2>1. t \in Transports /\ UNCHANGED <<snd, rcv, view>>
    BY <1>1, <1>7 DEF CreateTransport, Arrives, Transports, SndReq, RcvReq
  <2>2. TransportOf(m) = NoReq
    <3>1. t = SndReq => snd[me] = NoReq
      BY <1>3 DEF SelfInv, m
    <3>2. t = RcvReq => rcv[me] = NoReq
      BY <1>3 DEF SelfInv, m
    <3> QED
      BY <1>1, <2>1, <3>1, <3>2 DEF TransportOf, Transports, SndReq, RcvReq
  <2>3. Stays(m)
    BY <1>1, <1>7, <2>2 DEF CreateTransport, Goto, TypeOK, Stays
  <2> QED
    BY <1>3, <2>1, <2>3 DEF m
<1>8. CASE JoinCall(m)
  <2>1. t = JoinReq /\ UNCHANGED <<snd, rcv, view>>
    BY <1>1, <1>8 DEF JoinCall, Arrives, JoinReq
  <2>2. /\ prodMap' \in SUBSET Request /\ LoopStep(m, prodMap')
    BY <1>1, <1>8, LoopHandlers
  <2>3. \/ pc'[m] = "done" /\ Unvisited(m) = {}
        \/ pc'[m] \in {"outer", "consuming", "doomed"} /\ Unvisited(m) # {}
    BY <1>1, <2>2, LoopStepEffect DEF Consuming
  <2>4. Finishes(m) <=> Unvisited(m) = {}
    BY <1>1, <2>1 DEF Finishes, IsJoin, JoinReq
  <2>5. Stays(m) \/ Returns(m)
    BY <1>1, <1>3, <1>4, <1>8, <2>3, <2>4 DEF JoinCall, Answer, Stays, Returns
  <2> QED
    BY <1>3, <2>1, <2>5 DEF m
<1>9. ~AwaitWorker(m) /\ ~CreateProducer(m)
  BY <1>1 DEF AwaitWorker, CreateProducer, Arrives, Script
<1> QED
  BY <1>2, <1>5, <1>6, <1>7, <1>8, <1>9 DEF Receive

\* What the continuation of a handler of the participant does.
LEMMA ContinuesMine ==
  ASSUME IInv, StageInv, SelfInv, NEW t \in Script, Continue(Msg(t))
  PROVE  /\ pc[Msg(t)] \notin {"idle", "done"} /\ status[me] = "open"
         /\ \/ /\ t \in Transports /\ pc[Msg(t)] = "creating" /\ Returns(Msg(t))
               /\ snd'[me] = IF t = SndReq THEN Msg(t) ELSE snd[me]
               /\ rcv'[me] = IF t = RcvReq THEN Msg(t) ELSE rcv[me]
               /\ view' = view
            \/ /\ t = JoinReq /\ NextClient(Msg(t))
               /\ Stays(Msg(t)) \/ Returns(Msg(t))
               /\ UNCHANGED <<snd, rcv, view>>
            \/ /\ t = JoinReq /\ ConsumerCreated(Msg(t)) /\ Stays(Msg(t))
               /\ UNCHANGED <<snd, rcv>>
<1> USE DEF IInv, transportVars, consumerVars
<1> DEFINE m == Msg(t)
<1>1. m \in Request /\ m \in Mine /\ From[m] = me /\ Type[m] = t /\ me \in Conn
  BY MsgFacts, CallAssumption
<1> HIDE DEF m
<1>2. Continue(m)
  BY DEF m
<1>3. pc[m] \notin {"idle", "done"}
  BY <1>2 DEF Continue, TransportCreated, WorkerAcked, ProducerCreated, NextClient,
     ConsumerCreated
<1>4. status[me] = "open"
  BY <1>1, <1>3 DEF HandlerInv, SelfInv, TypeOK
<1>5. m \notin answered
  BY <1>1, <1>3 DEF SelfInv
<1>6. CASE TransportCreated(m)
  <2>1. pc[m] = "creating"
    BY <1>6 DEF TransportCreated
  <2>2. t \in Transports /\ (Type[m] = "create-transport-producing" <=> t = SndReq)
    BY <1>1, <2>1 DEF StageInv, StageOf, Transports, SndReq, RcvReq
  <2>3. Returns(m)
    BY <1>1, <1>4, <1>5, <1>6 DEF TransportCreated, Goto, Answer, TypeOK, Returns
  <2>4. /\ snd'[me] = IF t = SndReq THEN m ELSE snd[me]
        /\ rcv'[me] = IF t = RcvReq THEN m ELSE rcv[me]
        /\ view' = view
    BY <1>1, <1>6, <2>2 DEF TransportCreated, TypeOK, Transports, SndReq, RcvReq
  <2> QED
    BY <1>3, <1>4, <2>1, <2>2, <2>3, <2>4 DEF m
<1>7. CASE NextClient(m)
  <2>1. pc[m] = "outer" /\ UNCHANGED <<snd, rcv, view>>
    BY <1>7 DEF NextClient
  <2>2. t = JoinReq
    BY <1>1, <2>1 DEF StageInv, StageOf, Script, JoinReq, ProducerReq
  <2>3. prodMap' \in SUBSET Request /\ LoopStep(m, prodMap')
    BY <1>1, <1>7, LoopHandlers
  <2>4. \/ pc'[m] = "done" /\ Unvisited(m) = {}
        \/ pc'[m] \in {"outer", "consuming", "doomed"} /\ Unvisited(m) # {}
    BY <1>1, <2>3, LoopStepEffect DEF Consuming
  <2>5. Finishes(m) <=> Unvisited(m) = {}
    BY <1>1, <2>2 DEF Finishes, IsJoin, JoinReq
  <2>6. Stays(m) \/ Returns(m)
    BY <1>1, <1>4, <1>5, <1>7, <2>4, <2>5 DEF NextClient, Answer, Stays, Returns
  <2> QED
    BY <1>3, <1>4, <1>7, <2>1, <2>2, <2>6 DEF m
<1>8. CASE ConsumerCreated(m)
  <2>1. pc[m] = "consuming" /\ UNCHANGED <<snd, rcv, answered>>
    BY <1>8 DEF ConsumerCreated
  <2>2. t = JoinReq
    BY <1>1, <2>1 DEF StageInv, StageOf, Script, JoinReq, ProducerReq
  <2>3. pc'[m] \in {"outer", "consuming", "doomed"}
    BY <1>1, <1>8, ConsumerMoves DEF Consuming
  <2> QED
    BY <1>3, <1>4, <1>8, <2>1, <2>2, <2>3 DEF m, Stays
<1>9. ~WorkerAcked(m) /\ ~ProducerCreated(m)
  BY <1>1 DEF WorkerAcked, ProducerCreated, StageInv, StageOf, Script, ProducerReq
<1> QED
  BY <1>2, <1>6, <1>7, <1>8, <1>9 DEF Continue

SfuFrame == Downstream /\ UNCHANGED <<wire, unanswered, browserVars>>

LocalStep ==
  Local(Browser!Browser) \/ Local(Browser!Consumed \/ Browser!ConsumeRejected)

\* The steps of a call, by whose they are.
LEMMA CallSteps ==
  ASSUME IInv, SelfInv, [CallNext]_callVars
  PROVE  \/ Add(me) /\ SfuFrame
         \/ FarStep /\ SfuFrame
         \/ \E t \in Script :
              Continue(Msg(t)) /\ InOrder(Msg(t)) /\ SfuFrame
         \/ Arrival
         \/ LocalStep
         \/ UNCHANGED callVars
<1>1. CASE Sfu(Add(me))
  BY <1>1 DEF Sfu, SfuFrame
<1>2. CASE Sfu(Others)
  BY <1>2 DEF Sfu, SfuFrame, Others, FarStep
<1>3. ASSUME NEW r \in Request, Worker(r)
      PROVE  \/ FarStep /\ SfuFrame
             \/ \E t \in Script : Continue(Msg(t)) /\ InOrder(Msg(t)) /\ SfuFrame
  <2>1. SfuFrame /\ ((InOrder(r) /\ Continue(r)) \/ UnhandledRejection(r))
    BY <1>3 DEF Worker, Sfu, SfuFrame
  <2>2. CASE UnhandledRejection(r)
    BY <2>1, <2>2 DEF FarStep
  <2>3. CASE InOrder(r) /\ Continue(r) /\ r \notin Mine
    BY <2>1, <2>3 DEF FarStep
  <2>4. CASE InOrder(r) /\ Continue(r) /\ r \in Mine
    <3>1. pc[r] # "idle"
      BY <2>4 DEF Continue, TransportCreated, WorkerAcked, ProducerCreated, NextClient,
         ConsumerCreated
    <3>2. PICK t \in Script : r = Msg(t)
      BY <2>4, <3>1 DEF SelfInv
    <3> QED
      BY <2>1, <2>4, <3>2
  <2> QED
    BY <2>1, <2>2, <2>3, <2>4
<1>4. CASE Sfu(\E k \in consumers : ConsumerClosed(k))
  BY <1>4 DEF Sfu, SfuFrame, FarStep
<1> QED
  BY <1>1, <1>2, <1>3, <1>4 DEF CallNext, LocalStep

\* A message that arrives before room.add is the first one, and is lost; every
\* other one finds the listeners of the participant's client.
LEMMA ArrivalSteps ==
  ASSUME IInv, SelfInv, Progress, ReadInv, Arrival
  PROVE  /\ wire # <<>> /\ wire' = Tail(wire)
         /\ Downstream /\ UNCHANGED browserVars
         /\ \/ /\ status[me] # "open" /\ UNCHANGED vars /\ unanswered' = TRUE
               /\ phase = "capabilities" /\ wire = <<CapsReq>> /\ Idle(Script)
            \/ /\ status[me] = "open" /\ unanswered' = unanswered
               /\ Head(wire) \in Script /\ Receive(Msg(Head(wire)))
<1> USE DEF IInv
<1>1. /\ wire # <<>> /\ wire' = Tail(wire) /\ Downstream /\ UNCHANGED browserVars
      /\ IF status[me] = "open"
         THEN Receive(Msg(Head(wire))) /\ UNCHANGED unanswered
         ELSE UNCHANGED vars /\ unanswered' = TRUE
  BY DEF Arrival
<1>2. CASE status[me] = "open"
  <2>1. Head(wire) \in Script
    BY <1>1 DEF Progress, Script, CapsReq, RtpCaps, SndReq, RcvReq, JoinReq
  <2> QED
    BY <1>1, <1>2, <2>1
<1>3. CASE status[me] # "open"
  <2>1. \A t \in Script : pc[Msg(t)] = "idle"
    <3> SUFFICES ASSUME NEW t \in Script PROVE pc[Msg(t)] = "idle"
      OBVIOUS
    <3>1. status[me] = "absent"
      BY <1>3, CallAssumption DEF SelfInv, TypeOK
    <3> QED
      BY <3>1, MsgFacts DEF HandlerInv
  <2>2. phase = "capabilities"
    <3>1. CapsReq \in Script
      BY DEF Script, CapsReq
    <3>2. ~Read(CapsReq)
      BY <2>1, <3>1 DEF ReadInv
    <3> QED
      BY <3>2 DEF Read
  <2>3. wire = <<CapsReq>> /\ Idle(Script)
    <3>1. JoinReq \in Script
      BY DEF Script, JoinReq
    <3> QED
      BY <1>1, <2>1, <2>2, <3>1 DEF Progress, Idle
  <2> QED
    BY <1>1, <1>3, <2>2, <2>3
<1> QED
  BY <1>2, <1>3

\* Every step of a call is one of the room, or none.
LEMMA RoomSteps ==
  ASSUME IInv, SelfInv, Progress, ReadInv, [CallNext]_callVars
  PROVE  [Next]_vars
<1>1. CASE Add(me)
  BY <1>1, CallAssumption DEF Next
<1>2. CASE FarStep
  BY <1>2 DEF FarStep, Next
<1>3. ASSUME NEW t \in Script, Continue(Msg(t)) PROVE Next
  BY <1>3, MsgFacts DEF Next
<1>4. CASE Arrival
  <2>1. CASE UNCHANGED vars
    BY <2>1
  <2>2. CASE Head(wire) \in Script /\ Receive(Msg(Head(wire)))
    BY <2>2, MsgFacts DEF Next
  <2> QED
    BY <1>4, <2>1, <2>2, ArrivalSteps
<1>5. CASE LocalStep
  BY <1>5 DEF LocalStep, Local
<1>6. CASE UNCHANGED callVars
  BY <1>6 DEF callVars
<1> QED
  BY <1>1, <1>2, <1>3, <1>4, <1>5, <1>6, CallSteps

\* The participant keeps its transports, and only connect() sends for it.
LEMMA SelfStep ==
  ASSUME IInv, StageInv, SelfInv, Progress, ReadInv, [CallNext]_callVars
  PROVE  SelfInv'
<1> DEFINE S == Msg(SndReq)
           R == Msg(RcvReq)
<1>0. /\ SndReq \in Script /\ RcvReq \in Script /\ SndReq # RcvReq
      /\ S \in Mine /\ R \in Mine /\ S # R /\ me \in Conn /\ Mine \subseteq Request
      /\ Type[S] = SndReq /\ Type[R] = RcvReq
  <2>1. SndReq \in Script /\ RcvReq \in Script /\ SndReq # RcvReq
    BY DEF Script, SndReq, RcvReq
  <2> QED
    BY <2>1, MsgFacts, CallAssumption DEF Mine
<1>1. ASSUME Far PROVE SelfInv'
  <2>1. status'[me] # "closed"
    BY <1>1 DEF Far, SelfInv
  <2>2. \A r \in Mine : pc'[r] # "idle" => \E t \in Script : r = Msg(t)
    BY <1>1 DEF Far, SelfInv
  <2>3. \A r \in Mine \intersect answered' : pc'[r] = "done"
    BY <1>1 DEF Far, SelfInv
  <2>4. pc'[S] = "done" <=> pc[S] = "done"
    BY <1>0, <1>1 DEF Far
  <2>5. pc'[R] = "done" <=> pc[R] = "done"
    BY <1>0, <1>1 DEF Far
  <2> QED
    BY <1>1, <2>1, <2>2, <2>3, <2>4, <2>5 DEF Far, SelfInv
<1>2. ASSUME NEW t \in Script, status[me] = "open", Receive(Msg(t)) \/ Continue(Msg(t)),
             snd'[me] = IF t = SndReq /\ pc'[Msg(t)] = "done" THEN Msg(t) ELSE snd[me],
             rcv'[me] = IF t = RcvReq /\ pc'[Msg(t)] = "done" THEN Msg(t) ELSE rcv[me],
             answered' = answered \/ Returns(Msg(t))
      PROVE  SelfInv'
  <2> DEFINE m == Msg(t)
  <2>1. m \in Mine /\ m \in Request /\ Type[m] = t
    BY MsgFacts
  <2>2. /\ \A q \in Request \ {m} : pc'[q] = pc[q]
        /\ pc'[m] # "idle" /\ pc[m] # "done" /\ status' = status
    BY <1>2, <2>1, HandlerMoves
  <2>3. status'[me] # "closed"
    BY <1>2, <2>2
  <2>4. \A r \in Mine : pc'[r] # "idle" => \E u \in Script : r = Msg(u)
    BY <1>0, <2>2 DEF SelfInv
  <2>5. \A r \in Mine \intersect answered' : pc'[r] = "done"
    BY <1>0, <1>2, <2>2 DEF SelfInv, Returns
  <2>6. snd'[me] = IF pc'[S] = "done" THEN S ELSE NoReq
    <3>1. CASE t = SndReq
      BY <1>2, <2>2, <3>1 DEF SelfInv
    <3>2. CASE t # SndReq
      <4>1. S # m
        BY <1>0, <2>1, <3>2
      <4> QED
        BY <1>0, <1>2, <2>2, <3>2, <4>1 DEF SelfInv
    <3> QED
      BY <3>1, <3>2
  <2>7. rcv'[me] = IF pc'[R] = "done" THEN R ELSE NoReq
    <3>1. CASE t = RcvReq
      BY <1>2, <2>2, <3>1 DEF SelfInv
    <3>2. CASE t # RcvReq
      <4>1. R # m
        BY <1>0, <2>1, <3>2
      <4> QED
        BY <1>0, <1>2, <2>2, <3>2, <4>1 DEF SelfInv
    <3> QED
      BY <3>1, <3>2
  <2> QED
    BY <2>3, <2>4, <2>5, <2>6, <2>7 DEF SelfInv
<1>3. CASE Add(me)
  BY <1>0, <1>3 DEF Add, SelfInv, IInv, TypeOK, transportVars
<1>4. CASE FarStep
  BY <1>1, <1>4, FarSteps
<1>5. ASSUME NEW t \in Script, Continue(Msg(t)) PROVE SelfInv'
  <2>1. /\ status[me] = "open" /\ (answered' = answered \/ Returns(Msg(t)))
        /\ \/ t \notin Transports /\ UNCHANGED <<snd, rcv>>
           \/ /\ pc'[Msg(t)] = "done"
              /\ snd'[me] = IF t = SndReq THEN Msg(t) ELSE snd[me]
              /\ rcv'[me] = IF t = RcvReq THEN Msg(t) ELSE rcv[me]
    BY <1>5, ContinuesMine DEF Stays, Returns, Transports, SndReq, RcvReq, JoinReq
  <2> QED
    BY <1>2, <1>5, <2>1 DEF Transports
<1>6. ASSUME NEW t \in Script, Receive(Msg(t)) PROVE SelfInv'
  <2>1. /\ status[me] = "open" /\ UNCHANGED <<snd, rcv>>
        /\ t \in Transports => pc'[Msg(t)] # "done"
        /\ answered' = answered \/ Returns(Msg(t))
    BY <1>6, ReceivesMine DEF Stays, CapsReq, RtpCaps, JoinReq, Transports, SndReq, RcvReq
  <2>2. t \in {SndReq, RcvReq} => pc'[Msg(t)] # "done"
    BY <2>1 DEF Transports
  <2> QED
    BY <1>2, <1>6, <2>1, <2>2
<1>7. CASE Arrival
  <2>1. CASE UNCHANGED vars
    BY <1>4, <2>1 DEF FarStep
  <2>2. CASE Head(wire) \in Script /\ Receive(Msg(Head(wire)))
    BY <1>6, <2>2
  <2> QED
    BY <1>7, <2>1, <2>2, ArrivalSteps
<1>8. CASE UNCHANGED vars
  BY <1>4, <1>8 DEF FarStep
<1> QED
  BY <1>3, <1>4, <1>5, <1>7, <1>8, CallSteps DEF LocalStep, Local, callVars
-----------------------------------------------------------------------------
(* How far connect() has come.                                             *)

\* The handlers of connect()'s messages that have started, and those that have
\* returned, are the ones before the step, but for the messages of T.
Steady(T) ==
  \A t \in Script \ T :
    /\ pc'[Msg(t)] = "idle" <=> pc[Msg(t)] = "idle"
    /\ pc[Msg(t)] = "done" => pc'[Msg(t)] = "done"

\* Messages of different types are different, so a handler moves alone.
LEMMA OthersSteady ==
  ASSUME IInv, NEW t \in Script, Receive(Msg(t)) \/ Continue(Msg(t))
  PROVE  /\ Steady({t}) /\ pc'[Msg(t)] # "idle" /\ pc[Msg(t)] # "done"
         /\ \A u \in Script \ {t} : pc'[Msg(u)] = pc[Msg(u)]
<1>1. Msg(t) \in Request /\ Type[Msg(t)] = t
  BY MsgFacts
<1>2. /\ \A q \in Request \ {Msg(t)} : pc'[q] = pc[q]
      /\ pc'[Msg(t)] # "idle" /\ pc[Msg(t)] # "done"
  BY <1>1, HandlerMoves
<1>3. ASSUME NEW u \in Script \ {t} PROVE pc'[Msg(u)] = pc[Msg(u)]
  <2>1. Msg(u) \in Request /\ Type[Msg(u)] = u
    BY MsgFacts
  <2> QED
    BY <1>1, <1>2, <2>1
<1> QED
  BY <1>2, <1>3 DEF Steady

\* A step of the SFU that receives nothing from the participant starts none of
\* its handlers, and those that returned have returned.
LEMMA SfuSteady ==
  ASSUME IInv, StageInv, SelfInv,
         Add(me) \/ FarStep \/ \E t \in Script : Continue(Msg(t))
  PROVE  Steady({})
<1>1. CASE Add(me)
  BY <1>1 DEF Add, Steady
<1>2. CASE FarStep
  <2>1. Far
    BY <1>2, FarSteps
  <2> QED
    BY <2>1, MsgFacts DEF Far, Steady
<1>3. ASSUME NEW t \in Script, Continue(Msg(t)) PROVE Steady({})
  <2>1. pc[Msg(t)] \notin {"idle", "done"}
    BY <1>3, ContinuesMine
  <2> QED
    BY <1>3, <2>1, OthersSteady DEF Steady
<1> QED
  BY <1>1, <1>2, <1>3

\* Then connect() stands where it stood.
LEMMA ProgressKept ==
  ASSUME Progress, ReadInv, Steady({}), UNCHANGED <<wire, phase, answers>>
  PROVE  Progress' /\ ReadInv'
<1>1. \A t \in Script :
        /\ pc'[Msg(t)] = "idle" <=> pc[Msg(t)] = "idle"
        /\ pc[Msg(t)] = "done" => pc'[Msg(t)] = "done"
  BY DEF Steady
<1>2. ASSUME NEW T \in SUBSET Script PROVE Idle(T)' <=> Idle(T)
  BY <1>1, <1>2 DEF Idle
<1>3. /\ Script \in SUBSET Script /\ Script \ {CapsReq} \in SUBSET Script
      /\ {SndReq, RcvReq, JoinReq} \in SUBSET Script /\ {RcvReq, JoinReq} \in SUBSET Script
      /\ {JoinReq} \in SUBSET Script /\ SndReq \in Script /\ RcvReq \in Script
      /\ JoinReq \in Script
  BY DEF Script, SndReq, RcvReq, JoinReq
<1>4. Progress'
  BY <1>1, <1>2, <1>3 DEF Progress
<1>5. ReadInv'
  BY <1>1 DEF ReadInv, Read
<1> QED
  BY <1>4, <1>5

\* The messages of connect() arrive in the order in which it sends them.
LEMMA ProgressArrival ==
  ASSUME IInv, StageInv, SelfInv, Progress, ReadInv, Arrival
  PROVE  Progress' /\ ReadInv'
<1>0. /\ CapsReq \in Script /\ RtpCaps \in Script /\ SndReq \in Script
      /\ RcvReq \in Script /\ JoinReq \in Script
  BY DEF Script, CapsReq, RtpCaps, SndReq, RcvReq, JoinReq
<1>1. wire # <<>> /\ wire' = Tail(wire) /\ UNCHANGED <<phase, answers>>
  BY ArrivalSteps DEF browserVars
<1>2. CASE UNCHANGED vars /\ phase = "capabilities" /\ wire = <<CapsReq>> /\ Idle(Script)
  <2>1. pc' = pc
    BY <1>2 DEF vars
  <2>2. wire' = <<>>
    BY <1>1, <1>2
  <2>3. Idle(Script \ {CapsReq})'
    BY <1>2, <2>1 DEF Idle
  <2>4. Progress'
    BY <1>1, <1>2, <2>2, <2>3 DEF Progress
  <2>5. ReadInv'
    BY <1>1, <2>1 DEF ReadInv, Read
  <2> QED
    BY <2>4, <2>5
<1>3. ASSUME NEW t \in Script, t = Head(wire), Receive(Msg(t))
      PROVE  Progress' /\ ReadInv'
  <2>1. /\ pc'[Msg(t)] # "idle" /\ pc[Msg(t)] = "idle"
        /\ \A u \in Script \ {t} : pc'[Msg(u)] = pc[Msg(u)]
    BY <1>3, OthersSteady, ReceivesMine
  <2>2. ReadInv'
    BY <1>1, <2>1 DEF ReadInv, Read
  <2>3. ASSUME NEW T \in SUBSET Script, Idle(T), t \notin T PROVE Idle(T)'
    BY <2>1, <2>3 DEF Idle
  <2>4. ASSUME NEW T \in SUBSET Script, Idle(T), NEW U \in SUBSET T PROVE Idle(U)
    BY <2>4 DEF Idle
  <2>5. CASE phase = "capabilities" /\ wire = <<CapsReq>> /\ Idle(Script)
    <3>1. t = CapsReq /\ wire' = <<>>
      BY <1>1, <1>3, <2>5
    <3>2. Idle(Script \ {CapsReq})'
      BY <2>3, <2>4, <2>5, <3>1
    <3> QED
      BY <1>1, <2>2, <2>5, <3>1, <3>2 DEF Progress
  <2>6. CASE phase = "transports" /\ wire = <<RtpCaps, SndReq, RcvReq>>
             /\ Idle(Script \ {CapsReq})
    <3>1. t = RtpCaps /\ wire' = <<SndReq, RcvReq>>
      BY <1>1, <1>3, <2>6
    <3>2. {SndReq, RcvReq, JoinReq} \in SUBSET (Script \ {CapsReq})
          /\ RtpCaps \notin {SndReq, RcvReq, JoinReq}
      BY <1>0 DEF CapsReq, RtpCaps, SndReq, RcvReq, JoinReq
    <3>3. Idle({SndReq, RcvReq, JoinReq})
      BY <2>4, <2>6, <3>2
    <3>4. Idle({SndReq, RcvReq, JoinReq})'
      BY <2>3, <3>1, <3>2, <3>3
    <3> QED
      BY <1>1, <2>2, <2>6, <3>1, <3>4 DEF Progress
  <2>7. CASE phase = "transports" /\ wire = <<SndReq, RcvReq>>
             /\ Idle({SndReq, RcvReq, JoinReq})
    <3>1. t = SndReq /\ wire' = <<RcvReq>>
      BY <1>1, <1>3, <2>7
    <3>2. {RcvReq, JoinReq} \in SUBSET {SndReq, RcvReq, JoinReq}
          /\ SndReq \notin {RcvReq, JoinReq}
          /\ {SndReq, RcvReq, JoinReq} \in SUBSET Script /\ {RcvReq, JoinReq} \in SUBSET Script
      BY <1>0 DEF SndReq, RcvReq, JoinReq
    <3>3. Idle({RcvReq, JoinReq})'
      BY <2>3, <2>4, <2>7, <3>1, <3>2
    <3> QED
      BY <1>1, <2>1, <2>2, <2>7, <3>1, <3>3 DEF Progress
  <2>8. CASE /\ phase = "transports" /\ wire = <<RcvReq>>
             /\ pc[Msg(SndReq)] # "idle" /\ Idle({RcvReq, JoinReq})
    <3>1. t = RcvReq /\ wire' = <<>>
      BY <1>1, <1>3, <2>8
    <3>2. {JoinReq} \in SUBSET {RcvReq, JoinReq} /\ RcvReq # JoinReq /\ RcvReq # SndReq
          /\ {RcvReq, JoinReq} \in SUBSET Script /\ {JoinReq} \in SUBSET Script
      BY <1>0 DEF SndReq, RcvReq, JoinReq
    <3>3. Idle({JoinReq})' /\ pc'[Msg(SndReq)] # "idle" /\ pc'[Msg(RcvReq)] # "idle"
      BY <1>0, <2>1, <2>3, <2>4, <2>8, <3>1, <3>2
    <3> QED
      BY <1>1, <2>2, <2>8, <3>1, <3>3 DEF Progress
  <2>9. CASE phase = "joining" /\ wire = <<JoinReq>> /\ Idle({JoinReq})
    <3>1. t = JoinReq /\ wire' = <<>>
      BY <1>1, <1>3, <2>9
    <3> QED
      BY <1>1, <2>1, <2>2, <2>9, <3>1 DEF Progress
  <2> QED
    BY <1>1, <2>5, <2>6, <2>7, <2>8, <2>9 DEF Progress
<1> QED
  BY <1>2, <1>3, ArrivalSteps

\* Concatenation of queues is associative.
Associative(a, b, c) == (a \o b) \o c = a \o (b \o c)

LEMMA QueuesAssociate ==
  \A S : \A a, b, c \in Seq(S) : Associative(a, b, c)
  BY ConcatAssociative, Zenon DEF Associative

\* What the browser sends is put behind what is on its way.
Behind(q, w, b, x) == q \o (w \o b) = (q \o w) \o x

LEMMA SentBehind ==
  ASSUME NEW q \in Seq(Script), NEW w \in Seq(Script), NEW b \in Seq(Script),
         NEW x \in Seq(Script), Behind(q, w, b, x)
  PROVE  b = x
<1>1. q \o (w \o b) = q \o (w \o x)
  <2>1. Associative(q, w, x)
    BY QueuesAssociate
  <2> QED
    BY <2>1 DEF Behind, Associative
<1>2. w \o b \in Seq(Script) /\ w \o x \in Seq(Script)
  BY ConcatProperties
<1>3. w \o b = w \o x
  BY <1>1, <1>2, ConcatSimplifications
<1> QED
  BY <1>3, ConcatSimplifications

\* The messages on their way, and the requests in service, are connect()'s.
LEMMA ScriptSeqs ==
  ASSUME Progress
  PROVE  InService \in Seq(Script) /\ wire \in Seq(Script)
<1>0. /\ CapsReq \in Script /\ RtpCaps \in Script /\ SndReq \in Script
      /\ RcvReq \in Script /\ JoinReq \in Script
  BY DEF Script, CapsReq, RtpCaps, SndReq, RcvReq, JoinReq
<1>1. ASSUME NEW t \in Script PROVE Waits(t) \in Seq(Script)
  BY DEF Waits
<1>2. InService = (Waits(SndReq) \o Waits(RcvReq)) \o Waits(JoinReq)
  BY DEF InService, SndReq, RcvReq, JoinReq
<1>3. InService \in Seq(Script)
  BY <1>0, <1>1, <1>2, ConcatProperties
<1>4. /\ <<>> \in Seq(Script) /\ <<CapsReq>> \in Seq(Script)
      /\ <<RcvReq>> \in Seq(Script) /\ <<JoinReq>> \in Seq(Script)
      /\ <<SndReq, RcvReq>> \in Seq(Script)
  BY <1>0
<1>5. <<RtpCaps, SndReq, RcvReq>> \in Seq(Script)
  BY <1>0
<1>6. wire \in Seq(Script)
  BY <1>4, <1>5 DEF Progress
<1> QED
  BY <1>3, <1>6

\* The answers connect() takes, and what it sends upon them.
TakesAnswer(t) ==
  /\ inbox # <<>> /\ inbox' = Tail(inbox) /\ Head(inbox) = <<"answer", t>>
  /\ pc[Msg(t)] = "done" /\ ~Read(t)
  /\ \/ t = CapsReq /\ phase' = "loading" /\ UNCHANGED <<answers, wire>>
     \/ /\ t \in Transports /\ answers' = answers \union {t}
        /\ IF answers' = Transports
           THEN phase' = "joining" /\ wire' = wire \o <<JoinReq>>
           ELSE UNCHANGED <<phase, wire>>
     \/ t = JoinReq /\ phase' = "connected" /\ UNCHANGED <<answers, wire>>

Loads ==
  /\ phase = "loading" /\ phase' = "transports" /\ UNCHANGED <<answers, inbox>>
  /\ wire' = wire \o <<RtpCaps, SndReq, RcvReq>>

Fails ==
  phase = "loading" /\ phase' = "failed" /\ UNCHANGED <<answers, inbox, wire>>

TakesOther ==
  /\ UNCHANGED <<phase, answers, wire>>
  /\ \/ inbox' = inbox
     \/ inbox # <<>> /\ Head(inbox)[1] # "answer" /\ inbox' = Tail(inbox)

LEMMA LocalSteps ==
  ASSUME Progress, InboxType, AnswerInv, LocalStep
  PROVE  /\ UNCHANGED <<vars, told, unanswered>>
         /\ Loads \/ Fails \/ TakesOther \/ \E t \in Script : TakesAnswer(t)
<1>0. /\ CapsReq \in Script /\ RtpCaps \in Script /\ SndReq \in Script
      /\ RcvReq \in Script /\ JoinReq \in Script
  BY DEF Script, CapsReq, RtpCaps, SndReq, RcvReq, JoinReq
<1>1. UNCHANGED <<vars, told, unanswered>> /\ \E b \in Batch : wire' = wire \o b
  BY DEF LocalStep, Local
<1>2. PICK b \in Batch : wire' = wire \o b
  BY <1>1
<1>3. b \in Seq(Script)
  <2>1. <<>> \in Seq(Script) /\ <<JoinReq>> \in Seq(Script)
    BY <1>0
  <2>2. <<RtpCaps, SndReq, RcvReq>> \in Seq(Script)
    BY <1>0
  <2>3. Batch = {<<>>, <<JoinReq>>, <<RtpCaps, SndReq, RcvReq>>}
    BY DEF Batch, RtpCaps, SndReq, RcvReq, JoinReq
  <2> QED
    BY <2>1, <2>2, <2>3
<1>4. InService' = InService
  BY <1>1 DEF InService, Waits, vars
<1>5. ASSUME NEW x \in Seq(Script), InService' \o wire' = (InService \o wire) \o x
      PROVE  wire' = wire \o x
  <2>1. Behind(InService, wire, b, x)
    BY <1>2, <1>4, <1>5 DEF Behind
  <2>2. InService \in Seq(Script) /\ wire \in Seq(Script)
    BY ScriptSeqs
  <2>3. b = x
    BY <1>3, <1>5, <2>1, <2>2, SentBehind
  <2> QED
    BY <1>2, <2>3
<1>6. ASSUME InService' \o wire' = InService \o wire PROVE wire' = wire
  <2>1. InService \o wire \in Seq(Script) /\ <<>> \in Seq(Script)
    BY ScriptSeqs, ConcatProperties
  <2>2. (InService \o wire) \o <<>> = InService \o wire /\ wire \o <<>> = wire
    BY <2>1, ScriptSeqs, ConcatEmptySeq
  <2> QED
    BY <1>5, <1>6, <2>1, <2>2
<1>7. CASE Browser!Answered
  <2>1. inbox # <<>> /\ Head(inbox)[1] = "answer" /\ inbox' = Tail(inbox)
    BY <1>7 DEF Browser!Answered, Browser!Receive
  <2>2. 1 \in 1 .. Len(inbox) /\ Head(inbox) = inbox[1]
    BY <2>1 DEF InboxType
  <2>3. PICK t \in Script \ {RtpCaps} :
          Head(inbox) = <<"answer", t>> /\ pc[Msg(t)] = "done" /\ ~Read(t)
    BY <2>1, <2>2 DEF AnswerInv, Unread
  <2>4. Head(inbox)[2] = t
    BY <2>3
  <2>5. \/ t = CapsReq /\ phase' = "loading" /\ answers' = answers
           /\ InService' \o wire' = InService \o wire
        \/ /\ t \in Transports /\ answers' = answers \union {t}
           /\ IF answers' = Transports
              THEN phase' = "joining" /\ InService' \o wire' = Append(InService \o wire, JoinReq)
              ELSE phase' = phase /\ InService' \o wire' = InService \o wire
        \/ t = JoinReq /\ phase' = "connected" /\ answers' = answers
           /\ InService' \o wire' = InService \o wire
    BY <1>7, <2>3, <2>4
    DEF Browser!Answered, Browser!TransportAnswers, Transports, Script,
        CapsReq, RtpCaps, SndReq, RcvReq, JoinReq
  <2>6. Append(InService \o wire, JoinReq) = (InService \o wire) \o <<JoinReq>>
    <3>1. InService \o wire \in Seq(Script)
      BY ScriptSeqs, ConcatProperties
    <3> QED
      BY <1>0, <3>1, AppendIsConcat
  <2>7. <<JoinReq>> \in Seq(Script)
    BY <1>0
  <2>8. TakesAnswer(t)
    BY <1>5, <1>6, <2>1, <2>3, <2>5, <2>6, <2>7 DEF TakesAnswer
  <2> QED
    BY <1>1, <2>8
<1>8. CASE Browser!DeviceLoaded
  <2>1. /\ phase = "loading" /\ phase' = "transports" /\ UNCHANGED <<answers, inbox>>
        /\ InService' \o wire' = (InService \o wire) \o <<RtpCaps, SndReq, RcvReq>>
    BY <1>8 DEF Browser!DeviceLoaded, RtpCaps, SndReq, RcvReq
  <2>2. <<RtpCaps, SndReq, RcvReq>> \in Seq(Script)
    BY <1>0
  <2> QED
    BY <1>1, <1>5, <2>1, <2>2 DEF Loads
<1>9. CASE Browser!Rendered \/ Browser!Consumed \/ Browser!ConsumeRejected
  <2>1. UNCHANGED <<phase, answers, inbox>> /\ InService' \o wire' = InService \o wire
    BY <1>9 DEF Browser!Rendered, Browser!Consumed, Browser!ConsumeRejected,
       Browser!connectVars
  <2> QED
    BY <1>1, <1>6, <2>1 DEF TakesOther
<1>10. CASE Browser!ConsumerCreated \/ Browser!ConsumerClosed
  <2>1. /\ UNCHANGED <<phase, answers>> /\ InService' \o wire' = InService \o wire
        /\ inbox # <<>> /\ Head(inbox)[1] \in {"created", "closed"} /\ inbox' = Tail(inbox)
    BY <1>10 DEF Browser!ConsumerCreated, Browser!ConsumerClosed, Browser!Receive,
       Browser!connectVars
  <2> QED
    BY <1>1, <1>6, <2>1 DEF TakesOther
<1>11. CASE Browser!DeviceRejected
  <2>1. /\ phase = "loading" /\ phase' = "failed" /\ UNCHANGED <<answers, inbox>>
        /\ InService' \o wire' = InService \o wire
    BY <1>11 DEF Browser!DeviceRejected
  <2> QED
    BY <1>1, <1>6, <2>1 DEF Fails
<1> QED
  BY <1>7, <1>8, <1>9, <1>10, <1>11 DEF LocalStep, Local, Browser!Browser

\* connect() goes from one await to the next with the answers it waits for.
LEMMA ProgressLocal ==
  ASSUME Progress, ReadInv, InboxType, AnswerInv, LocalStep
  PROVE  Progress' /\ ReadInv'
<1>0. /\ CapsReq \in Script /\ RtpCaps \in Script /\ SndReq \in Script
      /\ RcvReq \in Script /\ JoinReq \in Script
  BY DEF Script, CapsReq, RtpCaps, SndReq, RcvReq, JoinReq
<1>1. pc' = pc
  BY LocalSteps DEF vars
<1>2. Transports = {SndReq, RcvReq} /\ CapsReq \notin Transports /\ JoinReq \notin Transports
      /\ CapsReq # JoinReq
  BY DEF Transports, CapsReq, SndReq, RcvReq, JoinReq
<1>3. ASSUME NEW T PROVE Idle(T)' <=> Idle(T)
  BY <1>1 DEF Idle
<1>4. ASSUME NEW t \in Script, TakesAnswer(t), t = CapsReq
      PROVE  Progress' /\ ReadInv'
  <2>1. /\ phase' = "loading" /\ UNCHANGED <<answers, wire>>
        /\ pc[Msg(CapsReq)] = "done" /\ phase = "capabilities"
    BY <1>2, <1>4 DEF TakesAnswer, Read
  <2>2. ~Idle(Script)
    BY <1>0, <2>1 DEF Idle
  <2>3. wire = <<>> /\ Idle(Script \ {CapsReq})
    BY <2>1, <2>2 DEF Progress
  <2>4. Progress'
    BY <1>3, <2>1, <2>3 DEF Progress
  <2>5. ReadInv'
    BY <1>1, <2>1 DEF ReadInv, Read
  <2> QED
    BY <2>4, <2>5
<1>5. ASSUME NEW t \in Script, TakesAnswer(t), t \in Transports
      PROVE  Progress' /\ ReadInv'
  <2>1. /\ answers' = answers \union {t} /\ t \notin answers /\ pc[Msg(t)] = "done"
        /\ IF answers' = Transports
           THEN phase' = "joining" /\ wire' = wire \o <<JoinReq>>
           ELSE UNCHANGED <<phase, wire>>
    BY <1>2, <1>5 DEF TakesAnswer, Read
  <2>2. phase \notin {"joining", "connected"} /\ answers \subseteq Transports
    BY <1>5, <2>1 DEF ReadInv
  <2>3. ASSUME NEW T, Idle(T) PROVE t \notin T
    BY <2>1, <2>3 DEF Idle
  <2>4. t \in Script \ {CapsReq} /\ t \in {SndReq, RcvReq, JoinReq}
    BY <1>2, <1>5
  <2>5. phase = "transports"
    BY <2>2, <2>3, <2>4 DEF Progress
  <2>6. \A u \in answers' : pc[Msg(u)] = "done"
    <3>1. \A u \in answers : u \in Script /\ Read(u)
      BY <1>0, <1>2, <2>2 DEF Read
    <3> QED
      BY <2>1, <3>1 DEF ReadInv
  <2>7. \A u \in Script : Read(u)' => pc'[Msg(u)] = "done"
    <3>1. ASSUME NEW u \in Script, Read(u)' PROVE Read(u) \/ u \in answers'
      BY <2>1, <2>5, <3>1 DEF Read
    <3> QED
      BY <1>1, <2>6, <3>1 DEF ReadInv
  <2>8. CASE answers' = Transports
    <3>1. pc[Msg(SndReq)] # "idle" /\ pc[Msg(RcvReq)] # "idle"
      BY <1>2, <2>6, <2>8
    <3>2. ~Idle({RcvReq, JoinReq}) /\ ~Idle({SndReq, RcvReq, JoinReq})
          /\ ~Idle(Script \ {CapsReq})
      BY <1>0, <1>2, <3>1 DEF Idle
    <3>3. wire = <<>> /\ Idle({JoinReq})
      BY <2>5, <3>2 DEF Progress
    <3>4. wire' = <<JoinReq>> /\ phase' = "joining"
      BY <2>1, <2>8, <3>3
    <3>5. Progress'
      BY <1>3, <3>3, <3>4 DEF Progress
    <3> QED
      BY <2>7, <2>8, <3>4, <3>5 DEF ReadInv
  <2>9. CASE answers' # Transports
    <3>1. UNCHANGED <<phase, wire>>
      BY <2>1, <2>9
    <3>2. Progress'
      BY <1>1, <1>3, <3>1 DEF Progress
    <3>3. answers' \subseteq Transports /\ phase' \notin {"joining", "connected"}
      BY <1>5, <2>1, <2>2, <3>1
    <3> QED
      BY <2>7, <2>9, <3>2, <3>3 DEF ReadInv
  <2> QED
    BY <2>8, <2>9
<1>6. ASSUME NEW t \in Script, TakesAnswer(t), t = JoinReq
      PROVE  Progress' /\ ReadInv'
  <2>1. /\ phase' = "connected" /\ UNCHANGED <<answers, wire>>
        /\ pc[Msg(JoinReq)] = "done"
    BY <1>2, <1>6 DEF TakesAnswer
  <2>2. ASSUME NEW T, Idle(T) PROVE JoinReq \notin T
    BY <2>1, <2>2 DEF Idle
  <2>3. JoinReq \in Script \ {CapsReq}
    BY <1>0, <1>2
  <2>4. phase \in {"joining", "connected"} /\ wire = <<>>
    BY <1>0, <2>2, <2>3 DEF Progress
  <2>5. Progress'
    BY <1>1, <2>1, <2>4 DEF Progress
  <2>6. ASSUME NEW u \in Script, Read(u)' PROVE Read(u) \/ u = JoinReq
    BY <2>1, <2>4, <2>6 DEF Read
  <2>7. ReadInv'
    BY <1>1, <2>1, <2>4, <2>6 DEF ReadInv
  <2> QED
    BY <2>5, <2>7
<1>7. CASE Loads
  <2>1. /\ phase = "loading" /\ phase' = "transports" /\ answers' = answers
        /\ wire' = wire \o <<RtpCaps, SndReq, RcvReq>>
    BY <1>7 DEF Loads
  <2>2. wire = <<>> /\ Idle(Script \ {CapsReq})
    BY <2>1 DEF Progress
  <2>3. wire' = <<RtpCaps, SndReq, RcvReq>>
    BY <2>1, <2>2
  <2>4. Progress'
    BY <1>3, <2>1, <2>2, <2>3 DEF Progress
  <2>5. ReadInv'
    BY <1>1, <2>1 DEF ReadInv, Read
  <2> QED
    BY <2>4, <2>5
<1>8. CASE TakesOther
  <2>1. UNCHANGED <<phase, answers, wire>>
    BY <1>8 DEF TakesOther
  <2>2. Progress'
    BY <1>1, <1>3, <2>1 DEF Progress
  <2>3. ReadInv'
    BY <1>1, <2>1 DEF ReadInv, Read
  <2> QED
    BY <2>2, <2>3
<1>9. CASE Fails
  <2>1. phase = "loading" /\ phase' = "failed" /\ UNCHANGED <<answers, wire>>
    BY <1>9 DEF Fails
  <2>2. wire = <<>> /\ Idle(Script \ {CapsReq})
    BY <2>1 DEF Progress
  <2>3. Progress'
    BY <1>3, <2>1, <2>2 DEF Progress
  <2>4. ReadInv'
    BY <1>1, <2>1 DEF ReadInv, Read
  <2> QED
    BY <2>3, <2>4
<1> QED
  BY <1>4, <1>5, <1>6, <1>7, <1>8, <1>9, LocalSteps DEF TakesAnswer

\* connect() advances with the answers of the room, and with nothing else.
LEMMA ProgressStep ==
  ASSUME IInv, StageInv, SelfInv, Progress, ReadInv, InboxType, AnswerInv,
         [CallNext]_callVars
  PROVE  Progress' /\ ReadInv'
<1>1. CASE Arrival
  BY <1>1, ProgressArrival
<1>2. CASE LocalStep
  BY <1>2, ProgressLocal
<1>3. CASE /\ SfuFrame
           /\ Add(me) \/ FarStep \/ \E t \in Script : Continue(Msg(t))
  <2>1. UNCHANGED <<wire, phase, answers>>
    BY <1>3 DEF SfuFrame, browserVars
  <2>2. Steady({})
    BY <1>3, SfuSteady
  <2> QED
    BY <2>1, <2>2, ProgressKept
<1>4. CASE UNCHANGED callVars
  BY <1>4, ProgressKept DEF callVars, vars, browserVars, Steady
<1> QED
  BY <1>1, <1>2, <1>3, <1>4, CallSteps
-----------------------------------------------------------------------------
(* What a step of the room sends to the participant.                       *)

OfMine(K) == {k \in K : k.conn = me}

\* The parts of Downstream
LEMMA DownParts ==
  ASSUME InboxType, Downstream,
         NEW sent, sent = {<<"answer", Type[r]>> : r \in Mine \intersect (answered' \ answered)}
  PROVE  inbox' = ((inbox \o SetToSeq(sent)) \o SetToSeq({"created"} \X OfMine(view' \ view)))
                    \o SetToSeq({"closed"} \X OfMine(view \ view'))
  BY DEF Downstream, OfMine

\* An answer goes out alone.
LEMMA DownAnswer ==
  ASSUME InboxType, Downstream, NEW m \in Mine, Returns(m), view' = view
  PROVE  inbox' = Append(inbox, <<"answer", Type[m]>>) /\ told' = told
<1> DEFINE sent == {<<"answer", Type[r]>> : r \in Mine \intersect (answered' \ answered)}
           a == <<"answer", Type[m]>>
<1>1. Mine \intersect (answered' \ answered) = {m}
  BY DEF Returns
<1>2. sent = {a}
  BY <1>1
<1>3. OfMine(view' \ view) = {} /\ OfMine(view \ view') = {}
  BY DEF OfMine
<1>4. \A x : {x} \X {} = {}
  OBVIOUS
<1>5. inbox' = ((inbox \o SetToSeq(sent)) \o SetToSeq({})) \o SetToSeq({})
  BY <1>3, <1>4, DownParts
<1>6. a \in Letters
  BY ConstantsAssumption DEF Letters, Mine
<1> HIDE DEF a, sent
<1>7. inbox' = ((inbox \o <<a>>) \o <<>>) \o <<>>
  BY <1>2, <1>5, SetToSeqOne, SetToSeqNone
<1>8. inbox \in Seq(Letters) /\ <<a>> \in Seq(Letters)
  BY <1>6 DEF InboxType
<1>9. inbox \o <<a>> \in Seq(Letters) /\ Append(inbox, a) = inbox \o <<a>>
  BY <1>6, <1>8, ConcatProperties, AppendIsConcat
<1>10. inbox' = Append(inbox, a)
  BY <1>7, <1>9, ConcatEmptySeq
<1>11. told' = told
  BY DEF Downstream
<1> QED
  BY <1>10, <1>11 DEF a

\* When nothing is answered, only announcements and retractions go out.
LEMMA DownView ==
  ASSUME InboxType, Downstream, Mine \intersect answered' = Mine \intersect answered
  PROVE  inbox' = (inbox \o SetToSeq({"created"} \X OfMine(view' \ view)))
                    \o SetToSeq({"closed"} \X OfMine(view \ view'))
<1> DEFINE sent == {<<"answer", Type[r]>> : r \in Mine \intersect (answered' \ answered)}
<1>1. Mine \intersect (answered' \ answered) = {}
  OBVIOUS
<1>2. sent = {}
  BY <1>1
<1>3. inbox' = ((inbox \o SetToSeq(sent)) \o SetToSeq({"created"} \X OfMine(view' \ view)))
                 \o SetToSeq({"closed"} \X OfMine(view \ view'))
  BY DownParts
<1> HIDE DEF sent
<1>4. inbox \o SetToSeq(sent) = inbox
  BY <1>2, SetToSeqNone, ConcatEmptySeq DEF InboxType
<1> QED
  BY <1>3, <1>4

LEMMA DownRetracts ==
  ASSUME InboxType, Downstream, Mine \intersect answered' = Mine \intersect answered,
         OfMine(view' \ view) = {}
  PROVE  inbox' = inbox \o SetToSeq({"closed"} \X OfMine(view \ view'))
<1>1. inbox' = (inbox \o SetToSeq({"created"} \X OfMine(view' \ view)))
                 \o SetToSeq({"closed"} \X OfMine(view \ view'))
  BY DownView
<1>2. {"created"} \X OfMine(view' \ view) = {}
  OBVIOUS
<1>3. inbox \o SetToSeq({"created"} \X OfMine(view' \ view)) = inbox
  BY <1>2, SetToSeqNone, ConcatEmptySeq DEF InboxType
<1> QED
  BY <1>1, <1>3

LEMMA DownNothing ==
  ASSUME InboxType, Downstream, Mine \intersect answered' = Mine \intersect answered,
         OfMine(view' \ view) = {}, OfMine(view \ view') = {}
  PROVE  inbox' = inbox
<1>1. inbox' = inbox \o SetToSeq({"closed"} \X OfMine(view \ view'))
  BY DownRetracts
<1>2. {"closed"} \X OfMine(view \ view') = {}
  OBVIOUS
<1> QED
  BY <1>1, <1>2, SetToSeqNone, ConcatEmptySeq DEF InboxType

LEMMA DownAnnounces ==
  ASSUME InboxType, Downstream, Mine \intersect answered' = Mine \intersect answered,
         NEW k \in Consumer, k.conn = me, k \notin view, view' = view \union {k}
  PROVE  inbox' = Append(inbox, <<"created", k>>) /\ told' = told \union {k}
<1> DEFINE a == <<"created", k>>
<1>1. OfMine(view' \ view) = {k} /\ OfMine(view \ view') = {} /\ view' \ view = {k}
  BY DEF OfMine
<1>2. inbox' = (inbox \o SetToSeq({"created"} \X {k})) \o SetToSeq({"closed"} \X {})
  BY <1>1, DownView
<1>3. {"created"} \X {k} = {a} /\ {"closed"} \X {} = {}
  OBVIOUS
<1>4. a \in Letters
  BY DEF Letters
<1> HIDE DEF a
<1>5. inbox' = (inbox \o <<a>>) \o <<>>
  BY <1>2, <1>3, SetToSeqOne, SetToSeqNone
<1>6. inbox \in Seq(Letters) /\ <<a>> \in Seq(Letters)
  BY <1>4 DEF InboxType
<1>7. inbox \o <<a>> \in Seq(Letters) /\ Append(inbox, a) = inbox \o <<a>>
  BY <1>4, <1>6, ConcatProperties, AppendIsConcat
<1>8. inbox' = Append(inbox, a)
  BY <1>5, <1>7, ConcatEmptySeq
<1>9. told' = told \union {k}
  BY <1>1 DEF Downstream
<1> QED
  BY <1>8, <1>9 DEF a

\* The view of the clients shrinks, or grows by the consumer a handler made.
LEMMA ViewSteps ==
  ASSUME [Next]_vars
  PROVE  \/ view' \subseteq view
         \/ \E r \in Request : ConsumerCreated(r) /\ view' = view \union {Making(r)}
<1> USE DEF consumerVars
<1>1. ASSUME NEW r \in Request, ConsumerCreated(r)
      PROVE  view' \subseteq view \/ view' = view \union {Making(r)}
  BY <1>1 DEF ConsumerCreated, Making
<1>2. ASSUME NEW c \in Conn, ClientClosed(c) PROVE view' \subseteq view
  BY <1>2 DEF ClientClosed, CloseTransports
<1>3. ASSUME RouterClosed PROVE view' \subseteq view
  BY <1>3 DEF RouterClosed, CloseTransports
<1>4. ASSUME NEW k \in consumers, ConsumerClosed(k) PROVE view' \subseteq view
  BY <1>4 DEF ConsumerClosed
<1> QED
  BY <1>1, <1>2, <1>3, <1>4
  DEF Next, Receive, Continue, Add, GetRouterCapabilities, ClientRtpCapabilities,
      CreateTransport, TransportCreated, AwaitWorker, WorkerAcked, JoinCall,
      CreateProducer, ProducerCreated, NextClient, UnhandledRejection, vars

SendsAnswer(t) ==
  /\ t \in Script \ {RtpCaps} /\ Returns(Msg(t))
  /\ UNCHANGED <<view, told>>
  /\ inbox' = Append(inbox, <<"answer", t>>)

SendsNoAnswer == Mine \intersect answered' = Mine \intersect answered

Announces(r) ==
  /\ ConsumerCreated(r) /\ MakesMine(r) /\ SendsNoAnswer
  /\ view' = view \union {Making(r)}
  /\ told' = told \union {Making(r)}
  /\ inbox' = Append(inbox, <<"created", Making(r)>>)

Retracts ==
  /\ SendsNoAnswer
  /\ view' \subseteq view
  /\ told' = told
  /\ inbox' = inbox \o SetToSeq({"closed"} \X OfMine(view \ view'))

\* Another participant was told of its consumer.
Elsewhere ==
  /\ SendsNoAnswer
  /\ \E r \in Request :
       /\ ConsumerCreated(r) /\ to[r] # me
       /\ view' = view \union {Making(r)}
       /\ told' = told \union (view' \ view)
  /\ inbox' = inbox

SfuStep ==
  \/ Add(me)
  \/ FarStep
  \/ \E t \in Script : Continue(Msg(t)) \/ Receive(Msg(t))

\* A step of the room sends the participant one answer, one announcement, or
\* the retractions of what it closes.
LEMMA DownSteps ==
  ASSUME IInv, StageInv, SelfInv, ToldInv, InboxType, SfuStep, Downstream
  PROVE  \/ \E t \in Script : SendsAnswer(t)
         \/ \E r \in Request : Announces(r)
         \/ Retracts
         \/ Elsewhere
<1>1. [Next]_vars
  BY MsgFacts, CallAssumption DEF SfuStep, FarStep, Next
<1>2. SendsNoAnswer \/ \E t \in Script \ {RtpCaps} : Returns(Msg(t)) /\ view' = view
  <2>1. CASE Add(me)
    BY <2>1 DEF Add, SendsNoAnswer
  <2>2. CASE FarStep
    BY <2>2, FarSteps DEF Far, SendsNoAnswer
  <2>3. ASSUME NEW t \in Script, Continue(Msg(t))
        PROVE  SendsNoAnswer
               \/ \E u \in Script \ {RtpCaps} : Returns(Msg(u)) /\ view' = view
    <3>1. answered' = answered \/ (t # RtpCaps /\ Returns(Msg(t)) /\ view' = view)
      BY <2>3, ContinuesMine DEF Stays, Transports, SndReq, RcvReq, JoinReq, RtpCaps
    <3> QED
      BY <3>1 DEF SendsNoAnswer
  <2>4. ASSUME NEW t \in Script, Receive(Msg(t))
        PROVE  SendsNoAnswer
               \/ \E u \in Script \ {RtpCaps} : Returns(Msg(u)) /\ view' = view
    <3>1. answered' = answered \/ (t # RtpCaps /\ Returns(Msg(t)) /\ view' = view)
      BY <2>4, ReceivesMine DEF Stays, CapsReq, JoinReq, RtpCaps
    <3> QED
      BY <3>1 DEF SendsNoAnswer
  <2> QED
    BY <2>1, <2>2, <2>3, <2>4 DEF SfuStep
<1>3. ASSUME NEW t \in Script \ {RtpCaps}, Returns(Msg(t)), view' = view
      PROVE  SendsAnswer(t)
  <2>1. Msg(t) \in Mine /\ Type[Msg(t)] = t
    BY MsgFacts
  <2>2. inbox' = Append(inbox, <<"answer", t>>) /\ told' = told
    BY <1>3, <2>1, DownAnswer
  <2> QED
    BY <1>3, <2>2 DEF SendsAnswer
<1>4. ASSUME SendsNoAnswer, view' \subseteq view PROVE Retracts
  <2>1. OfMine(view' \ view) = {}
    BY <1>4 DEF OfMine
  <2>2. told' = told
    BY <1>4 DEF Downstream
  <2>3. inbox' = inbox \o SetToSeq({"closed"} \X OfMine(view \ view'))
    BY <1>4, <2>1, DownRetracts DEF SendsNoAnswer
  <2> QED
    BY <1>4, <2>2, <2>3 DEF Retracts
<1>5. ASSUME SendsNoAnswer, NEW r \in Request, ConsumerCreated(r),
             view' = view \union {Making(r)}
      PROVE  Announces(r) \/ Elsewhere
  <2>1. pc[r] = "consuming"
    BY <1>5 DEF ConsumerCreated
  <2>2. CASE to[r] = me
    <3>1. Making(r) \in MyConsumers \ told
      BY <2>1, <2>2 DEF ToldInv, MakesMine, Fresh
    <3>2. Making(r) \notin view
      BY <3>1 DEF ToldInv
    <3>3. Making(r) \in Consumer /\ Making(r).conn = me
      <4>1. Pending(r)
        BY <2>1 DEF IInv, HandlerInv
      <4> QED
        BY <2>2, <4>1 DEF Making, Pending, Consumer
    <3>4. /\ inbox' = Append(inbox, <<"created", Making(r)>>)
          /\ told' = told \union {Making(r)}
      BY <1>5, <3>2, <3>3, DownAnnounces DEF SendsNoAnswer
    <3> QED
      BY <1>5, <2>1, <2>2, <3>4 DEF Announces, MakesMine
  <2>3. CASE to[r] # me
    <3>1. Making(r).conn # me
      BY <2>3 DEF Making
    <3>2. OfMine(view' \ view) = {} /\ OfMine(view \ view') = {}
      BY <1>5, <3>1 DEF OfMine
    <3>3. inbox' = inbox
      BY <1>5, <3>2, DownNothing DEF SendsNoAnswer
    <3> QED
      BY <1>5, <2>3, <3>3 DEF Elsewhere, Downstream
  <2> QED
    BY <2>2, <2>3
<1> QED
  BY <1>1, <1>2, <1>3, <1>4, <1>5, ViewSteps
-----------------------------------------------------------------------------
(* Answers on their way.                                                   *)

\* The participant's inbox and its view of its consumers
LEMMA InboxStep ==
  ASSUME IInv, StageInv, SelfInv, ToldInv, InboxType, SfuStep, Downstream
  PROVE  InboxType'
<1>1. inbox \in Seq(Letters) /\ IsFiniteSet(view) /\ view \subseteq Consumer
  BY DEF InboxType, IInv, TypeOK
<1>2. ASSUME NEW t \in Script, SendsAnswer(t) PROVE InboxType'
  <2>1. <<"answer", t>> \in Letters
    BY ScriptTypes DEF Letters
  <2> QED
    BY <1>1, <1>2, <2>1, AppendProperties DEF SendsAnswer, InboxType
<1>3. ASSUME NEW r \in Request, Announces(r) PROVE InboxType'
  <2>1. Pending(r)
    BY <1>3 DEF Announces, MakesMine, IInv, HandlerInv
  <2>2. <<"created", Making(r)>> \in Letters
    BY <2>1 DEF Pending, Making, Consumer, Letters
  <2>3. inbox' \in Seq(Letters)
    BY <1>1, <1>3, <2>2, AppendProperties DEF Announces
  <2>4. IsFiniteSet(view')
    BY <1>1, <1>3, FS_AddElement DEF Announces
  <2> QED
    BY <2>3, <2>4 DEF InboxType
<1>4. CASE Retracts
  <2> DEFINE N == {"closed"} \X OfMine(view \ view')
  <2>1. IsFiniteSet(OfMine(view \ view')) /\ OfMine(view \ view') \subseteq Consumer
    <3>1. OfMine(view \ view') \subseteq view
      BY DEF OfMine
    <3> QED
      BY <1>1, <3>1, FS_Subset
  <2>2. IsFiniteSet(N)
    BY <2>1, FS_Singleton, FS_Product
  <2>3. N \subseteq Letters
    BY <2>1 DEF Letters
  <2> HIDE DEF N
  <2>4. SetToSeq(N) \in Seq(N)
    BY <2>2, SetToSeqFinite
  <2>5. SetToSeq(N) \in Seq(Letters)
    BY <2>3, <2>4, SeqMonotonic
  <2>6. inbox' = inbox \o SetToSeq(N) /\ view' \subseteq view
    BY <1>4 DEF Retracts, N
  <2>7. inbox' \in Seq(Letters)
    BY <1>1, <2>5, <2>6, ConcatProperties
  <2>8. IsFiniteSet(view')
    BY <1>1, <2>6, FS_Subset
  <2> QED
    BY <2>7, <2>8 DEF InboxType
<1>5. CASE Elsewhere
  <2>1. inbox' = inbox /\ \E k : view' = view \union {k}
    BY <1>5 DEF Elsewhere
  <2> QED
    BY <1>1, <2>1, FS_AddElement DEF InboxType
<1> QED
  BY <1>2, <1>3, <1>4, <1>5, DownSteps

\* What was sent and not read stays so while the browser reads nothing.
LEMMA UnreadKept ==
  ASSUME \A t \in Script : pc[Msg(t)] = "done" => pc'[Msg(t)] = "done",
         UNCHANGED <<phase, answers>>, NEW m, Unread(m)
  PROVE  Unread(m)'
<1>1. PICK t \in Script \ {RtpCaps} :
        m = <<"answer", t>> /\ pc[Msg(t)] = "done" /\ ~Read(t)
  BY DEF Unread
<1>2. pc'[Msg(t)] = "done" /\ ~Read(t)'
  BY <1>1 DEF Read
<1> QED
  BY <1>1, <1>2 DEF Unread

\* Announcements and retractions leave the answers before them as they are.
LEMMA AnswersBefore ==
  ASSUME AnswerInv, inbox \in Seq(Letters), NEW x \in Seq(Letters), inbox' = inbox \o x,
         \A i \in 1 .. Len(x) : x[i][1] # "answer",
         \A t \in Script : pc[Msg(t)] = "done" => pc'[Msg(t)] = "done",
         UNCHANGED <<phase, answers>>
  PROVE  AnswerInv'
<1>1. /\ Len(inbox) \in Nat /\ Len(x) \in Nat /\ Len(inbox') = Len(inbox) + Len(x)
      /\ \A i \in 1 .. Len(inbox) + Len(x) :
           inbox'[i] = IF i <= Len(inbox) THEN inbox[i] ELSE x[i - Len(inbox)]
  BY ConcatProperties, LenProperties
<1>2. ASSUME NEW i \in 1 .. Len(inbox'), inbox'[i][1] = "answer"
      PROVE  i \in 1 .. Len(inbox) /\ inbox'[i] = inbox[i]
  <2>1. CASE i <= Len(inbox)
    BY <1>1, <2>1
  <2>2. CASE ~(i <= Len(inbox))
    <3>1. i - Len(inbox) \in 1 .. Len(x) /\ inbox'[i] = x[i - Len(inbox)]
      BY <1>1, <2>2
    <3> QED
      BY <1>2, <3>1
  <2> QED
    BY <2>1, <2>2
<1>3. ASSUME NEW i \in 1 .. Len(inbox'), inbox'[i][1] = "answer"
      PROVE  Unread(inbox[i])'
  <2>1. PICK m : m = inbox[i]
    OBVIOUS
  <2>2. Unread(m) /\ m = inbox'[i]
    BY <1>2, <1>3, <2>1 DEF AnswerInv
  <2>3. Unread(m)'
    BY <2>2, UnreadKept
  <2> QED
    BY <2>2, <2>3 DEF Unread
<1>4. ASSUME NEW i \in 1 .. Len(inbox'), NEW j \in 1 .. Len(inbox'),
             inbox'[i] = inbox'[j], inbox'[i][1] = "answer"
      PROVE  i = j
  BY <1>2, <1>4 DEF AnswerInv
<1> QED
  BY <1>3, <1>4 DEF AnswerInv

\* A handler answers once: it had not returned, so no answer of its is there.
LEMMA AnswerAdded ==
  ASSUME AnswerInv, ReadInv, inbox \in Seq(Letters), NEW u \in Script \ {RtpCaps},
         inbox' = Append(inbox, <<"answer", u>>),
         pc[Msg(u)] # "done", pc'[Msg(u)] = "done",
         \A t \in Script : pc[Msg(t)] = "done" => pc'[Msg(t)] = "done",
         UNCHANGED <<phase, answers>>
  PROVE  AnswerInv'
<1> DEFINE a == <<"answer", u>>
           n == Len(inbox)
<1>0. a \in Letters
  BY ScriptTypes DEF Letters
<1>1. /\ n \in Nat /\ Len(inbox') = n + 1 /\ inbox'[n + 1] = a
      /\ \A i \in 1 .. n : inbox'[i] = inbox[i]
  BY <1>0, AppendProperties, LenProperties
<1>2. \A i \in 1 .. n : inbox[i][1] = "answer" => inbox[i] # a
  <2> SUFFICES ASSUME NEW i \in 1 .. n, inbox[i][1] = "answer", inbox[i] = a PROVE FALSE
    OBVIOUS
  <2>1. PICK t \in Script \ {RtpCaps} : inbox[i] = <<"answer", t>> /\ pc[Msg(t)] = "done"
    BY DEF AnswerInv, Unread
  <2>2. t = u
    BY <2>1
  <2> QED
    BY <2>1, <2>2
<1>3. a[1] = "answer"
  OBVIOUS
<1>4. ~Read(u)'
  BY DEF ReadInv, Read
<1> HIDE DEF n
<1>5. ASSUME NEW i \in 1 .. Len(inbox'), inbox'[i][1] = "answer"
      PROVE  Unread(inbox[i])'
  <2>1. CASE i \in 1 .. n
    <3>1. PICK m : m = inbox[i]
      OBVIOUS
    <3>2. Unread(m) /\ m = inbox'[i]
      BY <1>1, <1>5, <2>1, <3>1 DEF AnswerInv, n
    <3>3. Unread(m)'
      BY <3>2, UnreadKept
    <3> QED
      BY <3>2, <3>3 DEF Unread
  <2>2. CASE i = n + 1
    BY <1>1, <1>4, <2>2 DEF Unread
  <2>3. i \in 1 .. n \/ i = n + 1
    BY <1>1
  <2> QED
    BY <2>1, <2>2, <2>3
<1> HIDE DEF a
<1>6. ASSUME NEW i \in 1 .. Len(inbox'), NEW j \in 1 .. Len(inbox'),
             inbox'[i] = inbox'[j], inbox'[i][1] = "answer"
      PROVE  i = j
  <2>1. CASE i \in 1 .. n /\ j \in 1 .. n
    <3>1. inbox[i] = inbox[j] /\ inbox[i][1] = "answer"
      BY <1>1, <1>6, <2>1
    <3> QED
      BY <2>1, <3>1 DEF AnswerInv, n
  <2>2. CASE i = n + 1 /\ j \in 1 .. n
    BY <1>1, <1>2, <1>3, <1>6, <2>2
  <2>3. CASE i \in 1 .. n /\ j = n + 1
    BY <1>1, <1>2, <1>6, <2>3
  <2> QED
    BY <1>1, <2>1, <2>2, <2>3
<1> QED
  BY <1>5, <1>6 DEF AnswerInv

\* The rest of the inbox, when the browser takes its first message.
LEMMA AnswersAfter ==
  ASSUME AnswerInv, inbox \in Seq(Letters), inbox # <<>>, inbox' = Tail(inbox),
         pc' = pc,
         \A t \in Script : <<"answer", t>> # Head(inbox) /\ Read(t)' => Read(t)
  PROVE  AnswerInv'
<1> DEFINE n == Len(inbox)
<1>1. /\ n \in Nat /\ Len(inbox') = n - 1 /\ Head(inbox) = inbox[1]
      /\ n # 0
      /\ \A i \in 1 .. n - 1 : inbox'[i] = inbox[i + 1]
  BY HeadTailProperties, LenProperties, EmptySeq
<1> HIDE DEF n
<1>2. ASSUME NEW i \in 1 .. Len(inbox'), inbox'[i][1] = "answer"
      PROVE  Unread(inbox[i])'
  <2>1. i + 1 \in 1 .. n /\ 1 \in 1 .. n /\ i + 1 # 1 /\ inbox'[i] = inbox[i + 1]
    BY <1>1
  <2>2. Unread(inbox[i + 1]) /\ inbox[i + 1] # inbox[1]
    BY <1>2, <2>1 DEF AnswerInv, n
  <2>3. PICK t \in Script \ {RtpCaps} :
          inbox[i + 1] = <<"answer", t>> /\ pc[Msg(t)] = "done" /\ ~Read(t)
    BY <2>2 DEF Unread
  <2>4. ~Read(t)'
    BY <1>1, <2>2, <2>3
  <2> QED
    BY <2>1, <2>3, <2>4 DEF Unread
<1>3. ASSUME NEW i \in 1 .. Len(inbox'), NEW j \in 1 .. Len(inbox'),
             inbox'[i] = inbox'[j], inbox'[i][1] = "answer"
      PROVE  i = j
  <2>1. i + 1 \in 1 .. n /\ j + 1 \in 1 .. n
        /\ inbox'[i] = inbox[i + 1] /\ inbox'[j] = inbox[j + 1]
    BY <1>1
  <2>2. i + 1 = j + 1
    BY <1>3, <2>1 DEF AnswerInv, n
  <2> QED
    BY <1>1, <2>2
<1> QED
  BY <1>2, <1>3 DEF AnswerInv

\* Reading one answer makes no other one read.
LEMMA ReadsOne ==
  ASSUME Progress, NEW t \in Script, TakesAnswer(t), NEW u \in Script \ {t}, Read(u)'
  PROVE  Read(u)
<1>1. t # CapsReq => phase # "capabilities"
  <2> SUFFICES ASSUME t # CapsReq, phase = "capabilities" PROVE FALSE
    OBVIOUS
  <2>1. t \in Script \ {CapsReq} /\ ~Idle({t})
    BY DEF TakesAnswer, Idle
  <2> QED
    BY <2>1 DEF Progress, Idle
<1>2. CapsReq # JoinReq /\ CapsReq \notin Transports /\ JoinReq \notin Transports
  BY DEF CapsReq, JoinReq, Transports, SndReq, RcvReq
<1>3. answers' \subseteq answers \union {t}
  BY DEF TakesAnswer
<1>4. CASE u = CapsReq
  BY <1>1, <1>4 DEF Read
<1>5. CASE u \in answers'
  BY <1>3, <1>5 DEF Read
<1>6. CASE u = JoinReq /\ phase' = "connected"
  BY <1>2, <1>6 DEF TakesAnswer, Read
<1> QED
  BY <1>4, <1>5, <1>6 DEF Read

\* The browser reads what the room answered, each answer once.
LEMMA AnswersLocal ==
  ASSUME Progress, InboxType, AnswerInv, LocalStep
  PROVE  AnswerInv' /\ InboxType'
<1>1. UNCHANGED <<vars, told, unanswered>> /\ pc' = pc /\ view' = view
  BY LocalSteps DEF vars, consumerVars
<1>2. inbox \in Seq(Letters) /\ IsFiniteSet(view)
  BY DEF InboxType
<1>3. ASSUME inbox # <<>>, inbox' = Tail(inbox) PROVE InboxType'
  BY <1>1, <1>2, <1>3, HeadTailProperties DEF InboxType
<1>4. ASSUME NEW t \in Script, TakesAnswer(t) PROVE AnswerInv' /\ InboxType'
  <2>1. inbox # <<>> /\ inbox' = Tail(inbox) /\ Head(inbox) = <<"answer", t>>
    BY <1>4 DEF TakesAnswer
  <2>2. ASSUME NEW u \in Script, <<"answer", u>> # Head(inbox), Read(u)' PROVE Read(u)
    <3>1. u # t
      BY <2>1, <2>2
    <3> QED
      BY <1>4, <2>2, <3>1, ReadsOne
  <2> QED
    BY <1>1, <1>2, <1>3, <2>1, <2>2, AnswersAfter
<1>5. CASE Loads \/ Fails
  <2>1. inbox' = inbox /\ \A t : Read(t)' <=> Read(t)
    BY <1>5 DEF Loads, Fails, Read
  <2>2. InboxType'
    BY <1>1, <1>2, <2>1 DEF InboxType
  <2>3. \A i \in 1 .. Len(inbox) : Unread(inbox[i]) => Unread(inbox[i])'
    BY <1>1, <2>1 DEF Unread
  <2> QED
    BY <2>1, <2>2, <2>3 DEF AnswerInv
<1>6. CASE TakesOther
  <2>1. \A t : Read(t)' <=> Read(t)
    BY <1>6 DEF TakesOther, Read
  <2>2. CASE inbox' = inbox
    <3>1. InboxType'
      BY <1>1, <1>2, <2>2 DEF InboxType
    <3>2. \A i \in 1 .. Len(inbox) : Unread(inbox[i]) => Unread(inbox[i])'
      BY <1>1, <2>1, <2>2 DEF Unread
    <3> QED
      BY <2>2, <3>1, <3>2 DEF AnswerInv
  <2>3. CASE inbox # <<>> /\ Head(inbox)[1] # "answer" /\ inbox' = Tail(inbox)
    BY <1>1, <1>2, <1>3, <2>1, <2>3, AnswersAfter
  <2> QED
    BY <1>6, <2>2, <2>3 DEF TakesOther
<1> QED
  BY <1>4, <1>5, <1>6, LocalSteps

\* The handlers that have returned, for every step of the room
LEMMA ReturnedStays ==
  ASSUME IInv, StageInv, SelfInv, SfuStep
  PROVE  \A t \in Script : pc[Msg(t)] = "done" => pc'[Msg(t)] = "done"
<1>1. ASSUME NEW t \in Script, Receive(Msg(t))
      PROVE  \A u \in Script : pc[Msg(u)] = "done" => pc'[Msg(u)] = "done"
  BY <1>1, OthersSteady DEF Steady
<1>2. ASSUME Steady({})
      PROVE  \A u \in Script : pc[Msg(u)] = "done" => pc'[Msg(u)] = "done"
  BY <1>2 DEF Steady
<1> QED
  BY <1>1, <1>2, SfuSteady DEF SfuStep

LEMMA AnswersSfu ==
  ASSUME IInv, StageInv, SelfInv, ToldInv, ReadInv, InboxType, AnswerInv, SfuStep,
         Downstream, UNCHANGED browserVars
  PROVE  AnswerInv'
<1>1. /\ \A t \in Script : pc[Msg(t)] = "done" => pc'[Msg(t)] = "done"
      /\ UNCHANGED <<phase, answers>> /\ inbox \in Seq(Letters)
  BY ReturnedStays DEF browserVars, InboxType
<1>2. ASSUME NEW t \in Script, SendsAnswer(t) PROVE AnswerInv'
  <2>1. /\ t \in Script \ {RtpCaps} /\ inbox' = Append(inbox, <<"answer", t>>)
        /\ pc'[Msg(t)] = "done" /\ Returns(Msg(t))
    BY <1>2 DEF SendsAnswer, Returns
  <2>2. pc[Msg(t)] # "done"
    <3>1. CASE Add(me)
      BY <2>1, <3>1 DEF Add, Returns
    <3>2. CASE FarStep
      BY <2>1, <3>2, FarSteps, MsgFacts DEF Far, Returns
    <3>3. ASSUME NEW u \in Script, Continue(Msg(u)) \/ Receive(Msg(u)) PROVE pc[Msg(t)] # "done"
      <4>1. /\ answered' \subseteq answered \union {Msg(u)} /\ pc[Msg(u)] # "done"
        BY <3>3, MsgFacts, HandlerMoves
      <4> QED
        BY <2>1, <4>1 DEF Returns
    <3> QED
      BY <3>1, <3>2, <3>3 DEF SfuStep
  <2> QED
    BY <1>1, <2>1, <2>2, AnswerAdded
<1>3. ASSUME NEW m \in Letters, m[1] # "answer", inbox' = Append(inbox, m) PROVE AnswerInv'
  <2>1. <<m>> \in Seq(Letters) /\ inbox' = inbox \o <<m>>
    BY <1>1, <1>3, AppendIsConcat
  <2>2. \A i \in 1 .. Len(<<m>>) : <<m>>[i][1] # "answer"
    BY <1>3
  <2> QED
    BY <1>1, <2>1, <2>2, AnswersBefore
<1>4. ASSUME NEW r \in Request, Announces(r) PROVE AnswerInv'
  <2>1. Pending(r)
    BY <1>4 DEF Announces, MakesMine, IInv, HandlerInv
  <2>2. <<"created", Making(r)>> \in Letters /\ <<"created", Making(r)>>[1] # "answer"
    BY <2>1 DEF Pending, Making, Consumer, Letters
  <2> QED
    BY <1>3, <1>4, <2>2 DEF Announces
<1>5. CASE Retracts
  <2> DEFINE N == {"closed"} \X OfMine(view \ view')
  <2>1. IsFiniteSet(OfMine(view \ view')) /\ OfMine(view \ view') \subseteq Consumer
    <3>1. OfMine(view \ view') \subseteq view /\ view \subseteq Consumer /\ IsFiniteSet(view)
      BY DEF OfMine, InboxType, IInv, TypeOK
    <3> QED
      BY <3>1, FS_Subset
  <2>2. IsFiniteSet(N)
    BY <2>1, FS_Singleton, FS_Product
  <2>3. N \subseteq Letters /\ \A m \in N : m[1] # "answer"
    BY <2>1 DEF Letters
  <2>4. inbox' = inbox \o SetToSeq(N)
    BY <1>5 DEF Retracts
  <2> HIDE DEF N
  <2>5. SetToSeq(N) \in Seq(N)
    BY <2>2, SetToSeqFinite
  <2>6. SetToSeq(N) \in Seq(Letters)
    BY <2>3, <2>5, SeqMonotonic
  <2>7. \A i \in 1 .. Len(SetToSeq(N)) : SetToSeq(N)[i][1] # "answer"
    BY <2>3, <2>5, ElementOfSeq
  <2> QED
    BY <1>1, <2>4, <2>6, <2>7, AnswersBefore
<1>6. CASE Elsewhere
  <2>1. PICK x : x = <<>>
    OBVIOUS
  <2>2. inbox' = inbox \o x /\ x \in Seq(Letters) /\ Len(x) = 0
    BY <1>1, <1>6, <2>1, ConcatEmptySeq, EmptySeq DEF Elsewhere
  <2>3. \A i \in 1 .. Len(x) : x[i][1] # "answer"
    BY <2>2
  <2> QED
    BY <1>1, <2>2, <2>3, AnswersBefore
<1> QED
  BY <1>2, <1>4, <1>5, <1>6, DownSteps

\* Each request is answered once, and each answer read once.
LEMMA AnswerStep ==
  ASSUME IInv, StageInv, SelfInv, Progress, ReadInv, ToldInv, InboxType, AnswerInv,
         [CallNext]_callVars
  PROVE  AnswerInv' /\ InboxType'
<1>1. ASSUME SfuStep, Downstream, UNCHANGED browserVars PROVE AnswerInv' /\ InboxType'
  BY <1>1, AnswersSfu, InboxStep
<1>2. CASE Arrival
  <2>1. Downstream /\ UNCHANGED browserVars
    BY <1>2, ArrivalSteps
  <2>2. SfuStep
    <3>1. CASE UNCHANGED vars
      BY <3>1 DEF SfuStep, FarStep
    <3> QED
      BY <1>2, <3>1, ArrivalSteps DEF SfuStep
  <2> QED
    BY <1>1, <2>1, <2>2
<1>3. CASE LocalStep
  BY <1>3, AnswersLocal
<1>4. CASE UNCHANGED callVars
  <2>1. UNCHANGED <<inbox, view, pc, phase, answers>>
    BY <1>4 DEF callVars, vars, browserVars, consumerVars
  <2> QED
    BY <2>1 DEF AnswerInv, InboxType, Unread, Read
<1> QED
  BY <1>1, <1>2, <1>3, <1>4, CallSteps DEF SfuStep, SfuFrame
-----------------------------------------------------------------------------
(* A consumer is announced once.                                           *)

\* Consumers for the participant
LEMMA MyConsumerFacts ==
  ASSUME NEW k \in MyConsumers
  PROVE  /\ k \in Consumer /\ k.task \in Request /\ k.prod \in Request
         /\ k.conn = me /\ From[k.prod] \in Conn /\ From[k.prod] # me
<1>1. JoinReq \in Script /\ RcvReq \in Script
  BY DEF Script, JoinReq, RcvReq
<1>2. Msg(JoinReq) \in Request /\ Msg(RcvReq) \in Request
  BY <1>1, MsgFacts
<1>3. k \in [task : Producers \union {Msg(JoinReq)}, prod : Producers,
             conn : {me}, via : {Msg(RcvReq)}]
  BY DEF MyConsumers, JoinReq, RcvReq
<1>4. k \in Consumer
  BY <1>2, <1>3, CallAssumption DEF Consumer, Producers
<1> QED
  BY <1>2, <1>3, <1>4, ConstantsAssumption DEF Producers

\* A loop that has met a client stays past it: a key it forgets belongs to no
\* client that is there.
LEMMA MetKept ==
  ASSUME IInv, NEW k \in MyConsumers, Met(k),
         \/ \E c \in Conn : Add(c)
         \/ \E c \in Conn \ {me} : ClientClosed(c)
         \/ UNCHANGED <<status, clients>> /\ seen[k.task] \subseteq seen'[k.task]
  PROVE  Met(k)'
<1> DEFINE d == From[k.prod]
<1>1. d \in Conn /\ k.task \in Request /\ me \in Conn /\ IdOf[d] \in ClientId
      /\ d # NoConn
  BY MyConsumerFacts, CallAssumption, ConstantsAssumption
<1>2. status[d] # "absent"
  BY DEF Met
<1> HIDE DEF d
<1>3. ASSUME NEW c \in Conn, Add(c) PROVE Met(k)'
  <2>1. /\ status' = [status EXCEPT ![c] = "open"] /\ status[c] = "absent"
        /\ clients' = [clients EXCEPT ![IdOf[c]] = c] /\ seen' = seen
    BY <1>3 DEF Add, loopVars
  <2>2. status'[d] # "absent" /\ d # c
    BY <1>1, <1>2, <2>1 DEF IInv, TypeOK
  <2>3. Registered(d)' => Registered(d)
    BY <1>1, <2>1, <2>2 DEF Registered, IInv, TypeOK
  <2> QED
    BY <2>1, <2>2, <2>3 DEF Met, d
<1>4. ASSUME NEW c \in Conn \ {me}, ClientClosed(c) PROVE Met(k)'
  <2>1. /\ status' = [status EXCEPT ![c] = "closed"]
        /\ clients' = [clients EXCEPT ![IdOf[c]] = NoConn]
        /\ seen' = [r \in Request |-> seen[r] \ {IdOf[c]}]
    BY <1>4 DEF ClientClosed, Without
  <2>2. status'[d] # "absent"
    BY <1>1, <1>2, <2>1 DEF IInv, TypeOK
  <2>3. Registered(d)' => Registered(d) /\ IdOf[d] # IdOf[c]
    BY <1>1, <2>1 DEF Registered, IInv, TypeOK
  <2>4. IdOf[me] # IdOf[c] /\ seen'[k.task] = seen[k.task] \ {IdOf[c]}
    BY <1>1, <2>1, CallAssumption
  <2> QED
    BY <2>2, <2>3, <2>4 DEF Met, d
<1>5. CASE UNCHANGED <<status, clients>> /\ seen[k.task] \subseteq seen'[k.task]
  BY <1>5 DEF Met, Registered
<1> QED
  BY <1>3, <1>4, <1>5

\* Steps that start no consume and announce nothing
LEMMA ToldKept ==
  ASSUME ToldInv, told' = told, view' \subseteq view, UNCHANGED <<cur, to, via, tried>>,
         \A r \in Request : pc'[r] = "consuming" => pc[r] = "consuming",
         rcv[me] # NoReq => rcv'[me] # NoReq,
         \A k \in MyConsumers : Met(k) => Met(k)'
  PROVE  ToldInv'
<1>1. \A r \in Request : MakesMine(r)' => MakesMine(r)
  BY DEF MakesMine
<1>2. ASSUME NEW k \in told, k.conn = me PROVE Past(k)'
  <2>1. Past(k)
    BY <1>2 DEF ToldInv
  <2>2. k \in MyConsumers /\ Met(k)' /\ k.task \in Request
    BY <2>1, MyConsumerFacts DEF Past
  <2> QED
    BY <1>1, <2>1, <2>2 DEF Past
<1>3. ASSUME NEW r \in Request, MakesMine(r)' PROVE Fresh(r)'
  <2>1. Fresh(r)
    BY <1>1, <1>3 DEF ToldInv
  <2>2. PICK k : k = Making(r)
    OBVIOUS
  <2>3. k = Making(r)' /\ k \in MyConsumers \ told /\ Met(k)
    BY <2>1, <2>2 DEF Making, Fresh
  <2>4. Met(k)'
    BY <2>3
  <2>5. Met(Making(r))'
    BY <2>3, <2>4 DEF Met
  <2> QED
    BY <2>1, <2>3, <2>5 DEF Fresh
<1> QED
  BY <1>2, <1>3 DEF ToldInv

\* What a loop finds for the participant comes from a client that it had not
\* met, or is found by a loop that had not met the participant.
FoundForMe(r) ==
  /\ cur'[r] \in Producers /\ r \in Producers \union {Msg(JoinReq)}
  /\ via'[r] = Msg(RcvReq) /\ rcv[me] # NoReq /\ cur'[r] \in tried'[r]
  /\ Registered(From[cur'[r]]) /\ status[From[cur'[r]]] # "absent"
  /\ IF IsJoin(r)
     THEN IdOf[From[cur'[r]]] \in seen'[r] \ seen[r]
     ELSE IdOf[me] \in seen'[r] \ seen[r]

LEMMA LoopFinds ==
  ASSUME IInv, StageInv', SelfInv, SelfInv', NEW r \in Request,
         JoinCall(r) \/ ProducerCreated(r) \/ NextClient(r), MakesMine(r)'
  PROVE  FoundForMe(r)
<1> DEFINE own == IdOf[From[r]]
           p == cur'[r]
<1> USE DEF IInv
<1>0. /\ me \in Conn /\ own \in ClientId /\ From[r] \in Conn
      /\ \A c \in Conn : IdOf[c] = IdOf[me] => c = me
  BY CallAssumption, ConstantsAssumption
<1>1. prodMap' \in SUBSET Request /\ LoopStep(r, prodMap')
      /\ UNCHANGED <<clientVars, transportVars>>
  BY LoopHandlers
<1>2. pc'[r] = "consuming" /\ to'[r] = me
  BY DEF MakesMine
<1>3. PICK i \in Unvisited(r) :
        LET a == IF IsJoin(r) THEN clients[i] ELSE clients[IdOf[From[r]]]
            b == IF IsJoin(r) THEN clients[IdOf[From[r]]] ELSE clients[i]
        IN /\ seen'[r] = seen[r] \union {i}
           /\ Consuming(r, b, {}, Candidates(a, b, {}, prodMap', consumers))
  BY <1>1, <1>2, LoopStepEffect
<1>4. i \in ClientId /\ clients[i] # NoConn /\ i \notin seen[r] /\ i # own
  BY <1>3 DEF Unvisited
<1>5. PICK a, b :
        /\ a = IF IsJoin(r) THEN clients[i] ELSE clients[own]
        /\ b = IF IsJoin(r) THEN clients[own] ELSE clients[i]
        /\ seen'[r] = seen[r] \union {i}
        /\ Consuming(r, b, {}, Candidates(a, b, {}, prodMap', consumers))
  BY <1>3
<1> HIDE DEF own
<1>6. /\ p \in Candidates(a, b, {}, prodMap', consumers) /\ b = me
      /\ tried'[r] = {p} /\ via'[r] = rcv[me] /\ via'[r] \in Request
  BY <1>2, <1>5 DEF Consuming, WaitsFor
<1>7. p \in prodMap' /\ From[p] = a /\ p \in Request
  BY <1>1, <1>6 DEF Candidates
<1>8. a \in Conn /\ a # NoConn
  BY <1>7, ConstantsAssumption
<1>9. rcv[me] # NoReq /\ via'[r] = Msg(RcvReq)
  BY <1>6, ConstantsAssumption DEF SelfInv
<1>10. Type[p] = ProducerReq
  BY <1>7 DEF StageInv
<1> HIDE DEF p
<1>11. CASE IsJoin(r)
  <2>1. a = clients[i] /\ me = clients[own]
    BY <1>5, <1>6, <1>11
  <2>2. IdOf[a] = i /\ status[a] = "open" /\ IdOf[me] = own
    BY <1>0, <1>4, <2>1, ConstantsAssumption DEF RegisteredIsOpen
  <2>3. Registered(a)
    BY <2>1, <2>2 DEF Registered
  <2>4. From[r] = me /\ a # me
    BY <1>0, <1>4, <2>2 DEF own
  <2>5. r = Msg(JoinReq)
    <3>1. PICK t \in Script : r = Msg(t)
      BY <1>2, <2>4 DEF SelfInv, Mine
    <3>2. t = JoinReq
      BY <1>11, <3>1, MsgFacts DEF IsJoin, JoinReq
    <3> QED
      BY <3>1, <3>2
  <2>6. p \in Producers
    BY <1>7, <1>10, <2>4 DEF Producers, ProducerReq
  <2>7. IdOf[From[p]] \in seen'[r] \ seen[r]
    BY <1>4, <1>5, <1>7, <2>2
  <2> QED
    BY <1>6, <1>7, <1>9, <1>11, <2>2, <2>3, <2>5, <2>6, <2>7 DEF FoundForMe, p
<1>12. CASE ~IsJoin(r)
  <2>1. a = clients[own] /\ me = clients[i]
    BY <1>5, <1>6, <1>12
  <2>2. IdOf[a] = own /\ status[a] = "open" /\ IdOf[me] = i
    BY <1>0, <1>4, <1>8, <2>1 DEF RegisteredIsOpen
  <2>3. Registered(a) /\ a # me /\ From[r] # me
    BY <1>4, <2>1, <2>2 DEF Registered, own
  <2>4. Type[r] = ProducerReq
    BY <1>2, <1>12 DEF StageInv, StageOf, IsJoin, JoinReq
  <2>5. p \in Producers /\ r \in Producers
    BY <1>7, <1>10, <2>3, <2>4 DEF Producers, ProducerReq
  <2>6. IdOf[me] \in seen'[r] \ seen[r]
    BY <1>4, <1>5, <2>2
  <2> QED
    BY <1>6, <1>7, <1>9, <1>12, <2>2, <2>3, <2>5, <2>6 DEF FoundForMe, p
<1> QED
  BY <1>11, <1>12

\* A turn of a loop finds no consumer that the participant was told of.
LEMMA ToldLoop ==
  ASSUME IInv, StageInv', SelfInv, SelfInv', ToldInv, NEW r \in Request,
         JoinCall(r) \/ ProducerCreated(r) \/ NextClient(r), told' = told
  PROVE  ToldInv'
<1> DEFINE p == cur'[r]
<1>1. /\ Frame(r) /\ UNCHANGED <<status, clients, view, rcv>>
      /\ seen[r] \subseteq seen'[r]
  <2>1. prodMap' \in SUBSET Request /\ LoopStep(r, prodMap')
        /\ UNCHANGED <<clientVars, transportVars, consumerVars>>
    BY LoopHandlers DEF IInv
  <2>2. Frame(r) /\ seen[r] \subseteq seen'[r]
    BY <2>1, LoopStepEffect DEF IInv
  <2> QED
    BY <2>1, <2>2 DEF clientVars, transportVars, consumerVars
<1>2. ASSUME NEW k \in MyConsumers, Met(k) PROVE Met(k)'
  <2>1. k.task \in Request
    BY MyConsumerFacts
  <2>2. seen[k.task] \subseteq seen'[k.task]
    BY <1>1, <2>1 DEF Frame
  <2> QED
    BY <1>1, <1>2, <2>2, MetKept
<1>3. ASSUME MakesMine(r)', NEW k \in MyConsumers, Met(k), k.task = r,
             From[p] = From[k.prod]
      PROVE  FALSE
  <2>1. FoundForMe(r)
    BY <1>3, LoopFinds
  <2> QED
    BY <1>3, <2>1 DEF FoundForMe, Met
<1>4. ASSUME NEW k \in told, k.conn = me PROVE Past(k)'
  <2>1. Past(k)
    BY <1>4 DEF ToldInv
  <2>2. k \in MyConsumers /\ Met(k) /\ Met(k)' /\ k.task \in Request
    BY <1>2, <2>1, MyConsumerFacts DEF Past
  <2>3. CASE k.task = r
    BY <1>3, <2>2, <2>3 DEF Past
  <2>4. CASE k.task # r
    <3>1. /\ pc'[k.task] = pc[k.task] /\ to'[k.task] = to[k.task]
          /\ cur'[k.task] = cur[k.task] /\ tried'[k.task] = tried[k.task]
      BY <1>1, <2>2, <2>4 DEF Frame
    <3> QED
      BY <2>1, <2>2, <3>1 DEF Past, MakesMine
  <2> QED
    BY <2>3, <2>4
<1>5. ASSUME MakesMine(r)' PROVE Fresh(r)'
  <2>1. FoundForMe(r) /\ to'[r] = me
    BY <1>5, LoopFinds DEF MakesMine
  <2>2. PICK k : k = [task |-> r, prod |-> p, conn |-> me, via |-> Msg(RcvReq)]
    OBVIOUS
  <2>3. k = Making(r)' /\ k.task = r /\ k.prod = p /\ k.conn = me
    BY <2>1, <2>2 DEF Making, FoundForMe
  <2>4. k \in MyConsumers
    BY <2>1, <2>2 DEF MyConsumers, FoundForMe, JoinReq, RcvReq
  <2>5. k \notin told
    <3>1. SUFFICES ASSUME k \in told PROVE FALSE
      OBVIOUS
    <3>2. Met(k)
      BY <2>3, <3>1 DEF ToldInv, Past
    <3> QED
      BY <1>3, <1>5, <2>3, <2>4, <3>2
  <2>6. Met(k)'
    BY <1>1, <2>1, <2>3 DEF FoundForMe, Met, Registered
  <2>7. Met(Making(r))'
    BY <2>3, <2>6 DEF Met
  <2> QED
    BY <1>1, <2>1, <2>3, <2>4, <2>5, <2>7 DEF Fresh, FoundForMe
<1>6. ASSUME NEW q \in Request \ {r}, MakesMine(q)' PROVE Fresh(q)'
  <2>1. /\ pc'[q] = pc[q] /\ to'[q] = to[q] /\ cur'[q] = cur[q]
        /\ via'[q] = via[q] /\ tried'[q] = tried[q]
    BY <1>1 DEF Frame
  <2>2. Fresh(q)
    BY <1>6, <2>1 DEF MakesMine, ToldInv
  <2>3. PICK k : k = Making(q)
    OBVIOUS
  <2>4. k = Making(q)' /\ k \in MyConsumers \ told /\ Met(k)
    BY <2>1, <2>2, <2>3 DEF Making, Fresh
  <2>5. Met(k)'
    BY <1>2, <2>4
  <2>6. Met(Making(q))'
    BY <2>4, <2>5 DEF Met
  <2> QED
    BY <1>1, <2>1, <2>2, <2>4, <2>6 DEF Fresh
<1> QED
  BY <1>1, <1>4, <1>5, <1>6 DEF ToldInv

\* The participant is told of the consumer a handler made, and what the handler
\* makes next is another one.
LEMMA ToldMade ==
  ASSUME IInv, StageInv, SelfInv, ToldInv, NEW r \in Request, ConsumerCreated(r),
         view' \subseteq told',
         IF MakesMine(r) THEN told' = told \union {Making(r)}
         ELSE told \subseteq told' /\ told' \subseteq Consumer /\ OfMine(told') \subseteq told
  PROVE  ToldInv'
<1> DEFINE p == cur'[r]
<1>1. /\ Frame(r) /\ pc[r] = "consuming"
      /\ UNCHANGED <<status, clients, seen, rcv, prodMap>>
      /\ Consuming(r, to[r], tried[r],
           Candidates(From[cur[r]], to[r], tried[r], prodMap, consumers'))
  BY ConsumerMoves DEF ConsumerCreated, clientVars, transportVars, mediaVars
<1>2. ASSUME MakesMine(r)'
      PROVE  /\ MakesMine(r) /\ p \in prodMap /\ p \notin tried[r]
             /\ From[p] = From[cur[r]] /\ tried'[r] = tried[r] \union {p}
             /\ via'[r] = rcv[me] /\ to'[r] = me
  BY <1>1, <1>2 DEF MakesMine, Consuming, Candidates
<1>3. ASSUME NEW k PROVE Met(k)' <=> Met(k)
  BY <1>1 DEF Met, Registered
<1>4. ASSUME MakesMine(r)
      PROVE  Fresh(r) /\ Making(r).prod = cur[r] /\ Making(r).task = r /\ Making(r).conn = me
  BY <1>4 DEF ToldInv, Making, MakesMine
<1>5. told' \subseteq Consumer
  <2>1. CASE MakesMine(r)
    BY <1>4, <2>1, MyConsumerFacts DEF Fresh, ToldInv
  <2> QED
    BY <2>1
<1>6. ASSUME NEW k \in told', k.conn = me PROVE Past(k)'
  <2>1. CASE k \in told
    <3>1. Past(k)
      BY <1>6, <2>1 DEF ToldInv
    <3>2. k \in MyConsumers /\ Met(k)' /\ k.task \in Request
      BY <1>3, <3>1, MyConsumerFacts DEF Past
    <3>3. CASE k.task = r
      <4>1. ASSUME MakesMine(r)', From[p] = From[k.prod] PROVE k.prod \in tried'[r]
        BY <1>2, <3>1, <3>3, <4>1 DEF Past
      <4> QED
        BY <3>2, <3>3, <4>1 DEF Past
    <3>4. CASE k.task # r
      <4>1. /\ pc'[k.task] = pc[k.task] /\ to'[k.task] = to[k.task]
            /\ cur'[k.task] = cur[k.task] /\ tried'[k.task] = tried[k.task]
        BY <1>1, <3>2, <3>4 DEF Frame
      <4> QED
        BY <3>1, <3>2, <4>1 DEF Past, MakesMine
    <3> QED
      BY <3>3, <3>4
  <2>2. CASE k \notin told
    <3>1. MakesMine(r) /\ k = Making(r)
      BY <1>6, <2>2 DEF OfMine
    <3>2. Fresh(r) /\ k.prod = cur[r] /\ k.task = r
      BY <1>4, <3>1
    <3>3. k \in MyConsumers /\ Met(k)'
      BY <1>3, <3>1, <3>2 DEF Fresh
    <3>4. MakesMine(r)' => k.prod \in tried'[r]
      BY <1>2, <3>2 DEF Fresh
    <3> QED
      BY <3>2, <3>3, <3>4 DEF Past
  <2> QED
    BY <2>1, <2>2
<1>7. ASSUME MakesMine(r)' PROVE Fresh(r)'
  <2>1. /\ Fresh(r) /\ Making(r).prod = cur[r]
        /\ told' = told \union {Making(r)}
    BY <1>2, <1>4, <1>7
  <2>2. RcvReq \in Script /\ rcv[me] = Msg(RcvReq)
    BY <2>1 DEF Fresh, SelfInv, Script, RcvReq
  <2>3. PICK k : k = [task |-> r, prod |-> p, conn |-> me, via |-> Msg(RcvReq)]
    OBVIOUS
  <2>4. k = Making(r)' /\ k.task = r /\ k.prod = p /\ k.conn = me
    BY <1>2, <1>7, <2>2, <2>3 DEF Making
  <2>5. PICK l : l = Making(r)
    OBVIOUS
  <2>6. /\ l \in MyConsumers /\ l.task = r /\ l.prod = cur[r] /\ Met(l)
        /\ From[cur[r]] # me
    <3>1. l \in MyConsumers /\ Met(l) /\ l.task = r /\ l.prod = cur[r]
      BY <1>2, <1>4, <1>7, <2>1, <2>5 DEF Fresh
    <3> QED
      BY <3>1, MyConsumerFacts
  <2>7. p \in Producers
    BY <1>2, <1>7, <2>6 DEF StageInv, Producers, ProducerReq, IInv, TypeOK
  <2>8. k \in MyConsumers
    BY <2>3, <2>6, <2>7 DEF MyConsumers, RcvReq
  <2>9. k \notin told
    <3>1. SUFFICES ASSUME k \in told PROVE FALSE
      OBVIOUS
    <3>2. Past(k)
      BY <2>4, <3>1 DEF ToldInv
    <3> QED
      BY <1>2, <1>7, <2>4, <3>2 DEF Past
  <2>10. k # Making(r)
    BY <1>2, <1>7, <2>1, <2>4 DEF Fresh
  <2>11. Met(k)
    BY <1>2, <1>7, <2>4, <2>6 DEF Met
  <2>12. Met(Making(r))'
    BY <1>3, <2>4, <2>11 DEF Met
  <2> QED
    BY <1>1, <1>2, <1>7, <2>1, <2>4, <2>8, <2>9, <2>10, <2>12 DEF Fresh
<1>8. ASSUME NEW q \in Request \ {r}, MakesMine(q)' PROVE Fresh(q)'
  <2>1. /\ pc'[q] = pc[q] /\ to'[q] = to[q] /\ cur'[q] = cur[q]
        /\ via'[q] = via[q] /\ tried'[q] = tried[q]
    BY <1>1 DEF Frame
  <2>2. Fresh(q) /\ to[q] = me
    BY <1>8, <2>1 DEF MakesMine, ToldInv
  <2>3. PICK k : k = Making(q)
    OBVIOUS
  <2>4. k = Making(q)' /\ k \in MyConsumers \ told /\ Met(k) /\ k.task = q /\ k.conn = me
    BY <2>1, <2>2, <2>3 DEF Making, Fresh
  <2>5. k \notin told'
    BY <1>4, <2>4 DEF OfMine
  <2>6. Met(Making(q))'
    BY <1>3, <2>4 DEF Met
  <2> QED
    BY <1>1, <2>1, <2>2, <2>4, <2>5, <2>6 DEF Fresh
<1> QED
  BY <1>5, <1>6, <1>7, <1>8 DEF ToldInv

\* No consumer is announced to the participant twice.
LEMMA ToldSfu ==
  ASSUME IInv, StageInv, StageInv', SelfInv, SelfInv', ToldInv, InboxType, SfuStep, Downstream
  PROVE  ToldInv'
<1> USE DEF IInv, clientVars, transportVars, mediaVars, loopVars, consumerVars
<1>1. Mine \subseteq Request /\ me \in Conn
  BY CallAssumption DEF Mine
<1>2. rcv[me] # NoReq => rcv'[me] # NoReq
  <2>1. RcvReq \in Script /\ Msg(RcvReq) \in Request
    BY MsgFacts DEF Script, RcvReq
  <2>2. pc[Msg(RcvReq)] = "done" => pc'[Msg(RcvReq)] = "done"
    BY <2>1, ReturnedStays
  <2> QED
    BY <2>1, <2>2, ConstantsAssumption DEF SelfInv
<1>3. \/ \E c \in Conn : Add(c)
      \/ \E c \in Conn \ {me} : ClientClosed(c)
      \/ RouterClosed
      \/ \E k \in consumers : ConsumerClosed(k)
      \/ \E r \in Request : Receive(r) \/ Continue(r) \/ UnhandledRejection(r)
      \/ UNCHANGED vars
  BY <1>1, MsgFacts DEF SfuStep, FarStep
<1>4. ASSUME NEW r \in Request, JoinCall(r) \/ ProducerCreated(r) \/ NextClient(r)
      PROVE  ToldInv'
  <2>1. view' = view
    BY <1>4, LoopHandlers
  <2>2. told' = told
    BY <2>1 DEF Downstream
  <2> QED
    BY <1>4, <2>2, ToldLoop
<1>5. ASSUME NEW r \in Request, ConsumerCreated(r) PROVE ToldInv'
  <2>1. Pending(r) /\ pc[r] = "consuming"
    BY <1>5 DEF ConsumerCreated, HandlerInv
  <2>2. Making(r) \in Consumer /\ Making(r).conn = to[r]
    BY <2>1 DEF Pending, Making, Consumer
  <2>3. /\ view' = IF status[to[r]] = "open" THEN view \union {Making(r)} ELSE view
        /\ told' = told \union (view' \ view)
    BY <1>5 DEF ConsumerCreated, Making, Downstream
  <2>4. view' \subseteq told' /\ told' \subseteq Consumer
    BY <2>2, <2>3 DEF ToldInv
  <2>5. CASE MakesMine(r)
    <3>1. status[me] = "open"
      BY <1>1, <2>1, <2>5 DEF MakesMine, Pending, SelfInv, TypeOK
    <3>2. Making(r) \notin view
      BY <2>5 DEF ToldInv, Fresh
    <3>3. told' = told \union {Making(r)}
      BY <2>3, <2>5, <3>1, <3>2 DEF MakesMine
    <3> QED
      BY <1>5, <2>4, <2>5, <3>3, ToldMade
  <2>6. CASE ~MakesMine(r)
    <3>1. Making(r).conn # me
      BY <2>1, <2>2, <2>6 DEF MakesMine
    <3>2. told \subseteq told' /\ OfMine(told') \subseteq told
      BY <2>3, <3>1 DEF OfMine
    <3> QED
      BY <1>5, <2>4, <2>6, <3>2, ToldMade
  <2> QED
    BY <2>5, <2>6
<1>6. ASSUME view' \subseteq view, UNCHANGED <<cur, to, via, tried>>,
             \A r \in Request : pc'[r] = "consuming" => pc[r] = "consuming",
             \/ \E c \in Conn : Add(c)
             \/ \E c \in Conn \ {me} : ClientClosed(c)
             \/ UNCHANGED <<status, clients, seen>>
      PROVE  ToldInv'
  <2>1. told' = told
    BY <1>6 DEF Downstream
  <2>2. \A k \in MyConsumers : Met(k) => Met(k)'
    BY <1>6, MetKept
  <2> QED
    BY <1>2, <1>6, <2>1, <2>2, ToldKept
<1>7. ASSUME NEW c \in Conn, Add(c) PROVE ToldInv'
  BY <1>6, <1>7 DEF Add
<1>8. ASSUME NEW c \in Conn \ {me}, ClientClosed(c) PROVE ToldInv'
  <2>1. view' \subseteq view
    BY <1>8 DEF ClientClosed, CloseTransports
  <2> QED
    BY <1>6, <1>8, <2>1 DEF ClientClosed
<1>9. ASSUME RouterClosed PROVE ToldInv'
  <2>1. view' \subseteq view /\ UNCHANGED <<status, clients, loopVars>>
    BY <1>9 DEF RouterClosed, CloseTransports
  <2>2. \A r \in Request : pc'[r] = "consuming" => pc[r] = "consuming"
    BY <1>9 DEF RouterClosed
  <2> QED
    BY <1>6, <2>1, <2>2
<1>10. ASSUME NEW k \in consumers, ConsumerClosed(k) PROVE ToldInv'
  <2>1. view' \subseteq view /\ UNCHANGED <<status, clients, loopVars, pc>>
    BY <1>10 DEF ConsumerClosed
  <2> QED
    BY <1>6, <2>1
<1>11. ASSUME NEW r \in Request, UnhandledRejection(r) PROVE ToldInv'
  BY <1>6, <1>11 DEF UnhandledRejection
<1>12. ASSUME UNCHANGED vars PROVE ToldInv'
  BY <1>6, <1>12 DEF vars
<1>13. ASSUME NEW r \in Request,
              \/ GetRouterCapabilities(r) \/ ClientRtpCapabilities(r) \/ CreateTransport(r)
              \/ AwaitWorker(r) \/ CreateProducer(r) \/ TransportCreated(r) \/ WorkerAcked(r)
       PROVE  ToldInv'
  <2>1. UNCHANGED <<status, clients, loopVars, view>>
    BY <1>13 DEF GetRouterCapabilities, ClientRtpCapabilities, CreateTransport,
       AwaitWorker, CreateProducer, TransportCreated, WorkerAcked
  <2>2. pc'[r] # "consuming"
    BY <1>13 DEF GetRouterCapabilities, ClientRtpCapabilities, CreateTransport,
       AwaitWorker, CreateProducer, TransportCreated, WorkerAcked, Goto, TypeOK
  <2>3. \A q \in Request \ {r} : pc'[q] = pc[q]
    BY <1>13, HandlerMoves DEF Receive, Continue
  <2> QED
    BY <1>6, <2>1, <2>2, <2>3
<1> QED
  BY <1>3, <1>4, <1>5, <1>7, <1>8, <1>9, <1>10, <1>11, <1>12, <1>13
  DEF Receive, Continue

LEMMA ToldStep ==
  ASSUME IInv, StageInv, StageInv', SelfInv, SelfInv', Progress, ReadInv, ToldInv, InboxType,
         AnswerInv, [CallNext]_callVars
  PROVE  ToldInv'
<1>1. ASSUME SfuStep, Downstream PROVE ToldInv'
  BY <1>1, ToldSfu
<1>2. CASE Arrival
  <2>1. SfuStep
    <3>1. CASE UNCHANGED vars
      BY <3>1 DEF SfuStep, FarStep
    <3> QED
      BY <1>2, <3>1, ArrivalSteps DEF SfuStep
  <2> QED
    BY <1>1, <1>2, <2>1, ArrivalSteps
<1>3. ASSUME UNCHANGED <<vars, told>> PROVE ToldInv'
  <2>1. /\ view' = view /\ UNCHANGED <<cur, to, via, tried>> /\ pc' = pc /\ rcv' = rcv
        /\ UNCHANGED <<status, clients, seen>>
    BY <1>3 DEF vars, clientVars, transportVars, loopVars, consumerVars
  <2>2. \A k \in MyConsumers : Met(k) => Met(k)'
    BY <2>1, MetKept
  <2> QED
    BY <1>3, <2>1, <2>2, ToldKept
<1>4. CASE LocalStep
  BY <1>3, <1>4, LocalSteps
<1>5. CASE UNCHANGED callVars
  BY <1>3, <1>5 DEF callVars
<1> QED
  BY <1>1, <1>2, <1>4, <1>5, CallSteps DEF SfuStep, SfuFrame

-----------------------------------------------------------------------------
(* The call implements the SFU that the browser assumes.                   *)

CallInv ==
  /\ IInv /\ StageInv /\ SelfInv
  /\ Progress /\ ReadInv
  /\ InboxType /\ AnswerInv
  /\ ToldInv
  /\ unanswered \in BOOLEAN

LEMMA CallInitInv == CallInit => CallInv
<1> SUFFICES ASSUME CallInit PROVE CallInv
  OBVIOUS
<1>1. /\ Init /\ wire = <<CapsReq>> /\ told = {} /\ inbox = <<>>
      /\ phase = "capabilities" /\ answers = {} /\ unanswered = FALSE
  BY DEF CallInit, Browser!Init, CapsReq
<1>2. IInv
  BY <1>1, InitInv
<1>3. pc = [r \in Request |-> "idle"] /\ prodMap = {} /\ view = {} /\ answered = {}
      /\ status = [c \in Conn |-> "absent"]
      /\ snd = [c \in Conn |-> NoReq] /\ rcv = [c \in Conn |-> NoReq]
  BY <1>1 DEF Init
<1>4. StageInv
  BY <1>3 DEF StageInv, StageOf
<1>5. \A t \in Script : pc[Msg(t)] = "idle"
  BY <1>3, MsgFacts
<1>6. SelfInv
  <2>1. SndReq \in Script /\ RcvReq \in Script
    BY DEF Script, SndReq, RcvReq
  <2>2. \A r \in Mine : pc[r] = "idle"
    BY <1>3 DEF Mine
  <2> QED
    BY <1>3, <1>5, <2>1, <2>2, CallAssumption DEF SelfInv
<1>7. Progress
  BY <1>1, <1>5 DEF Progress, Idle
<1>8. ReadInv
  BY <1>1 DEF ReadInv, Read, Transports
<1>9. InboxType
  BY <1>1, <1>3, FS_EmptySet, EmptySeq DEF InboxType
<1>10. AnswerInv
  <2>1. Len(inbox) = 0
    BY <1>1, EmptySeq
  <2> QED
    BY <2>1 DEF AnswerInv
<1>11. ToldInv
  BY <1>1, <1>3 DEF ToldInv, MakesMine
<1> QED
  BY <1>1, <1>2, <1>4, <1>6, <1>7, <1>8, <1>9, <1>10, <1>11 DEF CallInv

LEMMA CallStepInv ==
  ASSUME CallInv, [CallNext]_callVars
  PROVE  CallInv'
<1> USE DEF CallInv
<1>1. [Next]_vars
  BY RoomSteps
<1>2. IInv'
  BY <1>1, StepInv
<1>3. StageInv'
  BY <1>1, StageStep
<1>4. SelfInv'
  BY SelfStep
<1>5. Progress' /\ ReadInv'
  BY ProgressStep
<1>6. AnswerInv' /\ InboxType'
  BY AnswerStep
<1>7. ToldInv'
  BY <1>3, <1>4, ToldStep
<1>8. unanswered' \in BOOLEAN
  BY CallSteps, LocalSteps DEF SfuFrame, Arrival, callVars
<1> QED
  BY <1>2, <1>3, <1>4, <1>5, <1>6, <1>7, <1>8

\* The invariant of a call
THEOREM CallInvariance == CallSpec => []CallInv
  BY CallInitInv, CallStepInv, PTL DEF CallSpec

\* The state of the room as the browser sees it
Added == status[me] = "open"
Announcing == rcv[me] # NoReq
Held == [k \in MyConsumers |-> IF k \in view THEN "live"
                               ELSE IF k \in told THEN "gone" ELSE "none"]
Outgoing == InService \o wire

\* A step that the browser does not see
LEMMA Unseen ==
  ASSUME UNCHANGED browserVars, UNCHANGED <<inbox, unanswered>>,
         Added' = Added, Announcing' = Announcing, Held' = Held, Outgoing' = Outgoing
  PROVE  UNCHANGED Browser!vars
  BY DEF Browser!vars, Browser!serverVars, Browser!connectVars, Browser!uiVars,
     browserVars, Added, Announcing, Held, Outgoing

LEMMA SeesAdd ==
  ASSUME UNCHANGED browserVars, UNCHANGED <<inbox, unanswered>>,
         ~Added, Added', Announcing' = Announcing, Held' = Held, Outgoing' = Outgoing
  PROVE  Browser!RoomAdd
  BY DEF Browser!RoomAdd, Browser!connectVars, Browser!uiVars,
     browserVars, Added, Announcing, Held, Outgoing

\* A message of connect() is served.
LEMMA SeesServe ==
  ASSUME UNCHANGED browserVars, Added' = Added, Held' = Held,
         Outgoing # <<>>, Outgoing' = Tail(Outgoing),
         inbox' = IF Added /\ Head(Outgoing) \in RequestType
                  THEN Append(inbox, <<"answer", Head(Outgoing)>>) ELSE inbox,
         Announcing' = (Announcing \/ (Added /\ Head(Outgoing) = RcvReq)),
         unanswered' = (unanswered \/ ~Added)
  PROVE  Browser!Serve
  BY DEF Browser!Serve, Browser!RequestType, RequestType, Browser!connectVars,
     Browser!uiVars, browserVars, Added, Announcing, Held, Outgoing, RcvReq

LEMMA SeesAnnounce ==
  ASSUME UNCHANGED browserVars, Added' = Added, Outgoing' = Outgoing, unanswered' = unanswered,
         Announcing, Announcing', NEW k \in MyConsumers, Held[k] = "none",
         Held' = [Held EXCEPT ![k] = "live"], inbox' = Append(inbox, <<"created", k>>)
  PROVE  Browser!Announce(k)
  BY DEF Browser!Announce, Browser!connectVars,
     Browser!uiVars, browserVars, Added, Announcing, Held, Outgoing

\* SetToSeq, seen through the instance
LEMMA SameSetToSeq ==
  ASSUME NEW S
  PROVE  Browser!SetToSeq(S) = SetToSeq(S)
  BY DEF Browser!SetToSeq, SetToSeq, Browser!IsInjective, IsInjective,
     Browser!Cardinality, Cardinality

LEMMA SeesRetract ==
  ASSUME UNCHANGED browserVars, Added' = Added, Outgoing' = Outgoing, unanswered' = unanswered,
         Announcing' = Announcing, NEW K \in SUBSET MyConsumers, K # {},
         Held' = [k \in MyConsumers |-> IF k \in K THEN "gone" ELSE Held[k]],
         inbox' = inbox \o SetToSeq({"closed"} \X K)
  PROVE  Browser!Retract(K)
  BY SameSetToSeq DEF Browser!Retract, Browser!connectVars,
     Browser!uiVars, browserVars, Added, Announcing, Held, Outgoing

Busy(m) == pc[m] \notin {"idle", "done"}

\* What is on its way to the SFU changes with the messages in service only.
LEMMA OutgoingKept ==
  ASSUME wire' = wire,
         \A t \in Script : Busy(Msg(t))' <=> Busy(Msg(t))
  PROVE  Outgoing' = Outgoing
<1>1. ASSUME NEW t \in Script PROVE Waits(t)' = Waits(t)
  BY DEF Waits, Busy
<1>2. SndReq \in Script /\ RcvReq \in Script /\ JoinReq \in Script
  BY DEF Script, SndReq, RcvReq, JoinReq
<1>3. Waits(SndReq)' = Waits(SndReq) /\ Waits(RcvReq)' = Waits(RcvReq)
      /\ Waits(JoinReq)' = Waits(JoinReq)
  BY <1>1, <1>2
<1> QED
  BY <1>3 DEF Outgoing, InService, SndReq, RcvReq, JoinReq

\* The first of a sequence, and the rest
LEMMA FirstAndRest ==
  ASSUME NEW S, NEW x \in S, NEW s \in Seq(S)
  PROVE  <<x>> \o s # <<>> /\ Head(<<x>> \o s) = x /\ Tail(<<x>> \o s) = s
<1>1. <<x>> \in Seq(S) /\ Len(<<x>>) = 1 /\ <<x>>[1] = x
  OBVIOUS
<1>2. PICK q : q = <<x>> \o s
  OBVIOUS
<1>3. /\ q \in Seq(S) /\ Len(q) = 1 + Len(s) /\ Len(s) \in Nat
      /\ \A i \in 1 .. 1 + Len(s) : q[i] = IF i <= 1 THEN x ELSE s[i - 1]
  BY <1>1, <1>2, ConcatProperties, LenProperties
<1>4. q # <<>> /\ Head(q) = x
  BY <1>3
<1>5. /\ Tail(q) \in Seq(S) /\ Len(Tail(q)) = Len(q) - 1
      /\ \A i \in 1 .. Len(Tail(q)) : Tail(q)[i] = q[i + 1]
  BY <1>3, <1>4, HeadTailProperties
<1>6. Len(Tail(q)) = Len(s) /\ \A i \in 1 .. Len(Tail(q)) : Tail(q)[i] = s[i]
  BY <1>3, <1>5
<1>7. Tail(q) = s
  BY <1>5, <1>6, SeqEqual
<1> QED
  BY <1>2, <1>4, <1>7

LEMMA WaitsIs ==
  ASSUME NEW t
  PROVE  Waits(t) = IF Busy(Msg(t)) THEN <<t>> ELSE <<>>
  BY DEF Waits, Busy

\* Four queues behind each other are one queue, however they are put together.
Joins(a, b, c, w) ==
  /\ ((a \o b) \o c) \o w = a \o (b \o (c \o w)) /\ (a \o b) \o c = a \o (b \o c)
  /\ c \o w \in Seq(Script) /\ b \o (c \o w) \in Seq(Script) /\ b \o c \in Seq(Script)

LEMMA FourQueues ==
  ASSUME NEW a \in Seq(Script), NEW b \in Seq(Script), NEW c \in Seq(Script),
         NEW w \in Seq(Script)
  PROVE  Joins(a, b, c, w)
<1>1. PICK d : d = a \o b
  OBVIOUS
<1>2. PICK e : e = c \o w
  OBVIOUS
<1>3. d \in Seq(Script)
  BY <1>1, ConcatProperties
<1>4. e \in Seq(Script)
  BY <1>2, ConcatProperties
<1>5. Associative(d, c, w)
  BY <1>3, QueuesAssociate
<1>6. Associative(a, b, e)
  BY <1>4, QueuesAssociate
<1>7. Associative(a, b, c)
  BY QueuesAssociate
<1>8. b \o e \in Seq(Script) /\ b \o c \in Seq(Script)
  BY <1>4, ConcatProperties
<1> QED
  BY <1>1, <1>2, <1>4, <1>5, <1>6, <1>7, <1>8 DEF Joins, Associative

\* The requests in service, in their order, and then the messages on their way
Queue == Waits(SndReq) \o (Waits(RcvReq) \o (Waits(JoinReq) \o wire))

LEMMA WaitsSeq ==
  ASSUME NEW t \in Script
  PROVE  Waits(t) \in Seq(Script) /\ Waits(t)' \in Seq(Script)
  BY DEF Waits

LEMMA OutgoingQueue ==
  ASSUME Progress, Progress'
  PROVE  /\ Outgoing = Queue /\ Outgoing' = Queue'
         /\ InService = Waits(SndReq) \o (Waits(RcvReq) \o Waits(JoinReq))
         /\ Waits(RcvReq) \o (Waits(JoinReq) \o wire) \in Seq(Script)
         /\ Waits(JoinReq) \o wire \in Seq(Script)
         /\ Waits(RcvReq) \o Waits(JoinReq) \in Seq(Script)
<1>0. SndReq \in Script /\ RcvReq \in Script /\ JoinReq \in Script
  BY DEF Script, SndReq, RcvReq, JoinReq
<1>1. PICK a, b, c, d, e, f :
        /\ a = Waits(SndReq) /\ b = Waits(RcvReq) /\ c = Waits(JoinReq)
        /\ d = Waits(SndReq)' /\ e = Waits(RcvReq)' /\ f = Waits(JoinReq)'
  OBVIOUS
<1>2. /\ a \in Seq(Script) /\ b \in Seq(Script) /\ c \in Seq(Script)
      /\ d \in Seq(Script) /\ e \in Seq(Script) /\ f \in Seq(Script)
  BY <1>0, <1>1, WaitsSeq
<1>3. PICK v, w : v = wire /\ w = wire'
  OBVIOUS
<1>4. v \in Seq(Script)
  BY <1>3, ScriptSeqs
<1>5. w \in Seq(Script)
  <2>0. CapsReq \in Script /\ RtpCaps \in Script
    BY DEF Script, CapsReq, RtpCaps
  <2>1. /\ <<>> \in Seq(Script) /\ <<CapsReq>> \in Seq(Script)
        /\ <<RcvReq>> \in Seq(Script) /\ <<JoinReq>> \in Seq(Script)
        /\ <<SndReq, RcvReq>> \in Seq(Script)
    BY <1>0, <2>0
  <2>2. <<RtpCaps, SndReq, RcvReq>> \in Seq(Script)
    BY <1>0, <2>0
  <2> QED
    BY <1>3, <2>1, <2>2 DEF Progress
<1>6. /\ Outgoing = ((a \o b) \o c) \o v /\ Outgoing' = ((d \o e) \o f) \o w
      /\ InService = (a \o b) \o c
      /\ Queue = a \o (b \o (c \o v)) /\ Queue' = d \o (e \o (f \o w))
  BY <1>1, <1>3 DEF Outgoing, InService, Queue, SndReq, RcvReq, JoinReq
<1>7. Joins(a, b, c, v)
  BY <1>2, <1>4, FourQueues
<1>8. Joins(d, e, f, w)
  BY <1>2, <1>5, FourQueues
<1> QED
  BY <1>1, <1>3, <1>6, <1>7, <1>8 DEF Joins

\* A step of the room that answers nothing announces one consumer, retracts some
\* or is not seen.
LEMMA SeesView ==
  ASSUME CallInv, SfuStep, Downstream, SendsNoAnswer, UNCHANGED browserVars,
         Outgoing' = Outgoing, Added' = Added, Announcing' = Announcing,
         unanswered' = unanswered
  PROVE  [Browser!Next]_(Browser!vars)
<1> USE DEF CallInv
<1>1. \A t \in Script : ~SendsAnswer(t)
  BY MsgFacts DEF SendsAnswer, SendsNoAnswer, Returns
<1>2. ASSUME NEW r \in Request, Announces(r) PROVE Browser!Next
  <2>1. PICK k : k = Making(r)
    OBVIOUS
  <2>2. MakesMine(r) /\ Fresh(r)
    BY <1>2 DEF Announces, ToldInv
  <2>3. k \in MyConsumers /\ k \notin told /\ k \notin view /\ Announcing
    BY <2>1, <2>2 DEF Fresh, ToldInv, Announcing
  <2>4. /\ view' = view \union {k} /\ told' = told \union {k}
        /\ inbox' = Append(inbox, <<"created", k>>)
    BY <1>2, <2>1 DEF Announces
  <2>5. Held[k] = "none" /\ Held' = [Held EXCEPT ![k] = "live"]
    BY <2>3, <2>4 DEF Held, MyConsumers
  <2>6. Browser!Announce(k)
    BY <2>3, <2>4, <2>5, SeesAnnounce
  <2> QED
    BY <2>3, <2>6 DEF Browser!Next
<1>3. ASSUME Retracts PROVE [Browser!Next]_(Browser!vars)
  <2>1. PICK K : K = OfMine(view \ view')
    OBVIOUS
  <2>2. /\ view' \subseteq view /\ told' = told
        /\ inbox' = inbox \o SetToSeq({"closed"} \X K)
    BY <1>3, <2>1 DEF Retracts
  <2>3. K \subseteq view /\ K \subseteq MyConsumers /\ K \subseteq told
    BY <2>1 DEF OfMine, ToldInv, Past
  <2>4. \A k \in MyConsumers : k \in K <=> k \in view /\ k \notin view'
    BY <2>1, MyConsumerFacts DEF OfMine
  <2>5. Held' = [k \in MyConsumers |-> IF k \in K THEN "gone" ELSE Held[k]]
    <3>1. \A k \in MyConsumers :
            (IF k \in view' THEN "live" ELSE IF k \in told THEN "gone" ELSE "none")
              = IF k \in K THEN "gone" ELSE Held[k]
      BY <2>2, <2>3, <2>4 DEF Held
    <3>2. MyConsumers' = MyConsumers
      BY DEF MyConsumers, Msg, Mine, Producers
    <3> QED
      BY <2>2, <3>1, <3>2 DEF Held
  <2>6. CASE K = {}
    <3>1. Held' = Held
      BY <2>5, <2>6 DEF Held
    <3>2. {"closed"} \X K = {}
      BY <2>6
    <3>3. inbox' = inbox
      BY <2>2, <3>2, SetToSeqNone, ConcatEmptySeq DEF InboxType
    <3> QED
      BY <3>1, <3>3, Unseen
  <2>7. CASE K # {}
    <3>1. Browser!Retract(K)
      BY <2>2, <2>3, <2>5, <2>7, SeesRetract
    <3>2. K \in SUBSET Browser!Live
      BY <2>3 DEF Browser!Live
    <3> QED
      BY <3>1, <3>2 DEF Browser!Next
  <2> QED
    BY <2>6, <2>7
<1>4. ASSUME Elsewhere PROVE [Browser!Next]_(Browser!vars)
  <2>1. PICK r \in Request :
          /\ to[r] # me /\ view' = view \union {Making(r)}
          /\ told' = told \union (view' \ view)
    BY <1>4 DEF Elsewhere
  <2>2. Making(r) \notin MyConsumers
    BY <2>1, MyConsumerFacts DEF Making
  <2>3. \A k \in MyConsumers : (k \in view' <=> k \in view) /\ (k \in told' <=> k \in told)
    BY <2>1, <2>2
  <2>4. Held' = Held
    BY <2>3 DEF Held, MyConsumers
  <2>5. inbox' = inbox
    BY <1>4 DEF Elsewhere
  <2> QED
    BY <2>4, <2>5, Unseen
<1> QED
  BY <1>1, <1>2, <1>3, <1>4, DownSteps

\* A request at the front is answered.
LEMMA SeesAnswer ==
  ASSUME NEW t \in Script, SendsAnswer(t), Added, Added', UNCHANGED browserVars,
         unanswered' = unanswered, unanswered \in BOOLEAN,
         NEW q \in Seq(Script), Outgoing = <<t>> \o q, Outgoing' = q,
         Announcing' = (Announcing \/ t = RcvReq)
  PROVE  Browser!Serve
<1>1. Outgoing # <<>> /\ Outgoing' = Tail(Outgoing) /\ Head(Outgoing) = t
  BY FirstAndRest
<1>2. t \in RequestType
  BY DEF SendsAnswer, Script, RequestType, RtpCaps
<1>3. Held' = Held /\ inbox' = Append(inbox, <<"answer", t>>)
  BY DEF SendsAnswer, Held, MyConsumers
<1>4. Added' = Added /\ unanswered' = (unanswered \/ ~Added)
  BY DEF Added
<1>5. inbox' = IF Added /\ Head(Outgoing) \in RequestType
               THEN Append(inbox, <<"answer", Head(Outgoing)>>) ELSE inbox
  BY <1>1, <1>2, <1>3
<1>6. Announcing' = (Announcing \/ (Added /\ Head(Outgoing) = RcvReq))
  BY <1>1
<1> QED
  BY <1>1, <1>3, <1>4, <1>5, <1>6, SeesServe, Zenon

\* The worker has made a transport of the participant.
LEMMA SeesTransport ==
  ASSUME CallInv, CallInv', NEW t \in Transports, Continue(Msg(t)), InOrder(Msg(t)), SfuFrame
  PROVE  Browser!Serve
<1> USE DEF CallInv
<1>0. /\ SndReq \in Script /\ RcvReq \in Script /\ JoinReq \in Script
      /\ t \in Script /\ t # JoinReq /\ t # RtpCaps /\ SndReq # RcvReq
  BY DEF Script, Transports, SndReq, RcvReq, JoinReq, RtpCaps
<1>1. Msg(t) \in Mine /\ Type[Msg(t)] = t
  BY <1>0, MsgFacts
<1>2. /\ pc[Msg(t)] = "creating" /\ Returns(Msg(t)) /\ status[me] = "open"
      /\ snd'[me] = IF t = SndReq THEN Msg(t) ELSE snd[me]
      /\ rcv'[me] = IF t = RcvReq THEN Msg(t) ELSE rcv[me]
      /\ view' = view
  BY <1>0, ContinuesMine
<1>3. SendsAnswer(t)
  <2>1. inbox' = Append(inbox, <<"answer", t>>) /\ told' = told
    BY <1>1, <1>2, DownAnswer DEF SfuFrame
  <2> QED
    BY <1>0, <1>2, <2>1 DEF SendsAnswer
<1>4. t = Head(InService)
  BY <1>1, <1>2 DEF InOrder
<1>5. Waits(t) = <<t>> /\ Waits(t)' = <<>>
  BY <1>2 DEF Waits, Returns
<1>6. ASSUME NEW u \in Script \ {t} PROVE Waits(u)' = Waits(u)
  BY <1>0, OthersSteady DEF Waits
<1>7. Added /\ Added' /\ Announcing' = (Announcing \/ t = RcvReq)
  <2>1. status'[me] = "open"
    BY <1>2 DEF Continue, TransportCreated, WorkerAcked, ProducerCreated, NextClient,
       ConsumerCreated, clientVars
  <2>2. Msg(t) # NoReq
    BY <1>0, MsgFacts, ConstantsAssumption
  <2> QED
    BY <1>2, <2>1, <2>2 DEF Added, Announcing
<1>8. /\ Outgoing = Queue /\ Outgoing' = Queue'
      /\ InService = Waits(SndReq) \o (Waits(RcvReq) \o Waits(JoinReq))
      /\ Waits(RcvReq) \o (Waits(JoinReq) \o wire) \in Seq(Script)
      /\ Waits(JoinReq) \o wire \in Seq(Script)
      /\ Waits(RcvReq) \o Waits(JoinReq) \in Seq(Script)
  BY OutgoingQueue
<1>9. wire' = wire /\ UNCHANGED browserVars /\ unanswered' = unanswered
  BY DEF SfuFrame
<1>10. CASE t = SndReq
  <2>1. PICK q : q = Waits(RcvReq) \o (Waits(JoinReq) \o wire)
    OBVIOUS
  <2>2. Waits(RcvReq)' = Waits(RcvReq) /\ Waits(JoinReq)' = Waits(JoinReq)
    BY <1>0, <1>6, <1>10
  <2>3. q \in Seq(Script)
    BY <1>8, <2>1
  <2>4. Outgoing = <<t>> \o q /\ Outgoing' = <<>> \o q
    BY <1>5, <1>8, <1>9, <1>10, <2>1, <2>2 DEF Queue
  <2>5. Outgoing' = q
    BY <2>3, <2>4, ConcatEmptySeq
  <2> QED
    BY <1>0, <1>3, <1>7, <1>9, <2>3, <2>4, <2>5, SeesAnswer
<1>11. CASE t = RcvReq
  <2>1. PICK q, s : q = Waits(JoinReq) \o wire /\ s = Waits(RcvReq) \o Waits(JoinReq)
    OBVIOUS
  <2>2. Waits(SndReq)' = Waits(SndReq) /\ Waits(JoinReq)' = Waits(JoinReq)
    BY <1>0, <1>6, <1>11
  <2>3. q \in Seq(Script) /\ s \in Seq(Script)
    BY <1>8, <2>1
  <2>4. Waits(SndReq) = <<>>
    <3> SUFFICES ASSUME Waits(SndReq) = <<SndReq>> PROVE FALSE
      BY WaitsIs
    <3>1. InService = <<SndReq>> \o s
      BY <1>8, <2>1
    <3>2. Head(InService) = SndReq
      BY <1>0, <2>3, <3>1, FirstAndRest
    <3> QED
      BY <1>0, <1>4, <1>11, <3>2
  <2>5. <<t>> \o q \in Seq(Script)
    BY <1>5, <1>8, <1>11, <2>1
  <2>6. Outgoing = <<>> \o (<<t>> \o q) /\ Outgoing' = <<>> \o (<<>> \o q)
    BY <1>5, <1>8, <1>9, <1>11, <2>1, <2>2, <2>4 DEF Queue
  <2>7. Outgoing = <<t>> \o q /\ Outgoing' = q
    BY <2>3, <2>5, <2>6, ConcatEmptySeq
  <2> QED
    BY <1>0, <1>3, <1>7, <1>9, <2>3, <2>7, SeesAnswer
<1> QED
  BY <1>10, <1>11 DEF Transports

LEMMA EmptyQueues ==
  ASSUME NEW q \in Seq(Script)
  PROVE  /\ <<>> \o (<<>> \o (<<>> \o q)) = q
         /\ <<>> \o (<<>> \o (q \o <<>>)) = q
         /\ <<>> \o (q \o (<<>> \o <<>>)) = q
<1>1. <<>> \o q = q /\ q \o <<>> = q
  BY ConcatEmptySeq
<1>2. <<>> \o <<>> = <<>>
  OBVIOUS
<1> QED
  BY <1>1, <1>2

\* When connect() joins, both transports have been made and answered for.
LEMMA JoinsAlone ==
  ASSUME Progress, ReadInv, phase \in {"joining", "connected"}
  PROVE  Waits(SndReq) = <<>> /\ Waits(RcvReq) = <<>>
<1>1. SndReq \in Script /\ RcvReq \in Script
  BY DEF Script, SndReq, RcvReq
<1>2. Read(SndReq) /\ Read(RcvReq)
  BY DEF ReadInv, Read, Transports
<1> QED
  BY <1>1, <1>2 DEF ReadInv, Waits

\* The loop over the clients of join-call-request goes on, or is over.
LEMMA SeesJoin ==
  ASSUME CallInv, CallInv', Continue(Msg(JoinReq)), SfuFrame
  PROVE  [Browser!Next]_(Browser!vars)
<1> USE DEF CallInv
<1>0. /\ SndReq \in Script /\ RcvReq \in Script /\ JoinReq \in Script
      /\ JoinReq \notin Transports \union {CapsReq, RtpCaps, SndReq, RcvReq}
  BY DEF Script, Transports, CapsReq, SndReq, RcvReq, JoinReq, RtpCaps
<1>1. Msg(JoinReq) \in Mine /\ Type[Msg(JoinReq)] = JoinReq /\ Msg(JoinReq) \in Request
  BY <1>0, MsgFacts
<1>2. /\ pc[Msg(JoinReq)] \notin {"idle", "done"} /\ status[me] = "open"
      /\ UNCHANGED <<snd, rcv>>
      /\ Stays(Msg(JoinReq)) \/ (Returns(Msg(JoinReq)) /\ view' = view)
  BY <1>0, ContinuesMine
<1>3. status' = status
  BY <1>1, HandlerMoves
<1>4. Added /\ Added' /\ Announcing' = Announcing
  BY <1>2, <1>3 DEF Added, Announcing
<1>5. \A u \in Script \ {JoinReq} : pc'[Msg(u)] = pc[Msg(u)]
  BY <1>0, OthersSteady
<1>6. wire' = wire /\ UNCHANGED browserVars /\ unanswered' = unanswered /\ Downstream
  BY DEF SfuFrame
<1>7. CASE Stays(Msg(JoinReq))
  <2>1. \A t \in Script : Busy(Msg(t))' <=> Busy(Msg(t))
    BY <1>2, <1>5, <1>7 DEF Busy, Stays
  <2>2. Outgoing' = Outgoing
    BY <1>6, <2>1, OutgoingKept
  <2>3. SendsNoAnswer /\ SfuStep
    BY <1>0, <1>7 DEF Stays, SendsNoAnswer, SfuStep
  <2> QED
    BY <1>4, <1>6, <2>2, <2>3, SeesView
<1>8. CASE Returns(Msg(JoinReq)) /\ view' = view
  <2>1. SendsAnswer(JoinReq)
    <3>1. inbox' = Append(inbox, <<"answer", JoinReq>>) /\ told' = told
      BY <1>1, <1>6, <1>8, DownAnswer
    <3> QED
      BY <1>0, <1>8, <3>1 DEF SendsAnswer
  <2>2. phase \in {"joining", "connected"} /\ wire = <<>>
    BY <1>0, <1>2 DEF Progress, Idle
  <2>3. Waits(SndReq) = <<>> /\ Waits(RcvReq) = <<>>
    BY <2>2, JoinsAlone
  <2>4. Waits(SndReq)' = <<>> /\ Waits(RcvReq)' = <<>>
    BY <1>0, <1>5, <2>3 DEF Waits
  <2>5. Waits(JoinReq) = <<JoinReq>> /\ Waits(JoinReq)' = <<>>
    BY <1>2, <1>8 DEF Waits, Returns
  <2>6. /\ Outgoing = <<>> \o (<<>> \o (<<JoinReq>> \o <<>>))
        /\ Outgoing' = <<>> \o (<<>> \o (<<>> \o <<>>))
    BY <1>6, <2>2, <2>3, <2>4, <2>5, OutgoingQueue DEF Queue
  <2>7. PICK q : q = <<>>
    OBVIOUS
  <2>8. q \in Seq(Script) /\ <<JoinReq>> \o q \in Seq(Script)
    BY <1>0, <2>7
  <2>9. Outgoing = <<JoinReq>> \o q /\ Outgoing' = q
    BY <2>6, <2>7, <2>8, EmptyQueues
  <2>10. Announcing' = (Announcing \/ JoinReq = RcvReq)
    BY <1>0, <1>4 DEF Announcing
  <2>11. Browser!Serve
    BY <1>0, <1>4, <1>6, <2>1, <2>8, <2>9, <2>10, SeesAnswer
  <2> QED
    BY <2>11 DEF Browser!Next
<1> QED
  BY <1>2, <1>7, <1>8

\* A message of the participant arrives.
LEMMA SeesArrival ==
  ASSUME CallInv, CallInv', Arrival
  PROVE  [Browser!Next]_(Browser!vars)
<1> USE DEF CallInv
<1>0. /\ CapsReq \in Script /\ RtpCaps \in Script
      /\ SndReq \in Script /\ RcvReq \in Script /\ JoinReq \in Script
      /\ Transports = {SndReq, RcvReq}
      /\ SndReq \notin {CapsReq, RtpCaps, RcvReq, JoinReq}
      /\ RcvReq \notin {CapsReq, RtpCaps, SndReq, JoinReq}
      /\ JoinReq \notin {CapsReq, RtpCaps, SndReq, RcvReq}
      /\ CapsReq # RtpCaps /\ CapsReq \in RequestType /\ RtpCaps \notin RequestType
  BY DEF Script, Transports, SndReq, RcvReq, JoinReq, RtpCaps, CapsReq, RequestType
<1>1. /\ wire # <<>> /\ wire' = Tail(wire) /\ Downstream /\ UNCHANGED browserVars
      /\ \/ /\ status[me] # "open" /\ UNCHANGED vars /\ unanswered' = TRUE
            /\ phase = "capabilities" /\ wire = <<CapsReq>> /\ Idle(Script)
         \/ /\ status[me] = "open" /\ unanswered' = unanswered
            /\ Head(wire) \in Script /\ Receive(Msg(Head(wire)))
  BY ArrivalSteps
<1>2. Outgoing = Queue /\ Outgoing' = Queue'
  BY OutgoingQueue
<1>3. CASE status[me] # "open"
  <2>1. UNCHANGED vars /\ unanswered' = TRUE /\ wire = <<CapsReq>> /\ Idle(Script)
    BY <1>1, <1>3
  <2>2. wire' = <<>>
    BY <1>1, <2>1
  <2>3. \A t \in {SndReq, RcvReq, JoinReq} : Waits(t) = <<>> /\ Waits(t)' = <<>>
    BY <1>0, <2>1 DEF Idle, Waits, vars
  <2>4. /\ Outgoing = <<>> \o (<<>> \o (<<>> \o <<CapsReq>>))
        /\ Outgoing' = <<>> \o (<<>> \o (<<>> \o <<>>))
    BY <1>2, <2>1, <2>2, <2>3 DEF Queue
  <2>5. <<>> \in Seq(Script) /\ <<CapsReq>> \in Seq(Script)
    BY <1>0
  <2>6. Outgoing = <<CapsReq>> /\ Outgoing' = <<>>
    BY <2>4, <2>5, EmptyQueues
  <2>7. Outgoing # <<>> /\ Outgoing' = Tail(Outgoing) /\ Head(Outgoing) = CapsReq
    BY <2>6
  <2>8. inbox' = inbox /\ told' = told
    <3>1. /\ OfMine(view' \ view) = {} /\ OfMine(view \ view') = {}
          /\ Mine \intersect answered' = Mine \intersect answered
      BY <2>1 DEF vars, consumerVars, OfMine
    <3>2. told' = told
      BY <1>1, <2>1 DEF Downstream, vars, consumerVars
    <3> QED
      BY <1>1, <3>1, <3>2, DownNothing
  <2>9. ~Added /\ Added' = Added /\ Announcing' = Announcing /\ Held' = Held
    BY <1>3, <2>1, <2>8 DEF Added, Announcing, Held, MyConsumers, vars, clientVars,
       transportVars, consumerVars
  <2>10. /\ inbox' = IF Added /\ Head(Outgoing) \in RequestType
                     THEN Append(inbox, <<"answer", Head(Outgoing)>>) ELSE inbox
         /\ Announcing' = (Announcing \/ (Added /\ Head(Outgoing) = RcvReq))
         /\ unanswered' = (unanswered \/ ~Added)
    BY <2>1, <2>8, <2>9 DEF Announcing
  <2>11. Browser!Serve
    BY <1>1, <2>7, <2>9, <2>10, SeesServe, Zenon
  <2> QED
    BY <2>11 DEF Browser!Next
<1>4. CASE status[me] = "open"
  <2>1. PICK t \in Script : t = Head(wire)
    BY <1>1, <1>4
  <2>2. Receive(Msg(t)) /\ unanswered' = unanswered /\ Msg(t) \in Mine
        /\ Type[Msg(t)] = t /\ Msg(t) \in Request
    BY <1>1, <1>4, <2>1, MsgFacts
  <2>3. /\ pc[Msg(t)] = "idle" /\ UNCHANGED <<snd, rcv, view>>
        /\ \/ t = CapsReq /\ Returns(Msg(t))
           \/ t = RtpCaps /\ pc'[Msg(t)] = "done" /\ answered' = answered
           \/ t \in Transports /\ Stays(Msg(t))
           \/ t = JoinReq /\ (Stays(Msg(t)) \/ Returns(Msg(t)))
    BY <2>2, ReceivesMine
  <2>4. status' = status
    BY <2>2, HandlerMoves
  <2>5. told' = told
    BY <1>1, <2>3 DEF Downstream
  <2>6. Added /\ Added' /\ Announcing' = Announcing /\ Held' = Held
    BY <1>4, <2>3, <2>4, <2>5 DEF Added, Announcing, Held, MyConsumers
  <2>7. ASSUME NEW u \in Script \ {t} PROVE Waits(u)' = Waits(u)
    BY <2>2, OthersSteady DEF Waits
  <2>8. SfuStep
    BY <2>2 DEF SfuStep
  <2>9. ASSUME answered' = answered PROVE inbox' = inbox
    BY <1>1, <2>3, <2>9, DownNothing DEF OfMine
  <2>10. ASSUME Returns(Msg(t)), t # RtpCaps PROVE SendsAnswer(t)
    <3>1. inbox' = Append(inbox, <<"answer", t>>)
      BY <1>1, <2>2, <2>3, <2>10, DownAnswer
    <3> QED
      BY <2>3, <2>5, <2>10, <3>1 DEF SendsAnswer
  <2>11. /\ t = CapsReq => wire = <<CapsReq>> /\ Idle(Script)
         /\ t = RtpCaps => wire = <<RtpCaps, SndReq, RcvReq>> /\ Idle(Script \ {CapsReq})
         /\ t = SndReq => wire = <<SndReq, RcvReq>> /\ Idle({SndReq, RcvReq, JoinReq})
         /\ t = RcvReq => wire = <<RcvReq>> /\ Idle({RcvReq, JoinReq})
         /\ t = JoinReq => wire = <<JoinReq>> /\ phase = "joining" /\ Idle({JoinReq})
    BY <1>0, <1>1, <2>1 DEF Progress
  <2>12. <<>> \in Seq(Script)
    OBVIOUS
  <2>13. CASE t = CapsReq
    <3>1. wire = <<CapsReq>> /\ wire' = <<>>
      BY <1>1, <2>11, <2>13
    <3>2. \A u \in {SndReq, RcvReq, JoinReq} : Waits(u) = <<>>
      BY <1>0, <2>11, <2>13 DEF Idle, Waits
    <3>3. \A u \in {SndReq, RcvReq, JoinReq} : Waits(u)' = <<>>
      BY <1>0, <2>7, <2>13, <3>2
    <3>4. /\ Outgoing = <<>> \o (<<>> \o (<<>> \o <<CapsReq>>))
          /\ Outgoing' = <<>> \o (<<>> \o (<<>> \o <<>>))
      BY <1>2, <3>1, <3>2, <3>3 DEF Queue
    <3>5. <<CapsReq>> \in Seq(Script) /\ <<CapsReq>> = <<CapsReq>> \o <<>>
      BY <1>0
    <3>6. Outgoing = <<t>> \o <<>> /\ Outgoing' = <<>>
      BY <2>12, <2>13, <3>4, <3>5, EmptyQueues
    <3>7. SendsAnswer(t) /\ Announcing' = (Announcing \/ t = RcvReq)
      BY <1>0, <2>3, <2>6, <2>10, <2>13 DEF Announcing
    <3>8. Browser!Serve
      BY <1>1, <2>2, <2>6, <2>12, <3>6, <3>7, SeesAnswer
    <3> QED
      BY <3>8 DEF Browser!Next
  <2>14. CASE t = RtpCaps
    <3>1. wire = <<RtpCaps, SndReq, RcvReq>> /\ wire' = <<SndReq, RcvReq>>
      <4>1. wire = <<RtpCaps, SndReq, RcvReq>>
        BY <2>11, <2>14
      <4> QED
        BY <1>1, <4>1
    <3>2. \A u \in {SndReq, RcvReq, JoinReq} : Waits(u) = <<>>
      BY <1>0, <2>11, <2>14 DEF Idle, Waits
    <3>3. \A u \in {SndReq, RcvReq, JoinReq} : Waits(u)' = <<>>
      BY <1>0, <2>7, <2>14, <3>2
    <3>4. /\ Outgoing = <<>> \o (<<>> \o (<<>> \o wire))
          /\ Outgoing' = <<>> \o (<<>> \o (<<>> \o wire'))
      BY <1>2, <3>2, <3>3 DEF Queue
    <3>5. wire \in Seq(Script)
      BY <1>0, <3>1
    <3>6. wire' \in Seq(Script)
      BY <1>0, <3>1
    <3>7. Outgoing = wire /\ Outgoing' = wire'
      BY <3>4, <3>5, <3>6, EmptyQueues
    <3>8. Outgoing # <<>> /\ Outgoing' = Tail(Outgoing) /\ Head(Outgoing) = RtpCaps
      BY <1>1, <2>1, <2>14, <3>7
    <3>9. answered' = answered
      BY <1>0, <2>3, <2>14
    <3>10. /\ inbox' = IF Added /\ Head(Outgoing) \in RequestType
                       THEN Append(inbox, <<"answer", Head(Outgoing)>>) ELSE inbox
           /\ Announcing' = (Announcing \/ (Added /\ Head(Outgoing) = RcvReq))
           /\ unanswered' = (unanswered \/ ~Added)
      BY <1>0, <2>2, <2>6, <2>9, <3>8, <3>9 DEF Announcing
    <3>11. Added' = Added
      BY <2>6 DEF Added
    <3>12. Browser!Serve
      BY <1>1, <2>6, <3>8, <3>10, <3>11, SeesServe, Zenon
    <3> QED
      BY <3>12 DEF Browser!Next
  <2>15. CASE t = SndReq
    <3>1. wire = <<SndReq, RcvReq>> /\ wire' = <<RcvReq>>
      <4>1. wire = <<SndReq, RcvReq>>
        BY <2>11, <2>15
      <4> QED
        BY <1>1, <4>1
    <3>2. \A u \in {SndReq, RcvReq, JoinReq} : Waits(u) = <<>>
      BY <1>0, <2>11, <2>15 DEF Idle, Waits
    <3>3. Waits(RcvReq)' = <<>> /\ Waits(JoinReq)' = <<>>
      BY <1>0, <2>7, <2>15, <3>2
    <3>4. Stays(Msg(t))
      BY <1>0, <2>3, <2>15
    <3>5. Waits(SndReq)' = <<SndReq>> /\ inbox' = inbox
      BY <2>9, <2>15, <3>4 DEF Stays, Waits
    <3>6. /\ Outgoing = <<>> \o (<<>> \o (<<>> \o <<SndReq, RcvReq>>))
          /\ Outgoing' = <<SndReq>> \o (<<>> \o (<<>> \o <<RcvReq>>))
      BY <1>2, <3>1, <3>2, <3>3, <3>5 DEF Queue
    <3>7. <<SndReq, RcvReq>> \in Seq(Script) /\ <<RcvReq>> \in Seq(Script)
      BY <1>0
    <3>8. Outgoing = <<SndReq, RcvReq>>
      BY <3>6, <3>7, EmptyQueues
    <3>9. Outgoing' = <<SndReq>> \o <<RcvReq>>
      BY <3>6, <3>7, ConcatEmptySeq
    <3>10. <<SndReq>> \o <<RcvReq>> = <<SndReq, RcvReq>>
      <4>1. PICK x \in Script, y \in Script : x = SndReq /\ y = RcvReq
        BY <1>0
      <4>2. PICK q, s : q = <<x>> \o <<y>> /\ s = <<x, y>>
        OBVIOUS
      <4>3. <<x>> \in Seq(Script) /\ Len(<<x>>) = 1 /\ <<x>>[1] = x
        OBVIOUS
      <4>4. <<y>> \in Seq(Script) /\ Len(<<y>>) = 1 /\ <<y>>[1] = y
        OBVIOUS
      <4>5. q \in Seq(Script) /\ Len(q) = 2 /\ q[1] = x /\ q[2] = y
        BY <4>2, <4>3, <4>4, ConcatProperties
      <4>6. s \in Seq(Script) /\ Len(s) = 2 /\ s[1] = x /\ s[2] = y
        BY <4>2
      <4>7. \A i \in 1 .. 2 : q[i] = s[i]
        BY <4>5, <4>6
      <4>8. q = s
        BY <4>5, <4>6, <4>7, SeqEqual
      <4> QED
        BY <4>1, <4>2, <4>8
    <3> QED
      BY <1>1, <2>2, <2>6, <3>5, <3>8, <3>9, <3>10, Unseen DEF Added
  <2>16. CASE t = RcvReq
    <3>1. wire = <<RcvReq>> /\ wire' = <<>>
      BY <1>1, <2>11, <2>16
    <3>2. Waits(RcvReq) = <<>> /\ Waits(JoinReq) = <<>>
      BY <1>0, <2>11, <2>16 DEF Idle, Waits
    <3>3. Waits(SndReq)' = Waits(SndReq) /\ Waits(JoinReq)' = <<>>
      BY <1>0, <2>7, <2>16, <3>2
    <3>4. Stays(Msg(t))
      BY <1>0, <2>3, <2>16
    <3>5. Waits(RcvReq)' = <<RcvReq>> /\ inbox' = inbox
      BY <2>9, <2>16, <3>4 DEF Stays, Waits
    <3>6. /\ Outgoing = Waits(SndReq) \o (<<>> \o (<<>> \o <<RcvReq>>))
          /\ Outgoing' = Waits(SndReq) \o (<<RcvReq>> \o (<<>> \o <<>>))
      BY <1>2, <3>1, <3>2, <3>3, <3>5 DEF Queue
    <3>7. <<RcvReq>> \in Seq(Script) /\ <<>> \o <<>> = <<>>
      BY <1>0
    <3>8. <<>> \o (<<>> \o <<RcvReq>>) = <<RcvReq>> /\ <<RcvReq>> \o (<<>> \o <<>>) = <<RcvReq>>
      BY <3>7, ConcatEmptySeq
    <3>9. Outgoing' = Outgoing
      BY <3>6, <3>8
    <3> QED
      BY <1>1, <2>2, <2>6, <3>5, <3>9, Unseen DEF Added
  <2>17. CASE t = JoinReq
    <3>1. wire = <<JoinReq>> /\ wire' = <<>> /\ phase = "joining"
      BY <1>1, <2>11, <2>17
    <3>2. Waits(JoinReq) = <<>>
      BY <1>0, <2>11, <2>17 DEF Idle, Waits
    <3>3. Waits(SndReq) = <<>> /\ Waits(RcvReq) = <<>>
      BY <3>1, JoinsAlone
    <3>4. Waits(SndReq)' = <<>> /\ Waits(RcvReq)' = <<>>
      BY <1>0, <2>7, <2>17, <3>3
    <3>5. <<JoinReq>> \in Seq(Script)
      BY <1>0
    <3>6. Outgoing = <<>> \o (<<>> \o (<<>> \o <<JoinReq>>))
      BY <1>2, <3>1, <3>2, <3>3 DEF Queue
    <3>7. Outgoing = <<JoinReq>>
      BY <3>5, <3>6, EmptyQueues
    <3>8. CASE Stays(Msg(t))
      <4>1. Waits(JoinReq)' = <<JoinReq>> /\ inbox' = inbox
        BY <2>9, <2>17, <3>8 DEF Stays, Waits
      <4>2. Outgoing' = <<>> \o (<<>> \o (<<JoinReq>> \o <<>>))
        BY <1>2, <3>1, <3>4, <4>1 DEF Queue
      <4>3. Outgoing' = Outgoing
        BY <3>5, <3>7, <4>2, EmptyQueues
      <4> QED
        BY <1>1, <2>2, <2>6, <4>1, <4>3, Unseen DEF Added
    <3>9. CASE Returns(Msg(t))
      <4>1. Waits(JoinReq)' = <<>>
        BY <2>17, <3>9 DEF Returns, Waits
      <4>2. Outgoing' = <<>> \o (<<>> \o (<<>> \o <<>>))
        BY <1>2, <3>1, <3>4, <4>1 DEF Queue
      <4>3. Outgoing' = <<>> /\ Outgoing = <<t>> \o <<>>
        BY <2>12, <2>17, <3>7, <4>2, EmptyQueues
      <4>4. SendsAnswer(t) /\ Announcing' = (Announcing \/ t = RcvReq)
        BY <1>0, <2>6, <2>10, <2>17, <3>9 DEF Announcing
      <4>5. Browser!Serve
        BY <1>1, <2>2, <2>6, <2>12, <4>3, <4>4, SeesAnswer
      <4> QED
        BY <4>5 DEF Browser!Next
    <3> QED
      BY <1>0, <2>3, <2>17, <3>8, <3>9
  <2> QED
    BY <1>0, <2>3, <2>13, <2>14, <2>15, <2>16, <2>17
<1> QED
  BY <1>3, <1>4

\* Every step of a call is one that the browser may see.
LEMMA CallRefines ==
  ASSUME CallInv, [CallNext]_callVars
  PROVE  [Browser!Next]_(Browser!vars)
<1> USE DEF CallInv
<1>1. CallInv'
  BY CallStepInv
<1>2. ASSUME Add(me), SfuFrame PROVE [Browser!Next]_(Browser!vars)
  <2>1. /\ wire' = wire /\ UNCHANGED browserVars /\ unanswered' = unanswered /\ Downstream
        /\ UNCHANGED <<pc, rcv, view, answered>>
        /\ status[me] # "open" /\ status'[me] = "open"
    BY <1>2, CallAssumption DEF SfuFrame, Add, IInv, TypeOK, transportVars, mediaVars,
       loopVars, consumerVars
  <2>2. Outgoing' = Outgoing
    BY <2>1, OutgoingKept DEF Busy
  <2>3. inbox' = inbox /\ told' = told
    <3>1. inbox' = inbox
      BY <2>1, DownNothing DEF OfMine
    <3> QED
      BY <2>1, <3>1 DEF Downstream
  <2>4. ~Added /\ Added' /\ Announcing' = Announcing /\ Held' = Held
    BY <2>1, <2>3 DEF Added, Announcing, Held, MyConsumers
  <2>5. Browser!RoomAdd
    BY <2>1, <2>2, <2>3, <2>4, SeesAdd
  <2> QED
    BY <2>5 DEF Browser!Next
<1>3. ASSUME FarStep, SfuFrame PROVE [Browser!Next]_(Browser!vars)
  <2>1. Far /\ SfuStep
    BY <1>3, FarSteps DEF SfuStep
  <2>2. wire' = wire /\ UNCHANGED browserVars /\ unanswered' = unanswered /\ Downstream
    BY <1>3 DEF SfuFrame
  <2>3. \A t \in Script : Busy(Msg(t))' <=> Busy(Msg(t))
    BY <2>1, MsgFacts DEF Far, Busy
  <2>4. Outgoing' = Outgoing
    BY <2>2, <2>3, OutgoingKept
  <2>5. SendsNoAnswer /\ Added' = Added /\ Announcing' = Announcing
    BY <2>1 DEF Far, SendsNoAnswer, Added, Announcing
  <2> QED
    BY <2>1, <2>2, <2>4, <2>5, SeesView
<1>4. ASSUME NEW t \in Script, Continue(Msg(t)), InOrder(Msg(t)), SfuFrame
      PROVE  [Browser!Next]_(Browser!vars)
  <2>1. t \in Transports \/ t = JoinReq
    BY <1>4, ContinuesMine
  <2>2. CASE t \in Transports
    <3>1. Browser!Serve
      BY <1>1, <1>4, <2>2, SeesTransport
    <3> QED
      BY <3>1 DEF Browser!Next
  <2>3. CASE t = JoinReq
    BY <1>1, <1>4, <2>3, SeesJoin
  <2> QED
    BY <2>1, <2>2, <2>3
<1>5. CASE Arrival
  BY <1>1, <1>5, SeesArrival
<1>6. CASE LocalStep
  BY <1>6 DEF LocalStep, Local, Browser!Next
<1>7. CASE UNCHANGED callVars
  <2>1. UNCHANGED <<pc, status, rcv, view, wire, inbox, told, unanswered>> /\ UNCHANGED browserVars
    BY <1>7 DEF callVars, vars, clientVars, transportVars, consumerVars
  <2>2. Outgoing' = Outgoing
    BY <2>1, OutgoingKept DEF Busy
  <2>3. Added' = Added /\ Announcing' = Announcing /\ Held' = Held
    BY <2>1 DEF Added, Announcing, Held, MyConsumers
  <2> QED
    BY <2>1, <2>2, <2>3, Unseen
<1> QED
  BY <1>2, <1>3, <1>4, <1>5, <1>6, <1>7, CallSteps

\* The room of Room is the SFU that MediaClient assumes: through the websocket of
\* one participant, whatever the others do, it answers each request once and in
\* order, announces a consumer once and only after the answer for the receiving
\* transport, and retracts only what it announced (Room.ts:
\* createClientMessageListener, addConsumer, close).
THEOREM CallImplementsMediaClient == CallSpec => ImplementsMediaClient
<1>1. CallInit => Browser!Init
  BY DEF CallInit
<1>2. CallInv /\ [CallNext]_callVars => [Browser!Next]_(Browser!vars)
  BY CallRefines
<1> QED
  BY <1>1, <1>2, CallInvariance, PTL DEF CallSpec, ImplementsMediaClient, Browser!Spec

-----------------------------------------------------------------------------
(* What the participant sees of the room.                                  *)

\* The browser with what is proved of it.  Its operators are those of Browser.
Participant == INSTANCE MediaClientProofs WITH
  Consumer   <- MyConsumers,
  Remote     <- ClientId \ {IdOf[me]},
  OwnerOf    <- [k \in MyConsumers |-> IdOf[From[k.prod]]],
  KindOf     <- [k \in MyConsumers |-> Media[k.prod]],
  NoTrack    <- NoReq,
  rcv        <- rcvStored,
  added      <- status[me] = "open",
  announcing <- rcv[me] # NoReq,
  srv        <- [k \in MyConsumers |-> IF k \in view THEN "live"
                                       ELSE IF k \in told THEN "gone" ELSE "none"],
  outbox     <- InService \o wire

\* Both names of the browser stand for the same behaviours.
LEMMA SameBrowser ==
  /\ Participant!Init <=> Browser!Init
  /\ [Participant!Next]_(Participant!vars) <=> [Browser!Next]_(Browser!vars)
  /\ Participant!ShownExact <=> Browser!ShownExact
<1>1. Participant!Init <=> Browser!Init
  BY DEF Participant!Init, Browser!Init, Participant!NoIds, Browser!NoIds,
     Participant!Kind, Browser!Kind
<1>2. UNCHANGED Participant!vars <=> UNCHANGED Browser!vars
  BY DEF Participant!vars, Browser!vars, Participant!serverVars,
     Browser!serverVars, Participant!connectVars, Browser!connectVars,
     Participant!uiVars, Browser!uiVars
<1>3. Participant!RoomAdd <=> Browser!RoomAdd
  BY DEF Participant!RoomAdd, Browser!RoomAdd, Participant!connectVars,
     Browser!connectVars, Participant!uiVars, Browser!uiVars
<1>4. Participant!Serve <=> Browser!Serve
  BY DEF Participant!Serve, Browser!Serve, Participant!connectVars,
     Browser!connectVars, Participant!uiVars, Browser!uiVars,
     Participant!RequestType, Browser!RequestType
<1>5. Participant!Answered <=> Browser!Answered
  BY DEF Participant!Answered, Browser!Answered, Participant!serverVars,
     Browser!serverVars, Participant!connectVars, Browser!connectVars,
     Participant!uiVars, Browser!uiVars, Participant!Receive, Browser!Receive,
     Participant!TransportAnswers, Browser!TransportAnswers, Participant!Stored,
     Browser!Stored
<1>6. Participant!DeviceLoaded <=> Browser!DeviceLoaded
  BY DEF Participant!DeviceLoaded, Browser!DeviceLoaded, Participant!serverVars,
     Browser!serverVars, Participant!connectVars, Browser!connectVars,
     Participant!uiVars, Browser!uiVars
<1>19. Participant!DeviceRejected <=> Browser!DeviceRejected
  BY DEF Participant!DeviceRejected, Browser!DeviceRejected, Participant!serverVars,
     Browser!serverVars, Participant!uiVars, Browser!uiVars
<1>7. Participant!Rendered <=> Browser!Rendered
  BY DEF Participant!Rendered, Browser!Rendered, Participant!serverVars,
     Browser!serverVars, Participant!connectVars, Browser!connectVars,
     Participant!uiVars, Browser!uiVars
<1>8. Participant!ConsumerCreated <=> Browser!ConsumerCreated
  BY DEF Participant!ConsumerCreated, Browser!ConsumerCreated,
     Participant!serverVars, Browser!serverVars, Participant!connectVars,
     Browser!connectVars, Participant!uiVars, Browser!uiVars, Participant!Receive,
     Browser!Receive
<1>9. Participant!Consumed <=> Browser!Consumed
  BY DEF Participant!Consumed, Browser!Consumed, Participant!serverVars,
     Browser!serverVars, Participant!connectVars, Browser!connectVars,
     Participant!uiVars, Browser!uiVars, Participant!AddTrack, Browser!AddTrack,
     Participant!Snapshot, Browser!Snapshot
<1>10. Participant!ConsumeRejected <=> Browser!ConsumeRejected
  BY DEF Participant!ConsumeRejected, Browser!ConsumeRejected,
     Participant!serverVars, Browser!serverVars, Participant!connectVars,
     Browser!connectVars, Participant!uiVars, Browser!uiVars
<1>11. Participant!ConsumerClosed <=> Browser!ConsumerClosed
  BY DEF Participant!ConsumerClosed, Browser!ConsumerClosed,
     Participant!serverVars, Browser!serverVars, Participant!connectVars,
     Browser!connectVars, Participant!uiVars, Browser!uiVars, Participant!Receive,
     Browser!Receive, Participant!RemoveTrack, Browser!RemoveTrack,
     Participant!LeavesNone, Browser!LeavesNone, Participant!ForgetId,
     Browser!ForgetId, Participant!NoIds, Browser!NoIds, Participant!Kind,
     Browser!Kind, Participant!ToSet, Browser!ToSet
<1>12. ASSUME NEW k PROVE Participant!Announce(k) <=> Browser!Announce(k)
  BY DEF Participant!Announce, Browser!Announce, Participant!connectVars,
     Browser!connectVars, Participant!uiVars, Browser!uiVars
<1>13. ASSUME NEW S PROVE Participant!SetToSeq(S) = Browser!SetToSeq(S)
  BY DEF Participant!SetToSeq, Browser!SetToSeq, Participant!IsInjective,
     Browser!IsInjective, Participant!Cardinality, Browser!Cardinality
<1>14. ASSUME NEW K PROVE Participant!Retract(K) <=> Browser!Retract(K)
  BY <1>13 DEF Participant!Retract, Browser!Retract, Participant!connectVars,
     Browser!connectVars, Participant!uiVars, Browser!uiVars
<1>15. Participant!Live = Browser!Live
  BY DEF Participant!Live, Browser!Live
<1>16. Participant!Browser <=> Browser!Browser
  BY <1>5, <1>6, <1>7, <1>8, <1>11, <1>19 DEF Participant!Browser, Browser!Browser
<1>17. Participant!Next <=> Browser!Next
  BY <1>15,
     <1>3, <1>4, <1>5, <1>6, <1>7, <1>8, <1>9, <1>10, <1>11, <1>12, <1>14, <1>16 DEF
     Participant!Next, Browser!Next
<1>18. Participant!ShownExact <=> Browser!ShownExact
  BY <1>15 DEF Participant!ShownExact, Browser!ShownExact, Participant!Settled,
     Browser!Settled, Participant!Shown, Browser!Shown
<1> QED
  BY <1>1, <1>2, <1>17, <1>18

\* A call is a behaviour of the room: what is proved of Room holds in it.
THEOREM CallImplementsRoom == CallSpec => Spec
<1>1. CallInit => Init
  BY DEF CallInit
<1>2. CallInv /\ [CallNext]_callVars => [Next]_vars
  BY RoomSteps DEF CallInv
<1> QED
  BY <1>1, <1>2, CallInvariance, PTL DEF CallSpec, Spec

\* When the participant's browser has processed everything it was sent, it shows
\* exactly the consumers that the room holds for the participant, except for
\* those that were ready before its components listened or were rejected, and
\* beside those that were retracted while they were being set up.
ParticipantSees ==
  status[me] = "open" /\ Browser!Settled =>
    Browser!Shown = (({k \in consumers : k.conn = me} \union ghosts) \ missed) \ failed

\* End to end: Room's consumers and what RemoteClients shows of them agree, for
\* any participants, messages and interleavings of both event loops (Room.ts and
\* MediasoupService.tsx with RemoteClients.tsx).
THEOREM CallParticipantSees == CallSpec => []ParticipantSees
<1>1. CallSpec => []Browser!ShownExact
  <2>1. Participant!MediaClientAssumption
    <3>1. ASSUME NEW k \in MyConsumers
          PROVE  IdOf[From[k.prod]] \in ClientId \ {IdOf[me]} /\ Media[k.prod] \in {"audio", "video"}
      <4>1. k.prod \in Producers
        BY DEF MyConsumers
      <4> QED
        BY <4>1, MyConsumerFacts, CallAssumption, ConstantsAssumption
    <3> QED
      BY <3>1, CallAssumption DEF Participant!MediaClientAssumption, Participant!Kind
  <2>2. Participant!Spec => []Participant!ShownExact
    BY <2>1, Participant!MediaShownExact, PTL DEF Participant!MediaClientAssumption
  <2> QED
    BY <2>2, SameBrowser, CallImplementsMediaClient, PTL
    DEF ImplementsMediaClient, Browser!Spec, Participant!Spec
<1>2. CallInv /\ ClientViewExact /\ Browser!ShownExact => ParticipantSees
  <2> SUFFICES ASSUME CallInv, ClientViewExact, status[me] = "open"
               PROVE  Browser!Live = {k \in consumers : k.conn = me}
    BY DEF Browser!ShownExact, ParticipantSees
  <2>1. Browser!Live = {k \in MyConsumers : k \in view}
    BY DEF Browser!Live
  <2>2. \A k \in view : k.conn = me => k \in MyConsumers
    BY DEF CallInv, ToldInv, Past
  <2>3. \A k \in view \union consumers : k.conn = me => (k \in view <=> k \in consumers)
    BY DEF ClientViewExact
  <2> QED
    BY <2>1, <2>2, <2>3, MyConsumerFacts
<1> QED
  BY <1>1, <1>2, CallInvariance, CallImplementsRoom, RoomClientViewExact, PTL
=============================================================================
