------------------------ MODULE ObserverClientProofs ------------------------
(***************************************************************************)
(* The two clients of the observer implement SampleChannel, for every      *)
(* number of sockets, attempts, connects and samples; and the webapp's     *)
(* client keeps at most one websocket.                                     *)
(*                                                                         *)
(* The SFU's client has the fields of the webapp's and `up' besides.       *)
(***************************************************************************)
EXTENDS ObserverClient, FiniteSetTheorems, SequenceTheorems, TLAPS

VARIABLE up

Sfu == INSTANCE SfuObserverClient

-----------------------------------------------------------------------------
(* The samples of the webapp's client.                                     *)

\* The buffer holds the latest samples, without a gap, in the order of send.
BufferInv ==
  /\ offered \in Nat
  /\ buffer \in Seq(Nat)
  /\ Len(buffer) <= offered
  /\ \A i \in 1 .. Len(buffer) : buffer[i] = offered - Len(buffer) + i
  /\ wire \in Seq(Nat)

\* One more sample continues the buffer without a gap.
LEMMA AppendNext ==
  ASSUME NEW b \in Seq(Nat), NEW k \in Nat, Len(b) <= k,
         \A i \in 1 .. Len(b) : b[i] = k - Len(b) + i
  PROVE  /\ Append(b, k + 1) \in Seq(Nat)
         /\ Len(Append(b, k + 1)) = Len(b) + 1
         /\ \A i \in 1 .. Len(Append(b, k + 1)) :
              Append(b, k + 1)[i] = k - Len(b) + i
  <1>1. Len(b) \in Nat
    OBVIOUS
  <1>2. /\ Append(b, k + 1) \in Seq(Nat)
        /\ Len(Append(b, k + 1)) = Len(b) + 1
        /\ \A i \in 1 .. Len(b) : Append(b, k + 1)[i] = b[i]
        /\ Append(b, k + 1)[Len(b) + 1] = k + 1
    BY AppendProperties
  <1>3. ASSUME NEW i \in 1 .. Len(b) + 1
        PROVE  Append(b, k + 1)[i] = k - Len(b) + i
    <2>1. CASE i = Len(b) + 1
      BY <1>1, <1>2, <2>1
    <2>2. CASE i # Len(b) + 1
      BY <1>1, <1>2, <2>2
    <2> QED BY <2>1, <2>2
  <1> QED BY <1>2, <1>3

\* What send puts on an open websocket is one block of the channel.
LEMMA OutgoingIsBlock ==
  ASSUME BufferInv
  PROVE  Outgoing(offered + 1) =
           Channel!Block(offered - Len(buffer), offered + 1)
  <1> DEFINE b == Channel!Block(offered - Len(buffer), offered + 1)
             o == Append(buffer, offered + 1)
  <1>1. /\ o \in Seq(Nat)
        /\ Len(o) = Len(buffer) + 1
        /\ \A i \in 1 .. Len(o) : o[i] = offered - Len(buffer) + i
    BY AppendNext DEF BufferInv
  <1>2. (offered + 1) - (offered - Len(buffer)) = Len(buffer) + 1
    BY DEF BufferInv
  <1>3. b = [i \in 1 .. Len(buffer) + 1 |-> offered - Len(buffer) + i]
    BY <1>2 DEF Channel!Block
  <1>4. o = [i \in 1 .. Len(o) |-> o[i]]
    BY <1>1
  <1> QED BY <1>1, <1>3, <1>4 DEF Outgoing

\* A step of the client is a step of the channel or leaves it alone.
LEMMA StepRefines ==
  ASSUME BufferInv, [Next]_vars
  PROVE  BufferInv' /\ [Channel!Send]_(Channel!vars)
  <1>1. CASE Send
    <2> DEFINE s == offered + 1
    <2>1. offered' = s /\ s \in Nat
      BY <1>1 DEF Send, BufferInv
    <2>2. CASE ws = 0
      <3>1. buffer' = Append(buffer, s) /\ wire' = wire
        BY <1>1, <2>2 DEF Send
      <3>2. /\ Append(buffer, s) \in Seq(Nat)
            /\ Len(Append(buffer, s)) = Len(buffer) + 1
            /\ \A i \in 1 .. Len(Append(buffer, s)) :
                 Append(buffer, s)[i] = offered - Len(buffer) + i
        BY AppendNext DEF BufferInv
      <3>3. offered' - Len(buffer') = offered - Len(buffer)
        BY <2>1, <3>1, <3>2 DEF BufferInv
      <3>4. BufferInv'
        BY <2>1, <3>1, <3>2, <3>3 DEF BufferInv
      <3> QED BY <2>1, <3>1, <3>3, <3>4 DEF Channel!Send
    <2>3. CASE ws # 0
      <3>1. buffer' = <<>> /\ (wire' = wire \o Outgoing(s) \/ wire' = wire)
        BY <1>1, <2>3 DEF Send
      <3>2. Outgoing(s) \in Seq(Nat)
        BY <2>1 DEF Outgoing, BufferInv
      <3>3. BufferInv'
        <4>1. wire' \in Seq(Nat)
          BY <3>1, <3>2, ConcatProperties DEF BufferInv
        <4>2. buffer' \in Seq(Nat) /\ Len(buffer') = 0
          BY <3>1, EmptySeq
        <4> QED BY <2>1, <4>1, <4>2 DEF BufferInv
      <3>4. offered' - Len(buffer') = offered'
        BY <2>1, <3>1
      <3> QED BY <2>1, <3>1, <3>3, <3>4, OutgoingIsBlock DEF Channel!Send
    <2> QED BY <2>2, <2>3
  <1>2. CASE ~Send
    <2>1. UNCHANGED sampleVars
      BY <1>2 DEF Next, vars, Connect, Opened, Failed, Dies, CloseEvent, Retry,
                  Disconnect, Close
    <2> QED BY <2>1 DEF sampleVars, BufferInv, Channel!vars
  <1> QED BY <1>1, <1>2

\* Over all attempts, reconnections, disconnects and closes the client is a
\* channel that keeps the order of the samples and repeats none.
THEOREM ClientImplementsChannel == Spec => ImplementsChannel
  <1>1. Init => BufferInv /\ Channel!Init
    <2> SUFFICES ASSUME Init
                 PROVE  BufferInv /\ Channel!Init
      OBVIOUS
    <2>0. offered = 0
      BY DEF Init
    <2>1. buffer = <<>> /\ wire = <<>>
      BY DEF Init
    <2>2. Len(buffer) = 0 /\ buffer \in Seq(Nat) /\ wire \in Seq(Nat)
      BY <2>1, EmptySeq
    <2>3. \A i \in 1 .. Len(buffer) : buffer[i] = offered - Len(buffer) + i
      BY <2>2
    <2>4. offered \in Nat /\ Len(buffer) <= offered /\ offered - Len(buffer) = 0
      BY <2>0, <2>2
    <2>5. BufferInv
      BY <2>2, <2>3, <2>4 DEF BufferInv
    <2>6. Channel!Init
      BY <2>0, <2>1, <2>4 DEF Channel!Init
    <2> QED BY <2>5, <2>6
  <1>2. BufferInv /\ [Next]_vars => BufferInv' /\ [Channel!Send]_(Channel!vars)
    BY StepRefines
  <1> QED BY <1>1, <1>2, PTL DEF Spec, ImplementsChannel, Channel!Spec

-----------------------------------------------------------------------------
(* The samples of the SFU's client.                                        *)

\* What send puts on an open websocket is one block of the channel.
LEMMA SfuAppendIsBlock ==
  ASSUME BufferInv
  PROVE  Append(buffer, offered + 1) =
           Sfu!Channel!Block(offered - Len(buffer), offered + 1)
  <1> DEFINE b == Sfu!Channel!Block(offered - Len(buffer), offered + 1)
             o == Append(buffer, offered + 1)
  <1>1. /\ o \in Seq(Nat)
        /\ Len(o) = Len(buffer) + 1
        /\ \A i \in 1 .. Len(o) : o[i] = offered - Len(buffer) + i
    BY AppendNext DEF BufferInv
  <1>2. (offered + 1) - (offered - Len(buffer)) = Len(buffer) + 1
    BY DEF BufferInv
  <1>3. b = [i \in 1 .. Len(buffer) + 1 |-> offered - Len(buffer) + i]
    BY <1>2 DEF Sfu!Channel!Block
  <1>4. o = [i \in 1 .. Len(o) |-> o[i]]
    BY <1>1
  <1> QED BY <1>1, <1>3, <1>4

\* A step of the client is a step of the channel or leaves it alone.
LEMMA SfuStepRefines ==
  ASSUME BufferInv, [Sfu!Next]_(Sfu!vars)
  PROVE  BufferInv' /\ [Sfu!Channel!Send]_(Sfu!Channel!vars)
  <1>1. CASE Sfu!Send
    <2> DEFINE s == offered + 1
    <2>1. offered' = s /\ s \in Nat
      BY <1>1 DEF Sfu!Send, BufferInv
    <2>2. CASE ~ws
      <3>1. buffer' = Append(buffer, s) /\ wire' = wire
        BY <1>1, <2>2 DEF Sfu!Send
      <3>2. /\ Append(buffer, s) \in Seq(Nat)
            /\ Len(Append(buffer, s)) = Len(buffer) + 1
            /\ \A i \in 1 .. Len(Append(buffer, s)) :
                 Append(buffer, s)[i] = offered - Len(buffer) + i
        BY AppendNext DEF BufferInv
      <3>3. offered' - Len(buffer') = offered - Len(buffer)
        BY <2>1, <3>1, <3>2 DEF BufferInv
      <3>4. BufferInv'
        BY <2>1, <3>1, <3>2, <3>3 DEF BufferInv
      <3> QED BY <2>1, <3>1, <3>3, <3>4 DEF Sfu!Channel!Send
    <2>3. CASE ws
      <3>1. buffer' = <<>> /\ (wire' = wire \o Append(buffer, s) \/ wire' = wire)
        BY <1>1, <2>3 DEF Sfu!Send, Sfu!EmptyBuffer
      <3>2. Append(buffer, s) \in Seq(Nat)
        BY <2>1, AppendProperties DEF BufferInv
      <3>3. BufferInv'
        <4>1. wire' \in Seq(Nat)
          BY <3>1, <3>2, ConcatProperties DEF BufferInv
        <4>2. buffer' \in Seq(Nat) /\ Len(buffer') = 0
          BY <3>1, EmptySeq
        <4> QED BY <2>1, <4>1, <4>2 DEF BufferInv
      <3>4. offered' - Len(buffer') = offered'
        BY <2>1, <3>1
      <3> QED BY <2>1, <3>1, <3>3, <3>4, SfuAppendIsBlock DEF Sfu!Channel!Send
    <2> QED BY <2>2, <2>3
  <1>2. CASE ~Sfu!Send
    <2>1. UNCHANGED <<buffer, offered, wire>>
      BY <1>2 DEF Sfu!Next, Sfu!vars, Sfu!linkVars, Sfu!sampleVars, Sfu!Connect, Sfu!Opened,
                  Sfu!Error, Sfu!CloseEvent, Sfu!Disconnect, Sfu!Close
    <2> QED BY <2>1 DEF BufferInv, Sfu!Channel!vars
  <1> QED BY <1>1, <1>2

\* Whatever happens to its one websocket, the client is a channel that keeps the
\* order of the samples and repeats none.
THEOREM SfuClientImplementsChannel == Sfu!Spec => Sfu!ImplementsChannel
  <1>1. Sfu!Init => BufferInv /\ Sfu!Channel!Init
    <2> SUFFICES ASSUME Sfu!Init
                 PROVE  BufferInv /\ Sfu!Channel!Init
      OBVIOUS
    <2>0. offered = 0
      BY DEF Sfu!Init
    <2>1. buffer = <<>> /\ wire = <<>>
      BY DEF Sfu!Init
    <2>2. Len(buffer) = 0 /\ buffer \in Seq(Nat) /\ wire \in Seq(Nat)
      BY <2>1, EmptySeq
    <2>3. \A i \in 1 .. Len(buffer) : buffer[i] = offered - Len(buffer) + i
      BY <2>2
    <2>4. offered \in Nat /\ Len(buffer) <= offered /\ offered - Len(buffer) = 0
      BY <2>0, <2>2
    <2>5. BufferInv
      BY <2>2, <2>3, <2>4 DEF BufferInv
    <2>6. Sfu!Channel!Init
      BY <2>0, <2>1, <2>4 DEF Sfu!Channel!Init
    <2> QED BY <2>5, <2>6
  <1>2. BufferInv /\ [Sfu!Next]_(Sfu!vars) => BufferInv' /\ [Sfu!Channel!Send]_(Sfu!Channel!vars)
    BY SfuStepRefines
  <1> QED BY <1>1, <1>2, PTL DEF Sfu!Spec, Sfu!ImplementsChannel, Sfu!Channel!Spec

-----------------------------------------------------------------------------
(* The webapp's websockets.                                                *)

SocketType ==
  /\ sock \in [Socket -> {"free", "trying", "open", "closing", "dead"}]
  /\ connecting \in {"none", "trying", "pausing"}
  /\ ws \in Socket \union {0}
  /\ crossed \in BOOLEAN

\* One slot at most is taken; an attempt is under way only while _connecting says
\* so, and a websocket that came out of one is in _ws until its close event.
SocketInv ==
  ~crossed =>
    /\ \A n, k \in Socket : sock[n] # "free" /\ sock[k] # "free" => n = k
    /\ \A n \in Socket : sock[n] = "trying" => connecting = "trying"
    /\ \A n \in Socket :
         sock[n] \in {"open", "closing", "dead"} => ws = n /\ connecting = "none"

\* connect, by the application or the close listener, starts an attempt only when
\* no other socket is taken.
LEMMA StartConnectSocket ==
  ASSUME SocketType, connecting = "none", UNCHANGED crossed, ws' \in Socket \union {0},
         NEW s \in [Socket -> {"free"}],
         StartConnect(s)
  PROVE  SocketType' /\ SocketInv'
  <1>1. PICK n \in Socket : sock' = [s EXCEPT ![n] = "trying"]
    BY DEF StartConnect, Connecting, NewSocket
  <1>2. connecting' = "trying"
    BY DEF StartConnect, Connecting
  <1>3. \A k \in Socket : sock'[k] = IF k = n THEN "trying" ELSE "free"
    BY <1>1
  <1>4. SocketType'
    BY <1>1, <1>2 DEF SocketType
  <1>5. SocketInv'
    BY <1>2, <1>3 DEF SocketInv
  <1> QED BY <1>4, <1>5

\* The steps of an attempt
LEMMA AttemptSocket ==
  ASSUME SocketType, SocketInv, NEW n \in Socket, Opened(n) \/ Failed(n)
  PROVE  SocketType' /\ SocketInv'
  <1>1. CASE Opened(n)
    <2>1. sock' = [sock EXCEPT ![n] = IF SomeoneWaits THEN "closing" ELSE "open"]
      BY <1>1 DEF Opened, CloseSocket, SocketType
    <2> QED BY <1>1, <2>1 DEF Opened, SocketType, SocketInv, callVars
  <1>2. CASE Failed(n)
    BY <1>2 DEF Failed, Ended, SocketType, SocketInv, callVars
  <1> QED BY <1>1, <1>2

\* After a pause no socket is taken, so the next attempt is the only one.
LEMMA RetrySocket ==
  ASSUME SocketType, SocketInv, Retry
  PROVE  SocketType' /\ SocketInv'
  <1>1. PICK n \in Socket : sock' = [sock EXCEPT ![n] = "trying"]
    BY DEF Retry, NewSocket
  <1> QED BY <1>1 DEF Retry, SocketType, SocketInv, callVars

\* A websocket is closed by disconnect or close, or breaks.
LEMMA EndSocket ==
  ASSUME SocketType, SocketInv, UNCHANGED <<connecting, ws, crossed>>,
         \/ sock' = sock
         \/ \E n \in Socket : /\ sock[n] = "open"
                              /\ \/ sock' = [sock EXCEPT ![n] = "closing"]
                                 \/ sock' = [sock EXCEPT ![n] = "dead"]
  PROVE  SocketType' /\ SocketInv'
  BY DEF SocketType, SocketInv

\* The close event of the only websocket: what follows finds all slots free.
LEMMA CloseEventSocket ==
  ASSUME SocketType, SocketInv, NEW n \in Socket, NEW selfClosed \in BOOLEAN,
         CloseEvent(n, selfClosed)
  PROVE  SocketType' /\ SocketInv'
  <1>1. /\ sock[n] \in {"closing", "dead"} /\ ws' = 0 /\ crossed' = crossed
        /\ \/ sock' = Ended(n) /\ UNCHANGED connecting
           \/ StartConnect(Ended(n))
    BY DEF CloseEvent, callVars
  <1>2. Ended(n) \in [Socket -> {"free", "trying", "open", "closing", "dead"}]
    BY DEF Ended, SocketType
  <1>3. ~crossed => connecting = "none" /\ Ended(n) \in [Socket -> {"free"}]
    BY <1>1 DEF Ended, SocketType, SocketInv
  <1>4. CASE sock' = Ended(n) /\ UNCHANGED connecting
    BY <1>1, <1>2, <1>3, <1>4 DEF SocketType, SocketInv
  <1>5. CASE StartConnect(Ended(n)) /\ ~crossed
    BY <1>1, <1>3, <1>5, StartConnectSocket DEF SocketType
  <1>6. CASE StartConnect(Ended(n)) /\ crossed
    BY <1>1, <1>2, <1>6 DEF StartConnect, NewSocket, SocketType, SocketInv
  <1> QED BY <1>1, <1>4, <1>5, <1>6 DEF SocketType

\* A call of connect that finds a slot taken is remembered in crossed.
LEMMA ConnectSocket ==
  ASSUME SocketType, SocketInv, Connect
  PROVE  SocketType' /\ SocketInv'
  <1>1. /\ crossed' = (crossed \/ (~Connecting /\ \E n \in Socket : sock[n] # "free"))
        /\ ws' = ws /\ StartConnect(sock)
    BY DEF Connect
  <1>2. CASE Connecting
    <2>1. crossed' = crossed
      BY <1>1, <1>2 DEF SocketType
    <2> QED BY <1>1, <1>2, <2>1 DEF StartConnect, SocketType, SocketInv
  <1>3. CASE ~Connecting /\ ~crossed'
    <2>1. crossed' = crossed /\ \A n \in Socket : sock[n] = "free"
      BY <1>1, <1>3 DEF SocketType
    <2> QED BY <1>1, <1>3, <2>1, StartConnectSocket DEF Connecting, SocketType
  <1>4. CASE ~Connecting /\ crossed'
    <2>1. crossed' = TRUE
      BY <1>1, <1>4 DEF SocketType
    <2> QED BY <1>1, <1>4, <2>1 DEF StartConnect, NewSocket, SocketType, SocketInv
  <1> QED BY <1>2, <1>3, <1>4

\* Unless connect was called before the last websocket had gone, there is one
\* websocket, and once it is open it is in _ws.
THEOREM ClientOneSocket == Spec => []OneSocket
  <1>1. Init => SocketType /\ SocketInv
    BY DEF Init, SocketType, SocketInv
  <1>2. ASSUME SocketType, SocketInv, [Next]_vars
        PROVE  SocketType' /\ SocketInv'
    <2>1. CASE Send \/ UNCHANGED vars
      BY <1>2, <2>1, EndSocket DEF Send, vars, linkVars, callVars
    <2>2. ASSUME NEW n \in Socket, Dies(n)
          PROVE  SocketType' /\ SocketInv'
      BY <1>2, <2>2, EndSocket DEF Dies, callVars
    <2>3. CASE Disconnect \/ Close
      BY <1>2, <2>3, EndSocket DEF Disconnect, Close, CloseSocket, callVars
    <2> QED BY <1>2, <2>1, <2>2, <2>3, ConnectSocket, AttemptSocket, RetrySocket,
               CloseEventSocket DEF Next
  <1>3. ASSUME SocketType, SocketInv
        PROVE  OneSocket
    <2> DEFINE taken == {n \in Socket : sock[n] # "free"}
    <2>1. ASSUME ~crossed
          PROVE  Cardinality(taken) <= 1
      <3>1. CASE taken = {}
        BY <3>1, FS_EmptySet
      <3>2. ASSUME NEW n \in taken
            PROVE  Cardinality(taken) <= 1
        <4>1. taken = {n}
          BY <1>3, <2>1, <3>2 DEF SocketInv
        <4> HIDE DEF taken
        <4>2. Cardinality(taken) = 1
          BY <4>1, FS_Singleton
        <4> QED BY <4>2
      <3> QED BY <3>1, <3>2
    <2> QED BY <1>3, <2>1 DEF OneSocket, SocketInv
  <1> QED BY <1>1, <1>2, <1>3, PTL DEF Spec
=============================================================================
