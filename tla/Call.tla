-------------------------------- MODULE Call --------------------------------
(***************************************************************************)
(* A call end to end: the SFU's room (module Room) and the browser of one  *)
(* participant (module MediaClient), joined by the two directions of the   *)
(* participant's websocket.  The other participants are connections of the *)
(* room that send what they like.  The participant itself stays.           *)
(*                                                                         *)
(* The browser's steps are those of MediaClient.  Its view of the SFU      *)
(* (added, announcing, srv and outbox) is a function of the room's state   *)
(* here, so MediaClient!Spec says that the room is the SFU that            *)
(* MediaClient assumes.                                                    *)
(***************************************************************************)
EXTENDS Room, Sequences, SequencesExt

CONSTANTS
  me,       \* the connection of the participant
  Media     \* Media[p]: "audio" or "video", for a create-producer-request p

VARIABLES
  wire, inbox, \* messages on their way to the SFU, and from it
  told,        \* consumers the participant was told of (history)
  unanswered, phase, answers, rcvStored, consuming, known, listening,
  streams, store, trackId, missed, ghosts, failed  \* of MediaClient

browserVars == <<phase, answers, rcvStored, consuming, known, listening, streams,
                 store, trackId, missed, ghosts, failed>>
callVars == <<vars, wire, inbox, told, unanswered, browserVars>>

Producers == {r \in Request : Type[r] = "create-producer-request" /\ From[r] # me}
Mine == {r \in Request : From[r] = me}

\* The messages connect() sends
Script == {"get-router-capabilities-request", "client-rtp-capabilities",
           "create-transport-producing", "create-transport-consuming",
           "join-call-request"}

\* The participant's message of a type
Msg(type) == CHOOSE r \in Mine : Type[r] = type

\* Consumers the room may make for the participant
MyConsumers ==
  [task : Producers \union {Msg("join-call-request")}, prod : Producers,
   conn : {me}, via : {Msg("create-transport-consuming")}]

\* A browser makes up its clientId when it loads (uuid), so nobody shares it.
ASSUME CallAssumption ==
  /\ me \in Conn
  /\ \A c \in Conn \ {me} : IdOf[c] # IdOf[me]
  /\ Media \in [Producers -> {"audio", "video"}]
  /\ \A type \in Script : \E r \in Mine : Type[r] = type
  /\ NoReq \notin MyConsumers

\* Requests of the participant that the room has not answered, in their order
Waits(type) == IF pc[Msg(type)] \in {"idle", "done"} THEN <<>> ELSE <<type>>

InService ==
  Waits("create-transport-producing") \o Waits("create-transport-consuming")
    \o Waits("join-call-request")

Browser == INSTANCE MediaClient WITH
  Consumer   <- MyConsumers,
  Remote     <- ClientId \ {IdOf[me]},
  OwnerOf    <- [k \in MyConsumers |-> IdOf[From[k.prod]]],
  KindOf     <- [k \in MyConsumers |-> Media[k.prod]],
  NoTrack    <- NoReq,
  rcv        <- rcvStored,
  added      <- status[me] = "open",
  announcing <- rcv[me] # NoReq,
  srv        <- [k \in MyConsumers |-> IF k \in view THEN "live"
                                       ELSE IF k \in told THEN "gone" ELSE "none"],
  outbox     <- InService \o wire

CallInit ==
  /\ Init
  /\ wire = <<"get-router-capabilities-request">>
  /\ told = {}
  /\ Browser!Init

-----------------------------------------------------------------------------

\* What a step of the room sends to the participant
Downstream ==
  LET sent  == {<<"answer", Type[r]>> : r \in Mine \intersect (answered' \ answered)}
      made  == {"created"} \X {k \in view' \ view : k.conn = me}
      ended == {"closed"} \X {k \in view \ view' : k.conn = me}
  IN /\ inbox' = inbox \o SetToSeq(sent) \o SetToSeq(made) \o SetToSeq(ended)
     /\ told' = told \union (view' \ view)

Sfu(step) ==
  /\ step
  /\ Downstream
  /\ UNCHANGED <<wire, unanswered, browserVars>>

\* The worker answers in order.
InOrder(r) == r \in Mine /\ pc[r] = "creating" => Type[r] = Head(InService)

Worker(r) == Sfu((InOrder(r) /\ Continue(r)) \/ UnhandledRejection(r))

Others ==
  \/ \E c \in Conn \ {me} : Add(c) \/ ClientClosed(c)
  \/ \E r \in Request \ Mine : Receive(r)
  \/ RouterClosed

\* The participant's next message reaches the SFU, which listens from room.add on.
Arrival ==
  /\ up
  /\ wire # <<>>
  /\ wire' = Tail(wire)
  /\ IF status[me] = "open"
     THEN Receive(Msg(Head(wire))) /\ UNCHANGED unanswered
     ELSE UNCHANGED vars /\ unanswered' = TRUE
  /\ Downstream
  /\ UNCHANGED browserVars

Batch ==
  {<<>>, <<"join-call-request">>,
   <<"client-rtp-capabilities", "create-transport-producing",
     "create-transport-consuming">>}

\* A step of the browser, and what it sends
Local(step) ==
  /\ UNCHANGED <<vars, told, unanswered>>
  /\ \E batch \in Batch : wire' = wire \o batch
  /\ step

CallNext ==
  \/ Sfu(Add(me))
  \/ Sfu(Others)
  \/ \E r \in Request : Worker(r)
  \/ Sfu(\E k \in consumers : ConsumerClosed(k))
  \/ Arrival
  \/ Local(Browser!Browser)
  \/ Local(Browser!Consumed \/ Browser!ConsumeRejected)

\* The fairness of Room and of MediaClient: the directory adds the client, the
\* network delivers, the worker answers, and both event loops run.
CallSpec ==
  /\ CallInit
  /\ [][CallNext]_callVars
  /\ WF_callVars(Sfu(Add(me)))
  /\ \A r \in Request : WF_callVars(Worker(r))
  /\ WF_callVars(Sfu(\E k \in consumers : ConsumerClosed(k)))
  /\ WF_callVars(Arrival)
  /\ WF_callVars(Local(Browser!Browser))
  /\ WF_callVars(Local(Browser!Consumed \/ Browser!ConsumeRejected))

-----------------------------------------------------------------------------
(* Properties.                                                             *)

\* The room is the SFU of MediaClient: it answers each request once and in
\* order, announces a consumer once and only after the answer for the
\* receiving transport, and retracts only what it announced.
ImplementsMediaClient == Browser!Spec

\* connect() in the browser returns and the components listen, unless the first
\* request came before room.add, the room closed before the participant was in
\* it, device.load was rejected, or the process ended.
Connects ==
  <>(listening \/ unanswered \/ room = "closed" \/ phase = "failed" \/ ~up)

\* A producer of another participant comes to be shown, whether it was there
\* before the join, appeared during it or comes later; unless it closes, or its
\* consumer was ready before the components listened or was rejected.
TracksShown ==
  \A p \in Producers :
    (listening /\ p \in prodMap) ~>
      \/ \E k \in Browser!Shown \union missed \union failed : k.prod = p
      \/ p \notin live
      \/ ~up

\* What is shown of a producer that is gone disappears, unless its consumer was
\* retracted while the browser was setting it up.
TracksVanish ==
  \A k \in MyConsumers :
    (k \in Browser!Shown /\ k.prod \notin live) ~>
      (k \notin Browser!Shown \/ k \in ghosts \/ ~up)
=============================================================================
