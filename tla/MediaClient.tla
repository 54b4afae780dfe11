---------------------------- MODULE MediaClient ----------------------------
(***************************************************************************)
(* A participant's browser: MediasoupService.connect and its listeners     *)
(* (webapp/src/contexts/MediasoupService.tsx), the component RemoteClients *)
(* that shows the tracks, and the slice remoteClients of the store.        *)
(*                                                                         *)
(* The SFU is seen through its websocket (module Call puts the room in its *)
(* place).  It takes the messages in order and answers the requests in     *)
(* order, since its worker does; once it has answered for the receiving    *)
(* transport it may announce consumers, and later retract them.  Until     *)
(* room.add it has no listener, and a message that arrives is lost.  A     *)
(* track is named by its consumer.                                         *)
(***************************************************************************)
EXTENDS Naturals, Sequences, FiniteSets, SequencesExt, MessageProtocol

CONSTANTS
  Consumer,  \* consumers the SFU may create for this participant
  Remote,    \* the other participants
  OwnerOf,   \* OwnerOf[k]: the participant whose producer k consumes
  KindOf,    \* KindOf[k]: "audio" or "video"
  NoTrack

Kind == {"audio", "video"}

ASSUME MediaClientAssumption ==
  /\ OwnerOf \in [Consumer -> Remote]
  /\ KindOf \in [Consumer -> Kind]
  /\ NoTrack \notin Consumer

VARIABLES
  added,      \* SFU: room.add was called for this participant
  announcing, \* SFU: it has capabilities and receiving transport of this participant
  srv,        \* SFU: srv[k] is "none", "live" or "gone"
  outbox,     \* messages on their way to the SFU and requests it has not answered
  inbox,      \* messages on their way from the SFU
  phase,      \* where connect() waits: "capabilities", "loading", "transports",
              \* "joining"; "connected" when it has returned, "failed" when it threw
  answers,    \* answers of the two create-transport requests that have come
  rcv,        \* whether _rcvTransport is set
  consuming,  \* consumers whose _rcvTransport.consume is awaited, oldest first
  known,      \* keys of _consumers; consumers are never closed, so none is deleted
  listening,  \* whether RemoteClients listens to the MediasoupService
  streams,    \* remoteClientInfo: streams[p] is the set of tracks of p's MediaStream
  store,      \* clientIds of remoteClients.clients
  trackId,    \* trackId[p][kind] of that entry
  unanswered, \* a request reached the SFU before room.add (history)
  missed,     \* consumers whose addedMediaConsumer had no listener (history)
  ghosts,     \* consumers retracted while consume was awaited (history)
  failed      \* consumers whose consume was rejected (history)

serverVars == <<added, announcing, srv, unanswered>>
connectVars == <<phase, answers, rcv>>
uiVars == <<listening, streams, store, trackId>>
vars == <<serverVars, connectVars, uiVars, outbox, inbox, consuming, known,
          missed, ghosts, failed>>

NoIds == [h \in Kind |-> NoTrack]

\* connect() was called and sent its first request.
Init ==
  /\ added = FALSE
  /\ announcing = FALSE
  /\ srv = [k \in Consumer |-> "none"]
  /\ unanswered = FALSE
  /\ outbox = <<"get-router-capabilities-request">>
  /\ inbox = <<>>
  /\ phase = "capabilities"
  /\ answers = {}
  /\ rcv = FALSE
  /\ consuming = <<>>
  /\ known = {}
  /\ listening = FALSE
  /\ streams = [p \in Remote |-> {}]
  /\ store = {}
  /\ trackId = [p \in Remote |-> NoIds]
  /\ missed = {}
  /\ ghosts = {}
  /\ failed = {}

-----------------------------------------------------------------------------
(* The SFU.                                                                *)

RoomAdd ==
  /\ ~added
  /\ added' = TRUE
  /\ UNCHANGED <<announcing, srv, unanswered, connectVars, uiVars, outbox, inbox,
                 consuming, known, missed, ghosts, failed>>

\* The next message arrives and a request is answered; before room.add it is lost.
Serve ==
  LET type == Head(outbox)
  IN /\ outbox # <<>>
     /\ outbox' = Tail(outbox)
     /\ inbox' = IF added /\ type \in RequestType
                 THEN Append(inbox, <<"answer", type>>) ELSE inbox
     /\ announcing' = (announcing \/ (added /\ type = "create-transport-consuming"))
     /\ unanswered' = (unanswered \/ ~added)
     /\ UNCHANGED <<added, srv, connectVars, uiVars, consuming, known, missed,
                    ghosts, failed>>

Announce(k) ==
  /\ announcing
  /\ srv[k] = "none"
  /\ srv' = [srv EXCEPT ![k] = "live"]
  /\ inbox' = Append(inbox, <<"created", k>>)
  /\ UNCHANGED <<added, announcing, unanswered, connectVars, uiVars, outbox,
                 consuming, known, missed, ghosts, failed>>

Live == {k \in Consumer : srv[k] = "live"}

\* The consumers K close: one with its producer, all of them with the router.
Retract(K) ==
  /\ K # {}
  /\ srv' = [k \in Consumer |-> IF k \in K THEN "gone" ELSE srv[k]]
  /\ inbox' = inbox \o SetToSeq({"closed"} \X K)
  /\ UNCHANGED <<added, announcing, unanswered, connectVars, uiVars, outbox,
                 consuming, known, missed, ghosts, failed>>

-----------------------------------------------------------------------------
(* connect().                                                              *)

Receive(type) ==
  /\ inbox # <<>>
  /\ Head(inbox)[1] = type
  /\ inbox' = Tail(inbox)

TransportAnswers == {"create-transport-producing", "create-transport-consuming"}

StoredNever(got) == FALSE  \* mutant: _rcvTransport is not set when both answers are there
Stored(got) == got = TransportAnswers

\* The answer connect() waits for: load the device; with both transports, store
\* them and join; with the join, hand the service to the components.
Answered ==
  /\ Receive("answer")
  /\ CASE Head(inbox)[2] = "get-router-capabilities-request" ->
            phase' = "loading" /\ UNCHANGED <<answers, rcv, outbox>>
       [] Head(inbox)[2] \in TransportAnswers ->
            /\ answers' = answers \union {Head(inbox)[2]}
            /\ rcv' = Stored(answers')
            /\ IF answers' = TransportAnswers
               THEN phase' = "joining" /\ outbox' = Append(outbox, "join-call-request")
               ELSE UNCHANGED <<phase, outbox>>
       [] Head(inbox)[2] = "join-call-request" ->
            phase' = "connected" /\ UNCHANGED <<answers, rcv, outbox>>
  /\ UNCHANGED <<serverVars, uiVars, consuming, known, missed, ghosts, failed>>

\* device.load is done: the capabilities go out, then both transport requests.
DeviceLoaded ==
  /\ phase = "loading"
  /\ phase' = "transports"
  /\ outbox' = outbox \o <<"client-rtp-capabilities", "create-transport-producing",
                         "create-transport-consuming">>
  /\ UNCHANGED <<serverVars, uiVars, answers, rcv, inbox, consuming, known,
                 missed, ghosts, failed>>

\* device.load is rejected, and connect() with it: nothing more is sent.
DeviceRejected ==
  /\ phase = "loading"
  /\ phase' = "failed"
  /\ UNCHANGED <<serverVars, uiVars, answers, rcv, outbox, inbox, consuming, known,
                 missed, ghosts, failed>>

\* React renders with the service and runs the effect that adds the listeners.
Rendered ==
  /\ phase = "connected"
  /\ ~listening
  /\ listening' = TRUE
  /\ UNCHANGED <<serverVars, connectVars, streams, store, trackId, outbox, inbox,
                 consuming, known, missed, ghosts, failed>>

-----------------------------------------------------------------------------
(* Consumers and what the participant sees.                                *)

ConsumerCreated ==
  LET k == Head(inbox)[2]
  IN /\ Receive("created")
     /\ IF rcv
        THEN consuming' = Append(consuming, k) /\ UNCHANGED missed
        ELSE missed' = missed \union {k} /\ UNCHANGED consuming
     /\ UNCHANGED <<serverVars, connectVars, uiVars, outbox, known, ghosts, failed>>

\* mutant: the listeners are renewed when a client is added, and not when one
\* is removed
SnapshotOfAdded == {OwnerOf[k] : k \in known \ missed}

\* remoteClients as addedMediaConsumer captured it.  The effect that adds the
\* listeners runs for a new service alone, so this is the list of the first
\* render, and it stays that.
Snapshot == {}

\* RemoteClients.addedMediaConsumer and the reducers it dispatches: a client that
\* the snapshot has is not added, and no track id is set without an entry.
AddTrack(k) ==
  LET p == OwnerOf[k]
  IN /\ store' = store \union ({p} \ Snapshot)
     /\ streams' = [streams EXCEPT ![p] = @ \union {k}]
     /\ trackId' = IF p \in store' THEN [trackId EXCEPT ![p][KindOf[k]] = k] ELSE trackId

\* consume resolves: the consumer is stored and the event emitted.
Consumed ==
  LET k == Head(consuming)
  IN /\ consuming # <<>>
     /\ consuming' = Tail(consuming)
     /\ known' = known \union {k}
     /\ IF listening
        THEN AddTrack(k) /\ UNCHANGED missed
        ELSE missed' = missed \union {k} /\ UNCHANGED <<streams, store, trackId>>
     /\ UNCHANGED <<serverVars, connectVars, listening, outbox, inbox, ghosts, failed>>

\* consume is rejected; nobody catches it, and nothing else happens.
ConsumeRejected ==
  /\ consuming # <<>>
  /\ consuming' = Tail(consuming)
  /\ failed' = failed \union {Head(consuming)}
  /\ UNCHANGED <<serverVars, connectVars, uiVars, outbox, inbox, known, missed, ghosts>>

LeavesOne(tracks) == Cardinality(tracks) <= 1  \* mutant: 1 < getTracks().length
LeavesNone(tracks) == tracks = {}

ForgetId(p, kind) == [trackId EXCEPT ![p][kind] = NoTrack]

\* RemoteClients.removedMediaConsumer and the reducers it dispatches
RemoveTrack(k) ==
  LET p == OwnerOf[k]
      rest == streams[p] \ {k}
  IN IF k \notin streams[p]
     THEN UNCHANGED <<streams, store, trackId>>
     ELSE IF LeavesNone(rest)
     THEN /\ streams' = [streams EXCEPT ![p] = {}]
          /\ store' = store \ {p}
          /\ trackId' = [trackId EXCEPT ![p] = NoIds]
     ELSE /\ streams' = [streams EXCEPT ![p] = rest]
          /\ trackId' = ForgetId(p, KindOf[k])
          /\ UNCHANGED store

\* consumer-closed-notification: only a consumer that is stored is passed on.
ConsumerClosed ==
  LET k == Head(inbox)[2]
  IN /\ Receive("closed")
     /\ IF k \in known /\ listening
        THEN RemoveTrack(k)
        ELSE UNCHANGED <<streams, store, trackId>>
     /\ ghosts' = IF k \in ToSet(consuming) THEN ghosts \union {k} ELSE ghosts
     /\ UNCHANGED <<serverVars, connectVars, listening, outbox, consuming, known,
                    missed, failed>>

Browser ==
  \/ Answered
  \/ DeviceLoaded
  \/ DeviceRejected
  \/ Rendered
  \/ ConsumerCreated
  \/ ConsumerClosed

Next ==
  \/ RoomAdd
  \/ Serve
  \/ \E k \in Consumer : Announce(k)
  \/ \E K \in SUBSET Live : Retract(K)
  \/ Browser
  \/ Consumed
  \/ ConsumeRejected

Spec == Init /\ [][Next]_vars

-----------------------------------------------------------------------------
(* Properties.                                                             *)

Shown == UNION {streams[p] : p \in Remote}
Settled == inbox = <<>> /\ consuming = <<>>

\* A consumer is never announced before _rcvTransport is set: the error branch
\* of the listener is dead code.
NothingAnnouncedTooEarly ==
  inbox # <<>> /\ Head(inbox)[1] = "created" => rcv

\* The store lists exactly the participants with a stream, and the track ids it
\* keeps for one belong to that stream.
StoreMatchesStreams ==
  \A p \in Remote :
    /\ p \in store <=> streams[p] # {}
    /\ \A h \in Kind : trackId[p][h] # NoTrack =>
         trackId[p][h] \in streams[p] /\ KindOf[trackId[p][h]] = h

\* When everything has been processed the participant sees the consumers that
\* the SFU holds for it, except for those that were ready before anyone
\* listened, and beside those that were retracted while they were being set up.
ShownExact ==
  Settled => Shown = ((Live \union ghosts) \ missed) \ failed
=============================================================================
