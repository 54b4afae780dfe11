----------------------------- MODULE LocalMedia -----------------------------
(***************************************************************************)
(* What a participant sends: the component LocalClientMediaBox of the      *)
(* webapp, with produceMedia, pauseMedia and resumeMedia of                *)
(* MediasoupService, up to the producers of the SFU.                       *)
(*                                                                         *)
(* mediasoup-client and the browser are external.  The send transport runs *)
(* one produce at a time, in the order of the calls: it negotiates, which  *)
(* may fail, asks the SFU for a producer and ends with its answer.         *)
(* prod[t] follows the produceMedia of track t:                            *)
(*                                                                         *)
(*   "none"      not called                                                *)
(*   "queued"    waits for the transport                                   *)
(*   "asked"     the request is on its way to the SFU                      *)
(*   "answered"  the response is on its way back                           *)
(*   "ignored"   the SFU could not create a producer: there is no response *)
(*   "produced"  returned                                                  *)
(*   "rejected"  threw                                                     *)
(***************************************************************************)
EXTENDS Sequences

Track == {"audio", "video"}

VARIABLES
  phase,   \* getMedia: "none", "asking" for the devices, "producing", "ready" or "failed"
  prod,
  queue,   \* produce calls of the send transport, the running one first
  sfu,     \* tracks with a producer in the SFU
  shut,    \* whether the SFU has seen the websocket close
  dead,    \* whether the mediasoup worker of the SFU has died
  paused,  \* tracks whose producer is paused
  ended,   \* tracks whose device stopped
  track,   \* the states audioTrack and videoTrack that are not null
  label    \* isMuted and isPaused: the tracks whose button offers to resume

vars == <<phase, prod, queue, sfu, shut, dead, paused, ended, track, label>>

Init ==
  /\ phase = "none"
  /\ prod = [t \in Track |-> "none"]
  /\ queue = <<>>
  /\ sfu = {}
  /\ shut = FALSE
  /\ dead = FALSE
  /\ paused = {}
  /\ ended = {}
  /\ track = {}
  /\ label = {}

-----------------------------------------------------------------------------
(* getMedia.                                                               *)

\* The effect runs when connect() of MediasoupService has returned.
GetMedia ==
  /\ phase = "none"
  /\ phase' = "asking"
  /\ UNCHANGED <<prod, queue, sfu, shut, dead, paused, ended, track, label>>

\* getUserMedia is rejected: no device, or no permission.
DevicesRefused ==
  /\ phase = "asking"
  /\ phase' = "failed"
  /\ UNCHANGED <<prod, queue, sfu, shut, dead, paused, ended, track, label>>

TracksAtOnce == Track  \* mutant: the states are set before produceMedia is awaited
TracksLater == track

\* Both tracks are there; produceMedia is called for each.
DevicesGranted ==
  /\ phase = "asking"
  /\ phase' = "producing"
  /\ prod' = [t \in Track |-> "queued"]
  /\ queue' = <<"audio", "video">>
  /\ track' = TracksLater
  /\ UNCHANGED <<sfu, shut, dead, paused, ended, label>>

AnyProduced(p) == \E t \in Track : p[t] = "produced"  \* mutant: Promise.any
AllProduced(p) == \A t \in Track : p[t] = "produced"

SettleQuietly(p) ==  \* mutant: a rejection is swallowed
  IF phase = "producing" /\ AllProduced(p)
  THEN phase' = "ready" /\ track' = Track
  ELSE UNCHANGED <<phase, track>>

\* Promise.all with the outcomes p: the two states are set when both calls have
\* returned, and never once one has thrown.
Settle(p) ==
  IF phase = "producing" /\ AllProduced(p)
  THEN phase' = "ready" /\ track' = Track
  ELSE /\ phase' = IF \E t \in Track : p[t] = "rejected" THEN "failed" ELSE phase
       /\ UNCHANGED track

-----------------------------------------------------------------------------
(* produceMedia.                                                           *)

Running(t) == queue # <<>> /\ Head(queue) = t

Request(t) ==
  /\ Running(t)
  /\ prod[t] = "queued"
  /\ prod' = [prod EXCEPT ![t] = "asked"]
  /\ UNCHANGED <<phase, queue, sfu, shut, dead, paused, ended, track, label>>

\* The handler of create-producer-request in the SFU (module Room): the worker
\* creates the producer, or refuses, as it always does once it is dead.
CreateProducer(t) ==
  /\ prod[t] = "asked"
  /\ ~shut
  /\ \/ /\ ~dead
        /\ prod' = [prod EXCEPT ![t] = "answered"]
        /\ sfu' = sfu \union {t}
     \/ /\ prod' = [prod EXCEPT ![t] = "ignored"]
        /\ UNCHANGED sfu
  /\ UNCHANGED <<phase, queue, shut, dead, paused, ended, track, label>>

\* The response: the producer is stored and produceMedia returns.
Produced(t) ==
  /\ Running(t)
  /\ prod[t] = "answered"
  /\ prod' = [prod EXCEPT ![t] = "produced"]
  /\ queue' = Tail(queue)
  /\ Settle(prod')
  /\ UNCHANGED <<sfu, shut, dead, paused, ended, label>>

\* mediasoup-client cannot negotiate the track, and produceMedia throws.
Rejected(t) ==
  /\ Running(t)
  /\ prod[t] = "queued"
  /\ prod' = [prod EXCEPT ![t] = "rejected"]
  /\ queue' = Tail(queue)
  /\ Settle(prod')
  /\ UNCHANGED <<sfu, shut, dead, paused, ended, label>>

-----------------------------------------------------------------------------
(* The buttons.                                                            *)

HasTrack(t) == t \in track

\* _findMediaObjectByTrack: the producer of the track, if it is stored
Found(t) == prod[t] = "produced"

\* pauseMic and pauseCam, with pauseMedia
Pause(t) ==
  /\ t \notin label
  /\ HasTrack(t)
  /\ paused' = IF Found(t) THEN paused \union {t} ELSE paused
  /\ label' = label \union {t}
  /\ UNCHANGED <<phase, prod, queue, sfu, shut, dead, ended, track>>

\* playMic and playCam, with resumeMedia
Play(t) ==
  /\ t \in label
  /\ HasTrack(t)
  /\ paused' = IF Found(t) THEN paused \ {t} ELSE paused
  /\ label' = label \ {t}
  /\ UNCHANGED <<phase, prod, queue, sfu, shut, dead, ended, track>>

-----------------------------------------------------------------------------
(* The environment.                                                        *)

\* The SFU sees the websocket close and closes the transports of the client;
\* the browser does not notice.
Disconnected ==
  /\ ~shut
  /\ shut' = TRUE
  /\ sfu' = {}
  /\ UNCHANGED <<phase, prod, queue, dead, paused, ended, track, label>>

\* The worker dies and the router closes under the room, with every producer.
\* The websocket stays open, and nothing tells the browser.
WorkerDied ==
  /\ ~dead
  /\ dead' = TRUE
  /\ sfu' = {}
  /\ UNCHANGED <<phase, prod, queue, shut, paused, ended, track, label>>

\* A device is unplugged; nobody listens for the end of the track.
TrackEnds(t) ==
  /\ prod[t] # "none"
  /\ t \notin ended
  /\ ended' = ended \union {t}
  /\ UNCHANGED <<phase, prod, queue, sfu, shut, dead, paused, track, label>>

Next ==
  \/ GetMedia
  \/ DevicesRefused
  \/ DevicesGranted
  \/ \E t \in Track :
       \/ Request(t) \/ CreateProducer(t) \/ Produced(t) \/ Rejected(t)
       \/ Pause(t) \/ Play(t) \/ TrackEnds(t)
  \/ Disconnected
  \/ WorkerDied

Spec == Init /\ [][Next]_vars

\* mediasoup-client runs its queue, and the SFU handles a request that reaches
\* it, one way or the other.  The participant need not answer the question for
\* the devices, nor click.
Fairness ==
  \A t \in Track :
    /\ WF_vars(Request(t) \/ Rejected(t))
    /\ WF_vars(CreateProducer(t))
    /\ WF_vars(Produced(t))

FairSpec == Spec /\ Fairness

-----------------------------------------------------------------------------
(* Properties.                                                             *)

\* A button that offers to resume a track means that nothing of it is sent: the
\* producer exists and is paused, whatever was clicked while it was being made.
MutedIsSilent ==
  \A t \in Track :
    /\ t \in label => prod[t] = "produced" /\ t \in paused
    /\ t \in paused => t \in label

\* While the SFU holds the participant's transports (the websocket is open and
\* the worker lives), it forwards every track that can be muted; and a track it
\* forwards can be muted as soon as getMedia has ended, unless the call for the
\* other track threw: then it is sent and no button reaches it.
MutableIsSent ==
  ~shut /\ ~dead =>
    /\ track \subseteq sfu
    /\ \A t \in sfu \ track :
         \/ phase = "producing"
         \/ phase = "failed" /\ \E u \in Track \ {t} : prod[u] = "rejected"

\* Once the devices are granted getMedia ends, also when the worker dies on the
\* way, unless the SFU left a request without an answer or lost the client.
GetMediaEnds ==
  phase = "producing" ~>
    (phase \in {"ready", "failed"} \/ shut \/ \E t \in Track : prod[t] = "ignored")
=============================================================================
