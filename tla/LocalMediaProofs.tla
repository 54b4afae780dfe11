-------------------------- MODULE LocalMediaProofs --------------------------
(***************************************************************************)
(* Theorems about LocalMedia: what the buttons of a participant say about  *)
(* what the participant sends.                                             *)
(***************************************************************************)
EXTENDS LocalMedia, TLAPS

\* The values that decide which steps are possible.
MediaType ==
  /\ phase \in {"none", "asking", "producing", "ready", "failed"}
  /\ prod \in [Track -> {"none", "queued", "asked", "answered", "ignored",
                         "produced", "rejected"}]
  /\ sfu \subseteq Track
  /\ shut \in BOOLEAN
  /\ dead \in BOOLEAN

\* produceMedia is called only when the devices are granted.  getMedia is through
\* when both calls returned, and fails without devices or with a call that threw.
PhaseInv ==
  /\ phase \in {"none", "asking"} => \A t \in Track : prod[t] = "none"
  /\ phase = "ready" => track = Track
  /\ phase = "failed" => \/ \A t \in Track : prod[t] = "none"
                         \/ \E t \in Track : prod[t] = "rejected"

\* The states audioTrack and videoTrack are set together, when both calls of
\* produceMedia have returned; a button works only then.
ReadyInv ==
  /\ track # {} => track = Track /\ \A t \in Track : prod[t] = "produced"
  /\ label \subseteq track
  /\ paused = label

\* As long as the SFU holds the connection and its worker lives, its producers
\* are those it has answered for.
SfuInv ==
  \A t \in Track :
    t \in sfu <=> ~shut /\ ~dead /\ prod[t] \in {"answered", "produced"}

IInv == MediaType /\ PhaseInv /\ ReadyInv /\ SfuInv

USE DEF Track

\* The states of the component before its effect runs.
LEMMA InitIInv == Init => IInv
  BY DEF Init, IInv, MediaType, PhaseInv, ReadyInv, SfuInv

\* Both produceMedia calls are waiting when getUserMedia is granted.
LEMMA GrantedStep ==
  ASSUME IInv, DevicesGranted
  PROVE  IInv'
  BY DEF DevicesGranted, TracksLater, IInv, MediaType, PhaseInv, ReadyInv, SfuInv

\* The SFU answers for a producer exactly when it has created it.
LEMMA CreateProducerStep ==
  ASSUME IInv, NEW t \in Track, CreateProducer(t)
  PROVE  IInv'
  BY DEF CreateProducer, IInv, MediaType, PhaseInv, ReadyInv, SfuInv

\* Promise.all hands out the tracks when the second call returns.
LEMMA ProducedStep ==
  ASSUME IInv, NEW t \in Track, Produced(t)
  PROVE  IInv'
  <1>1. MediaType' /\ PhaseInv' /\ SfuInv'
    BY DEF Produced, Settle, AllProduced, IInv, MediaType, PhaseInv, SfuInv
  <1>2. ReadyInv'
    BY DEF Produced, Settle, AllProduced, IInv, MediaType, PhaseInv, ReadyInv
  <1> QED BY <1>1, <1>2 DEF IInv

\* A call that throws leaves both states null.
LEMMA RejectedStep ==
  ASSUME IInv, NEW t \in Track, Rejected(t)
  PROVE  IInv'
  <1>1. MediaType' /\ PhaseInv' /\ SfuInv'
    BY DEF Rejected, Settle, AllProduced, IInv, MediaType, PhaseInv, SfuInv
  <1>2. ReadyInv'
    BY DEF Rejected, Settle, AllProduced, IInv, MediaType, PhaseInv, ReadyInv
  <1> QED BY <1>1, <1>2 DEF IInv

\* A button finds the producer of its track, so label and producer agree.
LEMMA ButtonStep ==
  ASSUME IInv, NEW t \in Track, Pause(t) \/ Play(t)
  PROVE  IInv'
  <1>1. track = Track /\ prod[t] = "produced"
    BY DEF Pause, Play, HasTrack, IInv, ReadyInv
  <1>2. UNCHANGED <<phase, prod, sfu, shut, dead, track>>
    BY DEF Pause, Play
  <1>3. paused' = label' /\ label' \subseteq Track
    <2>1. CASE Pause(t)
      BY <1>1, <2>1 DEF Pause, Found, IInv, ReadyInv
    <2>2. CASE Play(t)
      BY <1>1, <2>2 DEF Play, Found, IInv, ReadyInv
    <2> QED BY <2>1, <2>2
  <1> QED
    BY <1>1, <1>2, <1>3 DEF IInv, MediaType, PhaseInv, ReadyInv, SfuInv

\* The inductive invariant holds in every state of the component.
THEOREM Invariance == Spec => []IInv
  <1>1. IInv /\ [Next]_vars => IInv'
    <2> SUFFICES ASSUME IInv, [Next]_vars
                 PROVE  IInv'
      OBVIOUS
    <2>1. CASE GetMedia
      BY <2>1 DEF GetMedia, IInv, MediaType, PhaseInv, ReadyInv, SfuInv
    <2>2. CASE DevicesRefused
      BY <2>2 DEF DevicesRefused, IInv, MediaType, PhaseInv, ReadyInv, SfuInv
    <2>3. ASSUME NEW t \in Track, Request(t)
          PROVE  IInv'
      BY <2>3 DEF Request, IInv, MediaType, PhaseInv, ReadyInv, SfuInv
    <2>4. ASSUME NEW t \in Track, TrackEnds(t)
          PROVE  IInv'
      BY <2>4 DEF TrackEnds, IInv, MediaType, PhaseInv, ReadyInv, SfuInv
    <2>5. CASE Disconnected
      BY <2>5 DEF Disconnected, IInv, MediaType, PhaseInv, ReadyInv, SfuInv
    <2>6. CASE WorkerDied
      BY <2>6 DEF WorkerDied, IInv, MediaType, PhaseInv, ReadyInv, SfuInv
    <2>7. CASE UNCHANGED vars
      BY <2>7 DEF vars, IInv, MediaType, PhaseInv, ReadyInv, SfuInv
    <2> QED
      BY <2>1, <2>2, <2>3, <2>4, <2>5, <2>6, <2>7, GrantedStep, CreateProducerStep,
         ProducedStep, RejectedStep, ButtonStep DEF Next
  <1> QED BY <1>1, InitIInv, PTL DEF Spec

\* A button that says muted or paused is right, whatever was clicked while the
\* producers were being made.
THEOREM MediaMutedIsSilent == Spec => []MutedIsSilent
  <1>1. IInv => MutedIsSilent
    BY DEF IInv, ReadyInv, MutedIsSilent
  <1> QED BY <1>1, Invariance, PTL

\* While the SFU holds the transports it forwards what can be muted; what it
\* forwards besides belongs to a getMedia that has not ended or that failed with
\* the other track.
THEOREM MediaMutableIsSent == Spec => []MutableIsSent
  <1>1. ASSUME IInv, ~shut, ~dead
        PROVE  track \subseteq sfu
    BY <1>1 DEF IInv, ReadyInv, SfuInv
  <1>2. ASSUME IInv, NEW t \in sfu \ track
        PROVE  \/ phase = "producing"
               \/ phase = "failed" /\ \E u \in Track \ {t} : prod[u] = "rejected"
    <2>1. t \in Track /\ prod[t] \in {"answered", "produced"}
      BY <1>2 DEF IInv, MediaType, SfuInv
    <2>2. phase \in {"producing", "failed"}
      BY <1>2, <2>1 DEF IInv, MediaType, PhaseInv
    <2>3. phase = "failed" => \E u \in Track \ {t} : prod[u] = "rejected"
      BY <1>2, <2>1 DEF IInv, PhaseInv
    <2> QED BY <2>2, <2>3
  <1>3. IInv => MutableIsSent
    BY <1>1, <1>2 DEF MutableIsSent
  <1> QED BY <1>3, Invariance, PTL
=============================================================================
