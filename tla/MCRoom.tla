------------------------------ MODULE MCRoom ------------------------------
(***************************************************************************)
(* Instances of Room for TLC.  A message is a triple of its connection,    *)
(* its type and a number.  c1 publishes, c2 subscribes, and c3 comes with  *)
(* the clientId of c1, as a tab that connects again.                       *)
(***************************************************************************)
EXTENDS Room

CONSTANTS c1, c2, c3, i1, i2

MCFrom == [r \in Request |-> r[1]]
MCType == [r \in Request |-> r[2]]
MCIdOf == [c \in Conn |-> IF c = c2 THEN i2 ELSE i1]

Publish ==
  {<<c1, "create-transport-producing", 1>>, <<c1, "create-producer-request", 1>>}

CanReceive(c) ==
  {<<c, "client-rtp-capabilities", 1>>, <<c, "create-transport-consuming", 1>>}

\* one publisher, one subscriber
Pair == Publish \union CanReceive(c2) \union {<<c2, "join-call-request", 1>>}

\* the publisher has audio and video
TwoTracks == Pair \union {<<c1, "create-producer-request", 2>>}

\* the publisher could receive its own media, and c3 takes its key over
Takeover == Pair \union CanReceive(c1)

\* every other message, and a transport asked for twice
Setup ==
  Publish \union
  {<<c1, "get-router-capabilities-request", 1>>,
   <<c1, "create-transport-producing", 2>>,
   <<c1, "transport-connected-notification", 1>>,
   <<c1, "pause-producer-request", 1>>,
   <<c1, "resume-producer-request", 1>>}

Scenarios ==
  {[messages |-> TwoTracks, conns |-> {c1, c2}],
   [messages |-> Takeover,  conns |-> {c1, c2, c3}],
   [messages |-> Setup,     conns |-> {c1, c2}]}

AllMessages == TwoTracks \union Takeover \union Setup

\* State constraint: a behaviour keeps to the messages and the connections of
\* one scenario, in any order.
OneScenario ==
  \E s \in Scenarios :
    /\ \A r \in Request \ s.messages : pc[r] = "idle"
    /\ \A c \in Conn \ s.conns : status[c] = "absent"
=============================================================================
