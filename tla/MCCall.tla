------------------------------ MODULE MCCall ------------------------------
(***************************************************************************)
(* An instance of Call for TLC: c1 publishes one track, c2 is the          *)
(* participant whose browser is modelled.                                  *)
(***************************************************************************)
EXTENDS Call

CONSTANTS c1, c2, i1, i2

MCFrom == [r \in Request |-> r[1]]
MCType == [r \in Request |-> r[2]]
MCIdOf == [c \in Conn |-> IF c = c1 THEN i1 ELSE i2]
MCMedia == [p \in Producers |-> "audio"]

Messages ==
  {<<c1, "create-transport-producing">>, <<c1, "create-producer-request">>,
   <<c2, "get-router-capabilities-request">>, <<c2, "client-rtp-capabilities">>,
   <<c2, "create-transport-producing">>, <<c2, "create-transport-consuming">>,
   <<c2, "join-call-request">>}
=============================================================================
