------------------------- MODULE MCServerConnection -------------------------
(***************************************************************************)
(* An instance of ServerConnection for TLC: a request, a notification      *)
(* and a request the SFU does not listen for.                              *)
(***************************************************************************)
EXTENDS ServerConnection

CONSTANTS m1, m2, m3

MCTypeOf ==
  [m \in Message |-> CASE m = m1 -> "resume-producer-request"
                       [] m = m2 -> "client-rtp-capabilities"
                       [] m = m3 -> "get-client-stats-request"]

=============================================================================
