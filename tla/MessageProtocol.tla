-------------------------- MODULE MessageProtocol --------------------------
(***************************************************************************)
(* The messages of a websocket between webapp and SFU (sfu/src/media/      *)
(* MessageProtocol.ts and webapp/src/utils/MessageProtocol.tsx, the same   *)
(* classes), and which end has a listener for which of them.  A message is *)
(* its type; of the fields only the role of a create-transport-request     *)
(* matters, and is part of the type here.                                  *)
(*                                                                         *)
(* Nobody sends or listens to an observed-sample-notification.             *)
(***************************************************************************)

NotificationType == {"client-rtp-capabilities", "transport-connected-notification"}

RequestType ==
  {"get-router-capabilities-request", "create-transport-producing",
   "create-transport-consuming", "join-call-request", "create-producer-request",
   "pause-producer-request", "resume-producer-request",
   "get-client-stats-request"}

\* The messages MediasoupRoom.add listens for: all but get-client-stats-request
MessageType == (RequestType \ {"get-client-stats-request"}) \union NotificationType

ResponseInKind(t) ==  \* mutant: a resume is answered with its own response class
  CASE t = "get-router-capabilities-request" -> "get-router-capabilities-response"
    [] t \in {"create-transport-producing", "create-transport-consuming"} ->
         "create-transport-response"
    [] t = "join-call-request" -> "join-call-response"
    [] t = "create-producer-request" -> "create-producer-response"
    [] t = "pause-producer-request" -> "pause-producer-response"
    [] t = "resume-producer-request" -> "resume-producer-response"

\* The response the handler of a request sends; both pause and resume are
\* answered with a PauseProducerResponse.
ResponseTo(t) ==
  CASE t = "get-router-capabilities-request" -> "get-router-capabilities-response"
    [] t \in {"create-transport-producing", "create-transport-consuming"} ->
         "create-transport-response"
    [] t = "join-call-request" -> "join-call-response"
    [] t = "create-producer-request" -> "create-producer-response"
    [] t \in {"pause-producer-request", "resume-producer-request"} ->
         "pause-producer-response"

\* The responses ServerConnection hands to resolveRequest; a resume-producer-
\* response would find no listener.
ResolvedType ==
  {"get-client-stats-response", "create-producer-response",
   "get-router-capabilities-response", "pause-producer-response",
   "create-transport-response", "join-call-response"}
=============================================================================
