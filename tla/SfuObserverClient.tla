------------------------- MODULE SfuObserverClient -------------------------
(***************************************************************************)
(* The SFU's connection to the observer (sfu/src/common/                   *)
(* ObserverServiceClient.ts).  It is the webapp's client with every        *)
(* listener for error and close taken off (ws.off) where it should be put  *)
(* on, so a failed attempt and a broken websocket meet no handler: an      *)
(* error event without a listener ends the process, a close event goes     *)
(* unnoticed.  _connecting is never reset.                                 *)
(***************************************************************************)
EXTENDS Naturals, Sequences

CONSTANTS
  Calls,       \* the operations the application calls besides connect and send
  MaxSamples   \* bound: calls of send

ASSUME SfuClientAssumption ==
  /\ Calls \subseteq {"disconnect", "close"}
  /\ MaxSamples \in Nat

VARIABLES
  closed,      \* _closed
  connecting,  \* _connecting: "none", "trying" or "resolved"
  sock,        \* the websocket: "none", "trying", "open", "closing" or "dead"
  ws,          \* whether _ws is defined
  waiting,     \* whether a disconnect or close awaits _connecting
  buffer, offered, wire,  \* samples: kept, given to send, taken by an open websocket
  up           \* FALSE once an error event without a listener has ended the process

linkVars   == <<closed, connecting, sock, ws, waiting, up>>
sampleVars == <<buffer, offered, wire>>
vars == <<linkVars, sampleVars>>

Init ==
  /\ closed = FALSE
  /\ connecting = "none"
  /\ sock = "none"
  /\ ws = FALSE
  /\ waiting = FALSE
  /\ buffer = <<>>
  /\ offered = 0
  /\ wire = <<>>
  /\ up = TRUE

-----------------------------------------------------------------------------

\* connect: a second call returns the promise of the first for ever after.
Connect ==
  /\ up
  /\ ~closed
  /\ connecting = "none"
  /\ connecting' = "trying"
  /\ sock' = "trying"
  /\ UNCHANGED <<closed, ws, waiting, up, sampleVars>>

SocketForgotten == FALSE  \* mutant: nobody waits for _connecting
CloseOnOpen == waiting

\* The websocket opens and becomes _ws; a disconnect or close that waited for
\* it closes it.
Opened ==
  /\ up
  /\ sock = "trying"
  /\ connecting' = "resolved"
  /\ ws' = TRUE
  /\ sock' = IF CloseOnOpen THEN "closing" ELSE "open"
  /\ waiting' = FALSE
  /\ UNCHANGED <<closed, up, sampleVars>>

\* The attempt fails, or an open websocket meets an error.
Error ==
  /\ up
  /\ sock \in {"trying", "open"}
  /\ up' = FALSE
  /\ UNCHANGED <<closed, connecting, sock, ws, waiting, sampleVars>>

\* The close event, of either side: no listener, _ws stays defined.
CloseEvent ==
  /\ up
  /\ sock \in {"open", "closing"}
  /\ sock' = "dead"
  /\ UNCHANGED <<closed, connecting, ws, waiting, up, sampleVars>>

\* ws.close(), now or when _connecting is resolved
CloseSocket ==
  IF connecting = "trying"
  THEN waiting' = TRUE /\ UNCHANGED sock
  ELSE /\ sock' = IF sock = "open" THEN "closing" ELSE sock
       /\ UNCHANGED waiting

Disconnect ==
  /\ up
  /\ "disconnect" \in Calls
  /\ ~closed
  /\ CloseSocket
  /\ UNCHANGED <<closed, connecting, ws, up, sampleVars>>

Close ==
  /\ up
  /\ "close" \in Calls
  /\ ~closed
  /\ closed' = TRUE
  /\ CloseSocket
  /\ UNCHANGED <<connecting, ws, up, sampleVars>>

KeepBuffer == buffer  \* mutant: the buffer is not replaced after it was sent
EmptyBuffer == <<>>

\* send: kept without a websocket; else the buffer goes first.  A websocket that
\* is not open any more swallows what it is given.
Send ==
  LET s == offered + 1
  IN /\ up
     /\ ~closed
     /\ offered < MaxSamples
     /\ offered' = s
     /\ IF ~ws
        THEN buffer' = Append(buffer, s) /\ UNCHANGED wire
        ELSE /\ buffer' = EmptyBuffer
             /\ wire' = IF sock = "open" THEN wire \o Append(buffer, s) ELSE wire
     /\ UNCHANGED linkVars

Next ==
  \/ Connect
  \/ Opened
  \/ Error
  \/ CloseEvent
  \/ Disconnect
  \/ Close
  \/ Send

Spec == Init /\ [][Next]_vars

\* An attempt ends and close events are delivered.
FairSpec ==
  /\ Spec
  /\ WF_vars(Opened \/ (sock = "trying" /\ Error))
  /\ WF_vars(sock = "closing" /\ CloseEvent)

-----------------------------------------------------------------------------
(* Properties.                                                             *)

Channel == INSTANCE SampleChannel WITH left <- offered - Len(buffer)

\* The samples leave in the order of send, none twice.
ImplementsChannel == Channel!Spec

\* After close, also in the middle of the attempt, the websocket goes.
CloseIsFinal ==
  closed ~> [](sock \in {"none", "dead"} \/ ~up)

\* reconnect: true (sfu/src/main.ts:46) asks for a new connection when the
\* websocket to the observer is closed.
Reconnects ==
  sock = "dead" ~> (sock = "open" \/ closed \/ ~up)
=============================================================================
