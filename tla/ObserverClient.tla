--------------------------- MODULE ObserverClient ---------------------------
(***************************************************************************)
(* The webapp's connection to the observer (webapp/src/utils/              *)
(* ObserverServiceClient.ts): attempts with a limit, reconnection, the     *)
(* buffer of samples, disconnect and close.                                *)
(*                                                                         *)
(* Promise callbacks run before the next event, so the operations that     *)
(* await _connecting continue in the step that settles it.  A websocket    *)
(* object is a slot of Socket, free again when its close event has fired.  *)
(***************************************************************************)
EXTENDS Naturals, Sequences, FiniteSets

CONSTANTS
  Socket,      \* slots for websocket objects, positive numbers
  Calls,       \* the operations the application calls
  Reconnect,   \* config.reconnect
  MaxAttempt,  \* the 10 of line 48
  MaxConnects, \* bound: calls of connect by the application
  MaxSamples   \* bound: calls of send

ASSUME ClientAssumption ==
  /\ Socket \subseteq Nat \ {0}
  /\ Calls \subseteq {"disconnect", "close"}
  /\ Reconnect \in BOOLEAN
  /\ MaxAttempt \in Nat
  /\ MaxConnects \in Nat
  /\ MaxSamples \in Nat

VARIABLES
  closed,      \* _closed
  canConnect,  \* _canConnect
  connecting,  \* _connecting: "none", or where its chain is, "trying" or "pausing"
  tried,       \* the argument of the last attempt of the chain
  sock,        \* sock[n]: "free", "trying", "open", "closing" or "dead"
  ws,          \* the socket in _ws, 0 for undefined
  waiting,     \* operations that await _connecting, of "disconnect" and "close"
  connects,    \* calls of connect by the application
  leaving,     \* disconnect was the last operation called (history)
  crossed,     \* connect was called before the last websocket had gone (history)
  buffer, offered, wire  \* samples: kept, given to send, taken by an open websocket

linkVars   == <<closed, canConnect, connecting, tried, sock, ws, waiting>>
sampleVars == <<buffer, offered, wire>>
callVars   == <<connects, leaving, crossed>>
vars == <<linkVars, callVars, sampleVars>>

Init ==
  /\ closed = FALSE
  /\ canConnect = TRUE
  /\ connecting = "none"
  /\ tried = 0
  /\ sock = [n \in Socket |-> "free"]
  /\ ws = 0
  /\ waiting = {}
  /\ connects = 0
  /\ leaving = FALSE
  /\ crossed = FALSE
  /\ buffer = <<>>
  /\ offered = 0
  /\ wire = <<>>

-----------------------------------------------------------------------------
(* The chain of attempts.                                                  *)

Connecting == connecting # "none"

\* new WebSocket in a free slot of the sockets s
NewSocket(s) ==
  \E n \in Socket : s[n] = "free" /\ sock' = [s EXCEPT ![n] = "trying"]

\* connect, past the check of _closed, with the sockets s
StartConnect(s) ==
  IF Connecting
  THEN sock' = s /\ UNCHANGED <<canConnect, connecting, tried>>
  ELSE /\ canConnect' = TRUE
       /\ connecting' = "trying"
       /\ tried' = 0
       /\ NewSocket(s)

\* The application calls connect.
Connect ==
  /\ ~closed
  /\ connects < MaxConnects
  /\ connects' = connects + 1
  /\ leaving' = FALSE
  /\ crossed' = (crossed \/ (~Connecting /\ \E n \in Socket : sock[n] # "free"))
  /\ StartConnect(sock)
  /\ UNCHANGED <<closed, ws, waiting, sampleVars>>

\* ws.close() on the sockets s
CloseSocket(s, n) ==
  IF n \in Socket /\ s[n] = "open" THEN [s EXCEPT ![n] = "closing"] ELSE s

SomeoneWaits == waiting # {}

\* The websocket opens and becomes _ws; a disconnect or close that waited for
\* it closes it.
Opened(n) ==
  LET s == [sock EXCEPT ![n] = "open"]
  IN /\ connecting = "trying"
     /\ sock[n] = "trying"
     /\ ws' = n
     /\ connecting' = "none"
     /\ sock' = IF SomeoneWaits THEN CloseSocket(s, n) ELSE s
     /\ canConnect' = IF "disconnect" \in waiting THEN FALSE ELSE canConnect
     /\ waiting' = {}
     /\ UNCHANGED <<closed, tried, callVars, sampleVars>>

UsedUp == MaxAttempt < tried

StillTrying(n) == sock        \* mutant: the pause begins before the attempt has ended
Ended(n) == [sock EXCEPT ![n] = "free"]

\* An attempt fails (the first of its events error and close): a pause before
\* the next, or the promise is rejected, and with it a disconnect that waits.
Failed(n) ==
  /\ connecting = "trying"
  /\ sock[n] = "trying"
  /\ sock' = Ended(n)
  /\ IF UsedUp
     THEN connecting' = "none" /\ waiting' = {}
     ELSE connecting' = "pausing" /\ UNCHANGED waiting
  /\ UNCHANGED <<closed, canConnect, tried, ws, callVars, sampleVars>>

Retry ==
  /\ connecting = "pausing"
  /\ connecting' = "trying"
  /\ tried' = tried + 1
  /\ NewSocket(sock)
  /\ UNCHANGED <<closed, canConnect, ws, waiting, callVars, sampleVars>>

-----------------------------------------------------------------------------
(* The end of a websocket.                                                 *)

\* The other side is gone, and the client has not noticed.
Dies(n) ==
  /\ sock[n] = "open"
  /\ sock' = [sock EXCEPT ![n] = "dead"]
  /\ UNCHANGED <<closed, canConnect, connecting, tried, ws, waiting, callVars, sampleVars>>

ReconnectWhenOpen == ~closed                \* mutant: _canConnect is not looked at
ReconnectWhenClosed == canConnect /\ closed  \* mutant: return if !this._closed
MayReconnect == canConnect /\ ~closed

\* The close event: closeListener resets _ws, then reconnects, or closes the
\* client when the observer ended the websocket itself (code 4000 or more).
CloseEvent(n, selfClosed) ==
  LET s == Ended(n)
  IN /\ \/ sock[n] = "closing" /\ ~selfClosed
        \/ sock[n] = "dead"
     /\ ws' = 0
     /\ IF ~MayReconnect
        THEN sock' = s /\ UNCHANGED <<closed, canConnect, connecting, tried, waiting>>
        ELSE IF ~Reconnect \/ selfClosed
        THEN /\ closed' = TRUE
             /\ sock' = s
             /\ waiting' = IF Connecting THEN waiting \union {"close"} ELSE waiting
             /\ UNCHANGED <<canConnect, connecting, tried>>
        ELSE StartConnect(s) /\ UNCHANGED <<closed, waiting>>
     /\ UNCHANGED <<callVars, sampleVars>>

Disconnect ==
  /\ "disconnect" \in Calls
  /\ ~closed
  /\ leaving' = TRUE
  /\ IF Connecting
     THEN waiting' = waiting \union {"disconnect"} /\ UNCHANGED <<canConnect, sock>>
     ELSE /\ canConnect' = FALSE
          /\ sock' = CloseSocket(sock, ws)
          /\ UNCHANGED waiting
  /\ UNCHANGED <<closed, connecting, tried, ws, connects, crossed, sampleVars>>

Close ==
  /\ "close" \in Calls
  /\ ~closed
  /\ closed' = TRUE
  /\ IF Connecting
     THEN waiting' = waiting \union {"close"} /\ UNCHANGED sock
     ELSE sock' = CloseSocket(sock, ws) /\ UNCHANGED waiting
  /\ UNCHANGED <<canConnect, connecting, tried, ws, callVars, sampleVars>>

-----------------------------------------------------------------------------
(* Samples.                                                                *)

NewestFirst(s) == <<s>> \o buffer   \* mutant: the buffer follows the new sample
Outgoing(s) == Append(buffer, s)

\* send: kept without a websocket; else the buffer goes first.  A websocket that
\* is not open any more swallows what it is given.
Send ==
  LET s == offered + 1
  IN /\ ~closed
     /\ offered < MaxSamples
     /\ offered' = s
     /\ IF ws = 0
        THEN buffer' = Append(buffer, s) /\ UNCHANGED wire
        ELSE /\ buffer' = <<>>
             /\ wire' = IF sock[ws] = "open" THEN wire \o Outgoing(s) ELSE wire
     /\ UNCHANGED <<linkVars, callVars>>

Next ==
  \/ Connect
  \/ \E n \in Socket : Opened(n) \/ Failed(n) \/ Dies(n)
  \/ \E n \in Socket, selfClosed \in BOOLEAN : CloseEvent(n, selfClosed)
  \/ Retry
  \/ Disconnect
  \/ Close
  \/ Send

Spec == Init /\ [][Next]_vars

\* Attempts end, timers fire and close events are delivered.
Fairness ==
  /\ WF_vars(\E n \in Socket : Opened(n) \/ Failed(n))
  /\ WF_vars(Retry)
  /\ WF_vars(\E n \in Socket, selfClosed \in BOOLEAN : CloseEvent(n, selfClosed))

FairSpec == Spec /\ Fairness

-----------------------------------------------------------------------------
(* Properties.                                                             *)

\* Unless connect was called before the last websocket had gone, no connect and
\* no reconnection opens a websocket beside another, and the one that is open is
\* in _ws.  (When it was, the close listener of the old websocket clears the _ws
\* of the new one, and reconnects beside it.)
OneSocket ==
  ~crossed =>
    /\ Cardinality({n \in Socket : sock[n] # "free"}) <= 1
    /\ \A n \in Socket : sock[n] \in {"open", "closing", "dead"} => ws = n

Channel == INSTANCE SampleChannel WITH left <- offered - Len(buffer)

\* Over all reconnections the samples leave in the order of send, none twice.
ImplementsChannel == Channel!Spec

\* A connection that is lost is established again, unless the client was closed
\* or disconnected, or the attempts were used up.
Reconnects ==
  Reconnect =>
    \A n \in Socket :
      sock[n] = "dead" ~> \/ closed \/ leaving
                          \/ ws = 0 /\ connecting = "none" /\ UsedUp
                          \/ ws # 0 /\ sock[ws] = "open"

\* After close or disconnect, also in the middle of an attempt, the websocket
\* goes; after close no other comes, after disconnect only by another connect.
CloseIsFinal ==
  LET gone == \A n \in Socket : sock[n] = "free"
  IN /\ closed ~> crossed \/ []gone
     /\ leaving ~> crossed \/ ~leaving \/ gone
=============================================================================
