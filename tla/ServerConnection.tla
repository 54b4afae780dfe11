-------------------------- MODULE ServerConnection --------------------------
(***************************************************************************)
(* The webapp's connection to the SFU (webapp/src/contexts/                *)
(* ServerConnection.tsx): establishing the websocket with retries, the     *)
(* buffer that holds messages until then, and the table of requests.       *)
(*                                                                         *)
(* Each call of connect that gets past its guards starts a chain of        *)
(* attempts, named by the number of the call.  A request is a message that *)
(* wants a response; its requestId is the message itself.                  *)
(***************************************************************************)
EXTENDS Integers, Sequences, FiniteSets, SequencesExt, MessageProtocol

CONSTANTS
  Message,        \* the messages the application sends, each once
  TypeOf,         \* TypeOf[m]: its type; a request is sent with request()
  MaxRetry,       \* config.maxRetry, not positive for no limit
  MaxBufferSize,  \* config.maxBufferSize, negative for no limit
  MaxBufferTime,  \* config.maxBufferTimeInMs, not positive for no limit
  MaxCalls,       \* bound: calls of connect
  MaxFailures,    \* bound: failed attempts of one chain
  MaxNow          \* bound of the clock

ASSUME ConnectionAssumption ==
  /\ TypeOf \in [Message -> RequestType \union NotificationType]
  /\ MaxRetry \in Int
  /\ MaxBufferSize \in Int
  /\ MaxBufferTime \in Int
  /\ MaxCalls \in Nat
  /\ MaxFailures \in Nat
  /\ MaxNow \in Nat

Chain == 1 .. MaxCalls
Requests == {m \in Message : TypeOf[m] \in RequestType}

VARIABLES
  now,         \* Date.now
  calls,       \* chains started
  chain,       \* chain[n]: "none", "trying", "pausing", "open", "broken" or "refused"
  retried,     \* retried[n]: the argument of its last attempt
  connecting,  \* the chain _connecting belongs to, 0 for undefined
  ws,          \* the chain _ws belongs to, 0 for undefined
  timer,       \* _timer: "none", "armed", or "fired" once it ran for the last time
  buffer,      \* _buffer
  asked,       \* messages given to sendMessage, in that order (history)
  dropped,     \* those the buffer had no room for, or kept too long (history)
  lost,        \* those sent on a broken websocket (history)
  sent,        \* what the websocket accepted, in order
  hurried,     \* messages sent while older ones waited in the buffer (history)
  pending,     \* keys of _requests; they are never deleted
  resolved,    \* requests whose promise was resolved
  answered,    \* requests the SFU answered (history)
  unanswered   \* requests the SFU did not answer (history)

chainVars  == <<calls, chain, retried, connecting, ws>>
bufferVars == <<timer, buffer, dropped>>
wireVars   == <<sent, lost, hurried>>
sfuVars    == <<resolved, answered, unanswered>>
vars == <<now, chainVars, bufferVars, wireVars, asked, pending, sfuVars>>

Init ==
  /\ now = 0
  /\ calls = 0
  /\ chain = [n \in Chain |-> "none"]
  /\ retried = [n \in Chain |-> 0]
  /\ connecting = 0
  /\ ws = 0
  /\ timer = "none"
  /\ buffer = <<>>
  /\ asked = <<>>
  /\ dropped = {}
  /\ lost = {}
  /\ sent = <<>>
  /\ hurried = {}
  /\ pending = {}
  /\ resolved = {}
  /\ answered = {}
  /\ unanswered = {}

-----------------------------------------------------------------------------
(* Establishing the websocket.                                             *)

MayConnectAgain == ws = 0                \* mutant: _connecting is not looked at
MayConnect == ws = 0 /\ connecting = 0

\* connect: nothing when there is a websocket or a chain on its way
Connect ==
  LET n == calls + 1
  IN /\ calls < MaxCalls
     /\ MayConnect
     /\ calls' = n
     /\ chain' = [chain EXCEPT ![n] = "trying"]
     /\ connecting' = n
     /\ UNCHANGED <<now, retried, ws, bufferVars, wireVars, asked,
                    pending, sfuVars>>

\* The websocket opens; the callbacks that follow store it in _ws.
Opened(n) ==
  /\ chain[n] = "trying"
  /\ chain' = [chain EXCEPT ![n] = "open"]
  /\ ws' = n
  /\ connecting' = 0
  /\ UNCHANGED <<now, calls, retried, bufferVars, wireVars, asked,
                 pending, sfuVars>>

GivesUpSooner(k) == 0 < MaxRetry /\ MaxRetry <= k  \* mutant: maxRetry retries
GivesUp(k) == 0 < MaxRetry /\ MaxRetry < k

\* An attempt fails: it is repeated after a pause, or given up.  Only
\* then(resolve) hangs on the promise of a repeated attempt, so its rejection
\* does not reach the promise the chain began with, and _connecting stays.
Failed(n) ==
  /\ chain[n] = "trying"
  /\ retried[n] < MaxFailures
  /\ chain' = [chain EXCEPT ![n] = IF GivesUp(retried[n]) THEN "refused" ELSE "pausing"]
  /\ UNCHANGED <<now, calls, retried, connecting, ws, bufferVars, wireVars, asked,
                 pending, sfuVars>>

Retry(n) ==
  /\ chain[n] = "pausing"
  /\ chain' = [chain EXCEPT ![n] = "trying"]
  /\ retried' = [retried EXCEPT ![n] = @ + 1]
  /\ UNCHANGED <<now, calls, connecting, ws, bufferVars, wireVars, asked,
                 pending, sfuVars>>

\* The websocket breaks.  Nobody listens to it: _ws stays as it is.
Broken(n) ==
  /\ chain[n] = "open"
  /\ chain' = [chain EXCEPT ![n] = "broken"]
  /\ UNCHANGED <<now, calls, retried, connecting, ws, bufferVars, wireVars,
                 asked, pending, sfuVars>>

-----------------------------------------------------------------------------
(* Messages.                                                               *)

\* WebSocket.send: a websocket that is not open any more swallows the data.
Transmit(ms) ==
  IF chain[ws] = "open"
  THEN sent' = sent \o ms /\ UNCHANGED lost
  ELSE lost' = lost \union ToSet(ms) /\ UNCHANGED sent

HasRoom == MaxBufferSize < 0 \/ Len(buffer) < MaxBufferSize

\* sendMessage, called directly or by request
SendMessage(m) ==
  /\ m \notin ToSet(asked)
  /\ asked' = Append(asked, m)
  /\ pending' = IF m \in Requests THEN pending \union {m} ELSE pending
  /\ IF ws = 0
     THEN /\ IF HasRoom
             THEN buffer' = Append(buffer, [message |-> m, timestamp |-> now])
                  /\ UNCHANGED dropped
             ELSE dropped' = dropped \union {m} /\ UNCHANGED buffer
          /\ timer' = IF timer = "none" THEN "armed" ELSE timer
          /\ UNCHANGED wireVars
     ELSE /\ Transmit(<<m>>)
          /\ hurried' = IF buffer = <<>> THEN hurried ELSE hurried \union {m}
          /\ UNCHANGED bufferVars
  /\ UNCHANGED <<now, chainVars, sfuVars>>

Fresh(e) == MaxBufferTime <= 0 \/ now - e.timestamp <= MaxBufferTime

FlushReversed ==  \* mutant: the last message first
  Reverse([i \in 1 .. Len(buffer) |-> buffer[i].message])

Increasing(f) == \A i, k \in DOMAIN f : i < k => f[i] < f[k]

\* The numbers of a finite set in their order
InOrder(S) == CHOOSE f \in [1 .. Cardinality(S) -> S] : Increasing(f)

Kept == {i \in 1 .. Len(buffer) : Fresh(buffer[i])}

\* The messages of the buffer that are still fresh, in their order
Flush == [i \in 1 .. Cardinality(Kept) |-> buffer[InOrder(Kept)[i]].message]

\* createTimer: again while there is no websocket
FireAgain == IF ws = 0 THEN "armed" ELSE "fired"

KeepBuffer == buffer   \* mutant: _buffer is not replaced
EmptyBuffer == <<>>

Buffered == {e.message : e \in ToSet(buffer)}

\* The timer: without a websocket it is set again, else the buffer goes.
TimerFired ==
  /\ timer = "armed"
  /\ timer' = FireAgain
  /\ IF ws = 0
     THEN UNCHANGED <<buffer, dropped, wireVars>>
     ELSE /\ Transmit(Flush)
          /\ dropped' = dropped \union (Buffered \ ToSet(Flush))
          /\ buffer' = EmptyBuffer
          /\ UNCHANGED hurried
  /\ UNCHANGED <<now, chainVars, asked, pending, sfuVars>>

\* A request on its way to the SFU, or in the hands of its handler there
Served(m) ==
  /\ ws # 0
  /\ chain[ws] = "open"
  /\ m \in (ToSet(sent) \intersect pending) \ (answered \union unanswered)

\* The SFU answers, and onmessage hands the response to resolveRequest if its
\* type has that listener.
Response(m) ==
  /\ Served(m)
  /\ TypeOf[m] \in MessageType
  /\ answered' = answered \union {m}
  /\ resolved' = IF ResponseTo(TypeOf[m]) \in ResolvedType
                 THEN resolved \union {m} ELSE resolved
  /\ UNCHANGED <<now, chainVars, bufferVars, wireVars, asked, pending, unanswered>>

\* The SFU does not answer: it has no listener for the type, or none yet (before
\* room.add), or the handler returned early (a transport asked for twice, no
\* transport or no producer of that name, a producer the worker refused).
NoResponse(m) ==
  /\ Served(m)
  /\ unanswered' = unanswered \union {m}
  /\ UNCHANGED <<now, chainVars, bufferVars, wireVars, asked, pending, resolved,
                 answered>>

Tick ==
  /\ now < MaxNow
  /\ now' = now + 1
  /\ UNCHANGED <<chainVars, bufferVars, wireVars, asked, pending, sfuVars>>

Next ==
  \/ Connect
  \/ \E n \in Chain : Opened(n) \/ Failed(n) \/ Retry(n) \/ Broken(n)
  \/ \E m \in Message : SendMessage(m) \/ Response(m) \/ NoResponse(m)
  \/ TimerFired
  \/ Tick

Spec == Init /\ [][Next]_vars

\* MediasoupService calls connect; timers fire; an attempt ends, and after
\* MaxFailures of them the SFU runs and accepts.  A request that reaches it is
\* handled, which need not mean answered.
Fairness ==
  /\ WF_vars(Connect)
  /\ \A n \in Chain :
       WF_vars(Retry(n)) /\ WF_vars(Opened(n) \/ Failed(n))
  /\ WF_vars(TimerFired)
  /\ \A m \in Message : WF_vars(Response(m) \/ NoResponse(m))

FairSpec == Spec /\ Fairness

-----------------------------------------------------------------------------
(* Properties.                                                             *)

\* However often connect is called, at most one chain of attempts runs and no
\* second websocket is opened beside the one in _ws.
OneChain ==
  \A n, k \in Chain : chain[n] # "none" /\ chain[k] # "none" => n = k

\* A buffered message has a timer that will flush it: _timer is never reset, so
\* this rests on _ws never being reset either.
TimerCoversBuffer ==
  buffer # <<>> => timer = "armed"

\* Every message given to sendMessage is in exactly one place: on the wire, in
\* the buffer, dropped by the limits of the buffer or swallowed by a broken
\* websocket; and it is on the wire at most once.
Accounted ==
  /\ ToSet(asked) = Buffered \union ToSet(sent) \union dropped \union lost
  /\ Len(asked) = Len(buffer) + Len(sent) + Cardinality(dropped) + Cardinality(lost)

\* m stands before n in the sequence s.
Before(s, m, n) ==
  \E i, k \in 1 .. Len(s) : i < k /\ s[i] = m /\ s[k] = n

\* Messages leave in the order they were given to sendMessage, with one
\* exception: while the websocket is open and the timer has not flushed the
\* buffer, a new message goes straight to the websocket and overtakes what is
\* buffered.  The buffered ones keep their order among themselves, and so do
\* those that overtook them.
OnlyBufferedOvertaken ==
  \A i, k \in 1 .. Len(sent) :
    i < k => \/ Before(asked, sent[i], sent[k])
             \/ sent[i] \in hurried /\ sent[k] \notin hurried

Broke == \E n \in Chain : chain[n] = "broken"
Refused == \E n \in Chain : chain[n] = "refused"

\* Through failed attempts, pauses and timers that find no websocket yet, a
\* request reaches the SFU, and when the SFU answers, the promise is resolved;
\* unless the buffer dropped it, the retries were given up or the websocket
\* broke.  There is no onclose and no timeout, so in these cases, and when the
\* SFU does not answer, the caller waits for ever.
RequestsResolve ==
  \A m \in Requests :
    m \in ToSet(asked) ~>
      (m \in resolved \/ m \in unanswered \/ m \in dropped \/ Broke \/ Refused)

\* A limit on the retries allows one more than it says, and a chain that was
\* given up is the last: _connecting stays, so no call of connect starts
\* another, and what was buffered stays.
RetryLimit ==
  0 < MaxRetry =>
    \A n \in Chain :
      /\ retried[n] <= MaxRetry + 1
      /\ chain[n] = "refused" =>
           retried[n] = MaxRetry + 1 /\ connecting = n /\ ws = 0 /\ sent = <<>>
=============================================================================
