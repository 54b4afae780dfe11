----------------------- MODULE ServerConnectionProofs -----------------------
(***************************************************************************)
(* Proofs about ServerConnection, for all messages, limits and bounds: one *)
(* chain of attempts and its retries, a timer for every buffered message,  *)
(* where each message is, and in which order messages leave.               *)
(***************************************************************************)
EXTENDS ServerConnection, FiniteSetTheorems, SequenceTheorems, TLAPS

\* The fields that decide which branch of connect and sendMessage is taken.
ControlType ==
  /\ calls \in Nat
  /\ chain \in [Chain -> {"none", "trying", "pausing", "open", "broken", "refused"}]
  /\ connecting \in Nat
  /\ ws \in Nat
  /\ timer \in {"none", "armed", "fired"}

\* Once connect went past its guards, _connecting or _ws stays defined, so it
\* never goes past them again.
ChainInv ==
  /\ calls <= 1
  /\ calls = 0 <=> (connecting = 0 /\ ws = 0)
  /\ \A n \in Chain : chain[n] # "none" => n <= calls

\* The timer runs for the last time only when _ws is defined, after which
\* nothing is buffered any more.
TimerInv ==
  /\ timer = "fired" => ws # 0
  /\ timer = "none" => buffer = <<>>
  /\ timer = "fired" => buffer = <<>>

IInv == ControlType /\ ChainInv /\ TimerInv

\* The constructor establishes the invariant.
LEMMA InitIInv == Init => IInv
  BY ConnectionAssumption DEF Init, IInv, ControlType, ChainInv, TimerInv, Chain

\* The guards of connect are open only before the first chain.
LEMMA ConnectStep ==
  ASSUME IInv, Connect
  PROVE  IInv'
  BY ConnectionAssumption
  DEF Connect, MayConnect, IInv, ControlType, ChainInv, TimerInv, Chain, bufferVars

\* _ws takes over from _connecting.
LEMMA OpenedStep ==
  ASSUME IInv, NEW n \in Chain, Opened(n)
  PROVE  IInv'
  BY ConnectionAssumption
  DEF Opened, IInv, ControlType, ChainInv, TimerInv, Chain, bufferVars

\* A failed attempt leaves _connecting as it is, given up or not.
LEMMA FailedStep ==
  ASSUME IInv, NEW n \in Chain, Failed(n)
  PROVE  IInv'
  BY ConnectionAssumption
  DEF Failed, IInv, ControlType, ChainInv, TimerInv, Chain, bufferVars

\* So does the next attempt.
LEMMA RetryStep ==
  ASSUME IInv, NEW n \in Chain, Retry(n)
  PROVE  IInv'
  BY ConnectionAssumption
  DEF Retry, IInv, ControlType, ChainInv, TimerInv, Chain, bufferVars

\* Nobody resets _ws when the websocket breaks.
LEMMA BrokenStep ==
  ASSUME IInv, NEW n \in Chain, Broken(n)
  PROVE  IInv'
  BY ConnectionAssumption
  DEF Broken, IInv, ControlType, ChainInv, TimerInv, Chain, bufferVars

\* sendMessage buffers only while _ws is undefined, when the timer can be armed.
LEMMA SendMessageStep ==
  ASSUME IInv, NEW m \in Message, SendMessage(m)
  PROVE  IInv'
  <1>1. ControlType' /\ ChainInv'
    BY DEF SendMessage, IInv, ControlType, ChainInv, chainVars, bufferVars
  <1>2. TimerInv'
    <2>1. CASE ws = 0
      BY <2>1 DEF SendMessage, IInv, ControlType, TimerInv, chainVars
    <2>2. CASE ws # 0
      BY <2>2 DEF SendMessage, IInv, TimerInv, chainVars, bufferVars
    <2> QED BY <2>1, <2>2
  <1> QED BY <1>1, <1>2 DEF IInv

\* The timer stays armed, or leaves an empty buffer.
LEMMA TimerFiredStep ==
  ASSUME IInv, TimerFired
  PROVE  IInv'
  BY DEF TimerFired, FireAgain, EmptyBuffer, IInv, ControlType, ChainInv, TimerInv,
         chainVars

\* Responses and the clock change none of these fields.
LEMMA OtherStep ==
  ASSUME IInv, UNCHANGED <<chainVars, timer, buffer>>
  PROVE  IInv'
  BY DEF IInv, ControlType, ChainInv, TimerInv, chainVars

\* The inductive invariant holds in every state of the connection.
THEOREM Invariance == Spec => []IInv
  <1>1. ASSUME IInv, [Next]_vars
        PROVE  IInv'
    <2>1. CASE UNCHANGED vars
      BY <1>1, <2>1, OtherStep DEF vars, bufferVars
    <2>2. ASSUME NEW m \in Message, Response(m) \/ NoResponse(m)
          PROVE  IInv'
      BY <1>1, <2>2, OtherStep DEF Response, NoResponse, bufferVars
    <2>3. CASE Tick
      BY <1>1, <2>3, OtherStep DEF Tick, bufferVars
    <2> QED
      BY <1>1, <2>1, <2>2, <2>3, ConnectStep, OpenedStep, FailedStep, RetryStep,
         BrokenStep, SendMessageStep, TimerFiredStep DEF Next
  <1> QED BY <1>1, InitIInv, PTL DEF Spec

\* However often connect is called, one chain of attempts runs.
THEOREM ConnectionOneChain == Spec => []OneChain
  <1>1. IInv => OneChain
    BY DEF IInv, ControlType, ChainInv, OneChain, Chain
  <1> QED BY <1>1, Invariance, PTL

\* No buffered message is left without a timer.
THEOREM ConnectionTimerCoversBuffer == Spec => []TimerCoversBuffer
  <1>1. IInv => TimerCoversBuffer
    BY DEF IInv, ControlType, TimerInv, TimerCoversBuffer
  <1> QED BY <1>1, Invariance, PTL

-----------------------------------------------------------------------------
(* Retries.                                                                *)

\* _connecting belongs to the chain that is still on its way or was given up, and
\* nothing is sent before it is through.  A pause is followed by one more attempt.
RetryInv ==
  /\ retried \in [Chain -> Nat]
  /\ ws = 0 => sent = <<>>
  /\ \A n \in Chain :
       /\ chain[n] \in {"trying", "pausing", "refused"} => connecting = n /\ ws = 0
       /\ chain[n] = "none" => retried[n] = 0
       /\ 0 < MaxRetry => /\ retried[n] <= MaxRetry + 1
                          /\ chain[n] = "pausing" => retried[n] <= MaxRetry
                          /\ chain[n] = "refused" => retried[n] = MaxRetry + 1

\* Each step of connect keeps the count of the retries within the limit.
LEMMA RetryInvChain ==
  ASSUME IInv, RetryInv, NEW n \in Chain,
         Opened(n) \/ Failed(n) \/ Retry(n) \/ Broken(n)
  PROVE  RetryInv'
  <1> USE ConnectionAssumption DEF IInv, ControlType, ChainInv, RetryInv, Chain, wireVars
  <1>1. CASE Opened(n)
    BY <1>1 DEF Opened
  <1>2. CASE Failed(n)
    BY <1>2 DEF Failed, GivesUp
  <1>3. CASE Retry(n)
    BY <1>3 DEF Retry
  <1>4. CASE Broken(n)
    BY <1>4 DEF Broken
  <1> QED BY <1>1, <1>2, <1>3, <1>4

\* So does every other step: without a websocket nothing is transmitted.
LEMMA RetryInvStep ==
  ASSUME IInv, RetryInv, [Next]_vars
  PROVE  RetryInv'
  <1>1. CASE Connect
    BY <1>1, ConnectionAssumption
    DEF Connect, MayConnect, IInv, ControlType, ChainInv, RetryInv, Chain, wireVars
  <1>2. ASSUME UNCHANGED chainVars, ws = 0 => UNCHANGED sent
        PROVE  RetryInv'
    BY <1>2 DEF RetryInv, chainVars
  <1>3. ASSUME NEW m \in Message, SendMessage(m)
        PROVE  RetryInv'
    BY <1>2, <1>3 DEF SendMessage, wireVars
  <1>4. ASSUME NEW m \in Message, Response(m) \/ NoResponse(m)
        PROVE  RetryInv'
    BY <1>2, <1>4 DEF Response, NoResponse, wireVars
  <1>5. CASE TimerFired
    BY <1>2, <1>5 DEF TimerFired, wireVars
  <1>6. CASE Tick \/ UNCHANGED vars
    BY <1>2, <1>6 DEF Tick, vars, wireVars
  <1> QED BY <1>1, <1>3, <1>4, <1>5, <1>6, RetryInvChain DEF Next

\* A chain makes at most maxRetry + 1 retries, and one that was given up is the
\* last, with everything that was buffered.
THEOREM ConnectionRetryLimit == Spec => []RetryLimit
  <1>1. Init => RetryInv
    BY ConnectionAssumption DEF Init, RetryInv
  <1>2. IInv /\ RetryInv /\ [Next]_vars => RetryInv'
    BY RetryInvStep
  <1>3. RetryInv => RetryLimit
    BY DEF RetryInv, RetryLimit
  <1> QED BY <1>1, <1>2, <1>3, Invariance, PTL DEF Spec

-----------------------------------------------------------------------------
(* The order of a finite set of numbers.                                   *)

\* An enumeration of a set of numbers in their order
IsOrder(f, S) == f \in [1 .. Cardinality(S) -> S] /\ Increasing(f)

\* A set that gains a larger number has one more element.
LEMMA OrderAppend ==
  ASSUME NEW n \in Nat, NEW S \in SUBSET (1 .. n + 1), n + 1 \in S,
         NEW f, IsOrder(f, S \ {n + 1})
  PROVE  \E g : IsOrder(g, S)
  <1> DEFINE c == Cardinality(S)
             T == S \ {n + 1}
             g == [i \in 1 .. c |-> IF i = c THEN n + 1 ELSE f[i]]
  <1>1. IsFiniteSet(S)
    <2>1. IsFiniteSet(1 .. n + 1)
      BY FS_Interval
    <2> QED BY <2>1, FS_Subset
  <1>2. c \in Nat /\ c # 0 /\ Cardinality(T) = c - 1
    <2>1. c \in Nat /\ Cardinality(T) = c - 1
      BY <1>1, FS_CardinalityType, FS_RemoveElement
    <2>2. c # 0
      BY <1>1, FS_EmptySet
    <2> QED BY <2>1, <2>2
  <1> HIDE DEF c
  <1>3. /\ f \in [1 .. c - 1 -> T]
        /\ \A i, k \in 1 .. c - 1 : i < k => f[i] < f[k]
    BY <1>2 DEF IsOrder, Increasing
  <1>4. \A i \in 1 .. c - 1 : f[i] \in S /\ f[i] < n + 1
    <2>1. \A x \in T : x \in S /\ x < n + 1
      OBVIOUS
    <2> HIDE DEF T
    <2> QED BY <1>3, <2>1
  <1>5. g \in [1 .. c -> S]
    BY <1>2, <1>4
  <1>6. \A i, k \in 1 .. c : i < k => g[i] < g[k]
    BY <1>2, <1>3, <1>4
  <1>7. Increasing(g)
    BY <1>5, <1>6 DEF Increasing
  <1> QED BY <1>5, <1>7 DEF IsOrder, c

\* Every finite set of positive numbers has an order.  The proof looks at the
\* least n for which some part of 1 .. n would have none.
LEMMA OrderExists ==
  ASSUME NEW n \in Nat, NEW S \in SUBSET (1 .. n)
  PROVE  \E f : IsOrder(f, S)
  <1> DEFINE Bad == {k \in Nat : \E T \in SUBSET (1 .. k) : ~\E f : IsOrder(f, T)}
  <1>1. SUFFICES ASSUME Bad # {}
                 PROVE  FALSE
    OBVIOUS
  <1>2. PICK k \in Bad : \A j \in Bad : ~(j < k)
    <2>1. PICK k \in Bad : \A j \in Bad : <<j, k>> \notin OpToRel(<, Nat)
      BY <1>1, NatLessThanWellFounded, WFMin
    <2> QED BY <2>1 DEF OpToRel
  <1>3. PICK T \in SUBSET (1 .. k) : ~\E f : IsOrder(f, T)
    OBVIOUS
  <1>4. k # 0
    <2> SUFFICES ASSUME k = 0
                 PROVE  FALSE
      OBVIOUS
    <2>1. T = {}
      OBVIOUS
    <2>2. IsOrder([i \in 1 .. 0 |-> 0], T)
      BY <2>1, FS_EmptySet DEF IsOrder, Increasing
    <2> QED BY <1>3, <2>2
  <1>5. k \in Nat
    OBVIOUS
  <1> HIDE DEF Bad
  <1>6. k - 1 \in Nat /\ k - 1 \notin Bad
    BY <1>2, <1>4, <1>5
  <1>7. \A U \in SUBSET (1 .. k - 1) : \E f : IsOrder(f, U)
    BY <1>6 DEF Bad
  <1>8. CASE k \notin T
    BY <1>3, <1>5, <1>7, <1>8
  <1>9. CASE k \in T
    <2>1. T \ {k} \in SUBSET (1 .. k - 1)
      BY <1>5
    <2>2. PICK f : IsOrder(f, T \ {k})
      BY <1>7, <2>1
    <2>3. (k - 1) + 1 = k
      BY <1>5
    <2> QED BY <1>3, <1>6, <1>9, <2>2, <2>3, OrderAppend
  <1> QED BY <1>8, <1>9

\* What InOrder chooses.
LEMMA InOrderIsOrder ==
  ASSUME NEW n \in Nat, NEW S \in SUBSET (1 .. n)
  PROVE  IsOrder(InOrder(S), S)
  BY OrderExists DEF IsOrder, InOrder

-----------------------------------------------------------------------------
(* Where each message is.                                                  *)

Entry == [message : Message, timestamp : Nat]

\* No message is twice in a sequence.
Once(ms) == \A i, k \in 1 .. Len(ms) : ms[i] = ms[k] => i = k

\* The buffer and the wire hold each message once, and the four places have none
\* in common.
PlaceInv ==
  /\ now \in Nat
  /\ buffer \in Seq(Entry)
  /\ sent \in Seq(Message)
  /\ \A i, k \in 1 .. Len(buffer) : buffer[i].message = buffer[k].message => i = k
  /\ Once(sent)
  /\ asked \in Seq(Message)
  /\ Once(asked)
  /\ ToSet(asked) = Buffered \union ToSet(sent) \union dropped \union lost
  /\ Buffered \intersect (ToSet(sent) \union dropped \union lost) = {}
  /\ ToSet(sent) \intersect (dropped \union lost) = {}
  /\ dropped \intersect lost = {}

\* The messages of the buffer, by their positions.
LEMMA BufferedBy ==
  ASSUME buffer \in Seq(Entry)
  PROVE  Buffered = {buffer[i].message : i \in 1 .. Len(buffer)}
  BY DEF Buffered, ToSet

\* What the timer sends: messages of the buffer, each once.
LEMMA FlushOnce ==
  ASSUME PlaceInv
  PROVE  /\ Flush \in Seq(Message)
         /\ Once(Flush)
         /\ ToSet(Flush) \subseteq Buffered
  <1> DEFINE c == Cardinality(Kept)
             f == InOrder(Kept)
  <1>1. Len(buffer) \in Nat /\ Kept \in SUBSET (1 .. Len(buffer))
    BY DEF PlaceInv, Kept
  <1>2. c \in Nat
    <2>1. IsFiniteSet(1 .. Len(buffer))
      BY <1>1, FS_Interval
    <2> QED BY <1>1, <2>1, FS_Subset, FS_CardinalityType
  <1>3. /\ f \in [1 .. c -> 1 .. Len(buffer)]
        /\ \A i, k \in 1 .. c : i < k => f[i] < f[k]
    BY <1>1, InOrderIsOrder DEF IsOrder, Increasing
  <1> HIDE DEF c, f
  <1>4. Flush = [i \in 1 .. c |-> buffer[f[i]].message]
    BY DEF Flush, c, f
  <1>5. \A i \in 1 .. c : buffer[f[i]] \in Entry
    BY <1>3, ElementOfSeq DEF PlaceInv
  <1>6. \A i \in 1 .. c : buffer[f[i]].message \in Message
    BY <1>5 DEF Entry
  <1>7. Flush \in Seq(Message) /\ Len(Flush) = c
    BY <1>2, <1>4, <1>6
  <1>8. Once(Flush)
    <2> SUFFICES ASSUME NEW i \in 1 .. c, NEW k \in 1 .. c, Flush[i] = Flush[k]
                 PROVE  i = k
      BY <1>7 DEF Once
    <2>1. f[i] = f[k]
      BY <1>3, <1>4 DEF PlaceInv
    <2>2. f[i] \in Nat
      BY <1>1, <1>3
    <2> QED BY <1>2, <1>3, <2>1, <2>2
  <1>9. ToSet(Flush) \subseteq Buffered
    BY <1>3, <1>4, BufferedBy DEF PlaceInv, ToSet
  <1> QED BY <1>7, <1>8, <1>9

\* Messages that are not on the wire yet join it.
LEMMA WireGrows ==
  ASSUME NEW s \in Seq(Message), NEW t \in Seq(Message), Once(s), Once(t),
         ToSet(s) \intersect ToSet(t) = {}
  PROVE  /\ s \o t \in Seq(Message)
         /\ Once(s \o t)
         /\ ToSet(s \o t) = ToSet(s) \union ToSet(t)
  <1>1. /\ s \o t \in Seq(Message)
        /\ Len(s \o t) = Len(s) + Len(t)
        /\ \A i \in 1 .. Len(s) + Len(t) :
             (s \o t)[i] = IF i <= Len(s) THEN s[i] ELSE t[i - Len(s)]
    BY ConcatProperties
  <1>2. Len(s) \in Nat /\ Len(t) \in Nat
    OBVIOUS
  <1>3. /\ \A i \in 1 .. Len(s) : s[i] \in ToSet(s)
        /\ \A i \in 1 .. Len(t) : t[i] \in ToSet(t)
    BY DEF ToSet
  <1>4. Once(s \o t)
    <2> SUFFICES ASSUME NEW i \in 1 .. Len(s) + Len(t), NEW k \in 1 .. Len(s) + Len(t),
                        (s \o t)[i] = (s \o t)[k]
                 PROVE  i = k
      BY <1>1 DEF Once
    <2>1. CASE i <= Len(s) /\ k <= Len(s)
      BY <1>1, <1>2, <2>1 DEF Once
    <2>2. CASE i <= Len(s) /\ ~(k <= Len(s))
      BY <1>1, <1>2, <1>3, <2>2
    <2>3. CASE ~(i <= Len(s)) /\ k <= Len(s)
      BY <1>1, <1>2, <1>3, <2>3
    <2>4. CASE ~(i <= Len(s)) /\ ~(k <= Len(s))
      <3>1. i - Len(s) \in 1 .. Len(t) /\ k - Len(s) \in 1 .. Len(t)
        BY <1>2, <2>4
      <3>2. t[i - Len(s)] = t[k - Len(s)]
        BY <1>1, <2>4
      <3>3. i - Len(s) = k - Len(s)
        BY <3>1, <3>2 DEF Once
      <3> QED BY <1>2, <3>3
    <2> QED BY <2>1, <2>2, <2>3, <2>4
  <1>5. ToSet(s \o t) = ToSet(s) \union ToSet(t)
    <2>1. ToSet(s) = Range(s) /\ ToSet(t) = Range(t) /\ ToSet(s \o t) = Range(s \o t)
      BY DEF ToSet, Range
    <2> QED BY <2>1, RangeConcatenation
  <1> QED BY <1>1, <1>4, <1>5

\* A message that is not in a sequence yet joins it at the end.
LEMMA AppendOnce ==
  ASSUME NEW s \in Seq(Message), Once(s), NEW m \in Message, m \notin ToSet(s)
  PROVE  /\ Append(s, m) \in Seq(Message)
         /\ Once(Append(s, m))
         /\ ToSet(Append(s, m)) = ToSet(s) \union {m}
  <1>1. /\ Append(s, m) \in Seq(Message) /\ Len(s) \in Nat
        /\ Len(Append(s, m)) = Len(s) + 1
        /\ \A i \in 1 .. Len(s) : Append(s, m)[i] = s[i] /\ s[i] \in ToSet(s)
        /\ Append(s, m)[Len(s) + 1] = m
    BY AppendProperties DEF ToSet
  <1>2. Once(Append(s, m))
    BY <1>1 DEF Once
  <1>3. 1 .. Len(s) + 1 = (1 .. Len(s)) \union {Len(s) + 1}
    BY <1>1
  <1>4. ToSet(Append(s, m)) = {Append(s, m)[i] : i \in 1 .. Len(s) + 1}
        /\ ToSet(s) = {s[i] : i \in 1 .. Len(s)}
    BY <1>1 DEF ToSet
  <1> QED BY <1>1, <1>2, <1>3, <1>4

\* A message that is new to the connection goes to one place.
LEMMA PlaceSend ==
  ASSUME PlaceInv, NEW m \in Message, SendMessage(m)
  PROVE  PlaceInv'
  <1>1. /\ m \notin ToSet(asked) /\ ToSet(asked') = ToSet(asked) \union {m}
        /\ now' = now /\ asked' \in Seq(Message) /\ Once(asked')
    BY AppendOnce DEF SendMessage, PlaceInv
  <1>2. /\ m \notin Buffered /\ m \notin ToSet(sent)
        /\ m \notin dropped /\ m \notin lost
    BY <1>1 DEF PlaceInv
  <1>3. CASE ws = 0 /\ HasRoom
    <2> DEFINE e == [message |-> m, timestamp |-> now]
    <2>1. /\ buffer' = Append(buffer, e)
          /\ UNCHANGED <<sent, dropped, lost>>
      BY <1>3 DEF SendMessage, wireVars
    <2>2. e \in Entry /\ e.message = m
      BY DEF PlaceInv, Entry
    <2> HIDE DEF e
    <2>3. /\ buffer' \in Seq(Entry)
          /\ Len(buffer') = Len(buffer) + 1 /\ Len(buffer) \in Nat
          /\ \A i \in 1 .. Len(buffer) : buffer'[i] = buffer[i]
          /\ buffer'[Len(buffer) + 1] = e
      BY <2>1, <2>2, AppendProperties DEF PlaceInv
    <2>4. \A i \in 1 .. Len(buffer) : buffer[i].message # m
      BY <1>2, BufferedBy DEF PlaceInv
    <2>5. \A i, k \in 1 .. Len(buffer') :
            buffer'[i].message = buffer'[k].message => i = k
      BY <2>2, <2>3, <2>4 DEF PlaceInv
    <2>6. Buffered' = Buffered \union {m}
      <3>1. Buffered' = {buffer'[i].message : i \in 1 .. Len(buffer')}
        BY <2>3 DEF Buffered, ToSet
      <3>2. Buffered = {buffer[i].message : i \in 1 .. Len(buffer)}
        BY BufferedBy DEF PlaceInv
      <3>3. 1 .. Len(buffer') = (1 .. Len(buffer)) \union {Len(buffer) + 1}
        BY <2>3
      <3> QED BY <2>2, <2>3, <3>1, <3>2, <3>3
    <2> QED BY <1>1, <1>2, <2>1, <2>3, <2>5, <2>6 DEF PlaceInv, Once
  <1>4. CASE ws = 0 /\ ~HasRoom
    <2>1. /\ dropped' = dropped \union {m}
          /\ UNCHANGED <<buffer, sent, lost>>
      BY <1>4 DEF SendMessage, wireVars
    <2> QED BY <1>1, <1>2, <2>1 DEF PlaceInv, Once, Buffered
  <1>5. CASE ws # 0 /\ chain[ws] = "open"
    <2>1. /\ sent' = sent \o <<m>>
          /\ UNCHANGED <<buffer, dropped, lost>>
      BY <1>5 DEF SendMessage, Transmit, bufferVars
    <2>2. <<m>> \in Seq(Message) /\ Once(<<m>>) /\ ToSet(<<m>>) = {m}
      BY DEF Once, ToSet
    <2>3. sent' \in Seq(Message) /\ Once(sent') /\ ToSet(sent') = ToSet(sent) \union {m}
      <3>1. ToSet(sent) \intersect ToSet(<<m>>) = {}
        BY <1>2, <2>2
      <3>2. sent \in Seq(Message) /\ Once(sent)
        BY DEF PlaceInv
      <3> QED BY <2>1, <2>2, <3>1, <3>2, WireGrows
    <2> QED BY <1>1, <1>2, <2>1, <2>3 DEF PlaceInv, Once, Buffered
  <1>6. CASE ws # 0 /\ chain[ws] # "open"
    <2>1. /\ lost' = lost \union {m}
          /\ UNCHANGED <<buffer, dropped, sent>>
      BY <1>6 DEF SendMessage, Transmit, bufferVars, ToSet
    <2>2. Buffered' = Buffered
      BY <2>1 DEF Buffered
    <2> QED BY <1>1, <1>2, <2>1, <2>2 DEF PlaceInv
  <1> QED BY <1>3, <1>4, <1>5, <1>6

\* The timer leaves every message of the buffer in one other place.
LEMMA PlaceTimer ==
  ASSUME PlaceInv, TimerFired
  PROVE  PlaceInv'
  <1>1. CASE ws = 0
    BY <1>1 DEF TimerFired, PlaceInv, Once, Buffered, wireVars
  <1>2. CASE ws # 0
    <2>1. /\ buffer' = <<>> /\ UNCHANGED <<now, asked>>
          /\ dropped' = dropped \union (Buffered \ ToSet(Flush))
          /\ Transmit(Flush)
      BY <1>2 DEF TimerFired, EmptyBuffer
    <2>2. /\ Flush \in Seq(Message) /\ Once(Flush)
          /\ ToSet(Flush) \subseteq Buffered
      BY FlushOnce
    <2>3. /\ buffer' \in Seq(Entry) /\ Len(buffer') = 0 /\ Buffered' = {}
      BY <2>1 DEF Buffered, ToSet
    <2>4. CASE chain[ws] = "open"
      <3>1. sent' = sent \o Flush /\ lost' = lost
        BY <2>1, <2>4 DEF Transmit
      <3>2. /\ sent' \in Seq(Message) /\ Once(sent')
            /\ ToSet(sent') = ToSet(sent) \union ToSet(Flush)
        <4>1. ToSet(sent) \intersect ToSet(Flush) = {}
          BY <2>2 DEF PlaceInv
        <4> QED BY <2>2, <3>1, <4>1, WireGrows DEF PlaceInv
      <3> QED BY <2>1, <2>2, <2>3, <3>1, <3>2 DEF PlaceInv, Once
    <2>5. CASE chain[ws] # "open"
      <3>1. sent' = sent /\ lost' = lost \union ToSet(Flush)
        BY <2>1, <2>5 DEF Transmit
      <3> QED BY <2>1, <2>2, <2>3, <3>1 DEF PlaceInv, Once
    <2> QED BY <2>4, <2>5
  <1> QED BY <1>1, <1>2

\* No other step moves a message.
LEMMA PlaceStep ==
  ASSUME PlaceInv, [Next]_vars
  PROVE  PlaceInv'
  <1>1. ASSUME UNCHANGED <<buffer, sent, asked, dropped, lost>>, now' \in Nat
        PROVE  PlaceInv'
    BY <1>1 DEF PlaceInv, Once, Buffered
  <1>2. CASE Connect
    BY <1>1, <1>2 DEF Connect, PlaceInv, bufferVars, wireVars
  <1>3. ASSUME NEW n \in Chain, Opened(n) \/ Failed(n) \/ Retry(n) \/ Broken(n)
        PROVE  PlaceInv'
    BY <1>1, <1>3 DEF Opened, Failed, Retry, Broken, PlaceInv, bufferVars, wireVars
  <1>4. ASSUME NEW m \in Message, Response(m) \/ NoResponse(m)
        PROVE  PlaceInv'
    BY <1>1, <1>4 DEF Response, NoResponse, PlaceInv, bufferVars, wireVars
  <1>5. CASE Tick \/ UNCHANGED vars
    BY <1>1, <1>5 DEF Tick, vars, PlaceInv, bufferVars, wireVars
  <1> QED BY <1>2, <1>3, <1>4, <1>5, PlaceSend, PlaceTimer DEF Next

\* The places hold their messages in every state.
THEOREM Places == Spec => []PlaceInv
  <1>1. Init => PlaceInv
    <2> SUFFICES ASSUME Init
                 PROVE  PlaceInv
      OBVIOUS
    <2>1. /\ now = 0 /\ buffer = <<>> /\ sent = <<>>
          /\ asked = <<>> /\ dropped = {} /\ lost = {}
      BY DEF Init
    <2>2. Buffered = {} /\ ToSet(sent) = {} /\ ToSet(asked) = {}
      BY <2>1 DEF Buffered, ToSet
    <2> QED BY <2>1, <2>2, FS_EmptySet DEF PlaceInv, Once
  <1>2. PlaceInv /\ [Next]_vars => PlaceInv'
    BY PlaceStep
  <1> QED BY <1>1, <1>2, PTL DEF Spec

\* A sequence without repetition is as long as it has elements.
LEMMA OnceLen ==
  ASSUME NEW s \in Seq(Message), Once(s)
  PROVE  IsFiniteSet(ToSet(s)) /\ Cardinality(ToSet(s)) = Len(s)
  <1>1. Len(s) \in Nat /\ s \in [1 .. Len(s) -> ToSet(s)]
    BY DEF ToSet
  <1>2. s \in Bijection(1 .. Len(s), ToSet(s))
    BY <1>1 DEF Once, ToSet, Bijection, Injection, Surjection, IsInjective
  <1>3. ExistsBijection(1 .. Len(s), ToSet(s))
    BY <1>2 DEF ExistsBijection
  <1> QED BY <1>1, <1>3, FS_NatBijection, FS_CountingElements

\* Two disjoint finite sets have as many elements as both together.
LEMMA DisjointUnion ==
  ASSUME NEW S, NEW T, IsFiniteSet(S), IsFiniteSet(T), S \intersect T = {}
  PROVE  /\ IsFiniteSet(S \union T)
         /\ Cardinality(S \union T) = Cardinality(S) + Cardinality(T)
  BY FS_Union, FS_EmptySet, FS_CardinalityType

\* Every message that was given to the connection is in exactly one place, and on
\* the wire at most once.
THEOREM ConnectionAccounted == Spec => []Accounted
  <1>1. ASSUME PlaceInv
        PROVE  Accounted
    <2> DEFINE ms == [i \in 1 .. Len(buffer) |-> buffer[i].message]
    <2>1. /\ ToSet(asked) = Buffered \union ToSet(sent) \union dropped \union lost
          /\ IsFiniteSet(ToSet(asked)) /\ Cardinality(ToSet(asked)) = Len(asked)
      BY <1>1, OnceLen DEF PlaceInv
    <2>2. ms \in Seq(Message) /\ Len(ms) = Len(buffer)
      <3>1. Len(buffer) \in Nat /\ \A i \in 1 .. Len(buffer) : buffer[i] \in Entry
        BY <1>1 DEF PlaceInv
      <3>2. ms \in [1 .. Len(buffer) -> Message]
        BY <3>1 DEF Entry
      <3> HIDE DEF ms
      <3> QED BY <3>1, <3>2
    <2>3. Once(ms) /\ ToSet(ms) = Buffered
      BY <1>1, <2>2, BufferedBy DEF PlaceInv, Once, ToSet
    <2> HIDE DEF ms
    <2>4. IsFiniteSet(Buffered) /\ Cardinality(Buffered) = Len(buffer)
      BY <2>2, <2>3, OnceLen
    <2>5. IsFiniteSet(ToSet(sent)) /\ Cardinality(ToSet(sent)) = Len(sent)
      BY <1>1, OnceLen DEF PlaceInv
    <2>6. IsFiniteSet(dropped) /\ IsFiniteSet(lost)
      BY <2>1, FS_Subset
    <2>7. Cardinality(dropped \union lost) = Cardinality(dropped) + Cardinality(lost)
      BY <1>1, <2>6, DisjointUnion DEF PlaceInv
    <2>8. IsFiniteSet(dropped \union lost)
      BY <2>6, FS_Union
    <2>9. /\ IsFiniteSet(ToSet(sent) \union (dropped \union lost))
          /\ Cardinality(ToSet(sent) \union (dropped \union lost))
               = Len(sent) + (Cardinality(dropped) + Cardinality(lost))
      <3> DEFINE U == dropped \union lost
      <3>1. ToSet(sent) \intersect U = {}
        BY <1>1 DEF PlaceInv
      <3>2. IsFiniteSet(U) /\ Cardinality(U) = Cardinality(dropped) + Cardinality(lost)
        BY <2>7, <2>8
      <3> HIDE DEF U
      <3>3. /\ IsFiniteSet(ToSet(sent) \union U)
            /\ Cardinality(ToSet(sent) \union U) = Cardinality(ToSet(sent)) + Cardinality(U)
        BY <2>5, <3>1, <3>2, DisjointUnion
      <3> QED BY <2>5, <3>2, <3>3 DEF U
    <2>10. Cardinality(Buffered \union (ToSet(sent) \union (dropped \union lost)))
             = Len(buffer) + (Len(sent) + (Cardinality(dropped) + Cardinality(lost)))
      <3>1. Buffered \intersect (ToSet(sent) \union (dropped \union lost)) = {}
        BY <1>1 DEF PlaceInv
      <3> DEFINE U == ToSet(sent) \union (dropped \union lost)
      <3>2. IsFiniteSet(U) /\ Buffered \intersect U = {}
        BY <2>9, <3>1
      <3> HIDE DEF U
      <3>3. Cardinality(Buffered \union U) = Cardinality(Buffered) + Cardinality(U)
        BY <2>4, <3>2, DisjointUnion
      <3> QED BY <2>4, <2>9, <3>3 DEF U
    <2>11. ToSet(asked) = Buffered \union (ToSet(sent) \union (dropped \union lost))
      BY <2>1
    <2>12. /\ Len(buffer) \in Nat /\ Len(sent) \in Nat
           /\ Cardinality(dropped) \in Nat /\ Cardinality(lost) \in Nat
      BY <1>1, <2>6, FS_CardinalityType DEF PlaceInv
    <2>13. Len(asked) =
             Len(buffer) + Len(sent) + Cardinality(dropped) + Cardinality(lost)
      <3>1. Len(asked)
              = Len(buffer) + (Len(sent) + (Cardinality(dropped) + Cardinality(lost)))
        BY <2>1, <2>10, <2>11
      <3> QED BY <2>12, <3>1
    <2> QED BY <2>1, <2>13 DEF Accounted
  <1> QED BY <1>1, Places, PTL

-----------------------------------------------------------------------------
(* The order in which messages leave.                                      *)

\* As long as something is buffered, everything on the wire overtook it; the
\* buffer is in the order of the calls, and what overtook it is not in it.
OrderInv ==
  /\ hurried \subseteq ToSet(sent) \union lost
  /\ buffer # <<>> => ToSet(sent) \subseteq hurried
  /\ \A i, k \in 1 .. Len(buffer) :
       i < k => Before(asked, buffer[i].message, buffer[k].message)
  /\ OnlyBufferedOvertaken

\* Another call comes after all earlier ones and leaves their order.
LEMMA BeforeGrows ==
  ASSUME asked \in Seq(Message), NEW m \in Message, asked' = Append(asked, m)
  PROVE  /\ \A x, y \in Message : Before(asked, x, y) => Before(asked', x, y)
         /\ \A x \in ToSet(asked) : Before(asked', x, m)
  <1>1. /\ Len(asked') = Len(asked) + 1 /\ Len(asked) \in Nat
        /\ \A i \in 1 .. Len(asked) : asked'[i] = asked[i]
        /\ asked'[Len(asked) + 1] = m
    BY AppendProperties
  <1>2. ASSUME NEW x \in Message, NEW y \in Message, Before(asked, x, y)
        PROVE  Before(asked', x, y)
    <2>1. PICK i \in 1 .. Len(asked), k \in 1 .. Len(asked) :
            i < k /\ asked[i] = x /\ asked[k] = y
      BY <1>2 DEF Before
    <2>2. /\ i \in 1 .. Len(asked') /\ k \in 1 .. Len(asked')
          /\ asked'[i] = x /\ asked'[k] = y
      BY <1>1, <2>1
    <2> QED BY <2>1, <2>2 DEF Before
  <1>3. ASSUME NEW x \in ToSet(asked)
        PROVE  Before(asked', x, m)
    <2>1. PICK i \in 1 .. Len(asked) : asked[i] = x
      BY DEF ToSet
    <2>2. /\ i \in 1 .. Len(asked') /\ Len(asked) + 1 \in 1 .. Len(asked')
          /\ asked'[i] = x /\ i < Len(asked) + 1
      BY <1>1, <2>1
    <2> QED BY <1>1, <2>2 DEF Before
  <1> QED BY <1>2, <1>3

\* A flush is in the order of the buffer.
LEMMA FlushKeepsOrder ==
  ASSUME PlaceInv, OrderInv
  PROVE  \A i, k \in 1 .. Len(Flush) : i < k => Before(asked, Flush[i], Flush[k])
  <1> DEFINE c == Cardinality(Kept)
             f == InOrder(Kept)
  <1>1. Len(buffer) \in Nat /\ Kept \in SUBSET (1 .. Len(buffer))
    BY DEF PlaceInv, Kept
  <1>2. c \in Nat
    <2>1. IsFiniteSet(1 .. Len(buffer))
      BY <1>1, FS_Interval
    <2> QED BY <1>1, <2>1, FS_Subset, FS_CardinalityType
  <1>3. /\ f \in [1 .. c -> 1 .. Len(buffer)]
        /\ \A i, k \in 1 .. c : i < k => f[i] < f[k]
    BY <1>1, InOrderIsOrder DEF IsOrder, Increasing
  <1> HIDE DEF c, f
  <1>4. Flush = [i \in 1 .. c |-> buffer[f[i]].message] /\ Len(Flush) = c
    BY <1>2, FlushOnce DEF Flush, c, f
  <1> SUFFICES ASSUME NEW i \in 1 .. c, NEW k \in 1 .. c, i < k
               PROVE  Before(asked, Flush[i], Flush[k])
    BY <1>4
  <1>5. /\ f[i] \in 1 .. Len(buffer) /\ f[k] \in 1 .. Len(buffer) /\ f[i] < f[k]
        /\ Flush[i] = buffer[f[i]].message /\ Flush[k] = buffer[f[k]].message
    BY <1>3, <1>4
  <1> QED BY <1>5 DEF OrderInv

\* The places i and k of s \o t: both in s, one in each, or both in t.
Joined(s, t, u, i, k) ==
  \/ /\ i \in 1 .. Len(s) /\ k \in 1 .. Len(s)
     /\ u[i] = s[i] /\ u[k] = s[k]
  \/ u[i] \in ToSet(s) /\ u[k] \in ToSet(t)
  \/ \E h, l \in 1 .. Len(t) : h < l /\ u[i] = t[h] /\ u[k] = t[l]

LEMMA JoinedPairs ==
  ASSUME NEW s \in Seq(Message), NEW t \in Seq(Message), NEW u, u = s \o t,
         NEW i \in 1 .. Len(u), NEW k \in 1 .. Len(u), i < k
  PROVE  Joined(s, t, u, i, k)
  <1>1. /\ Len(u) = Len(s) + Len(t) /\ Len(s) \in Nat /\ Len(t) \in Nat
        /\ \A j \in 1 .. Len(s) + Len(t) :
             u[j] = IF j <= Len(s) THEN s[j] ELSE t[j - Len(s)]
    BY ConcatProperties
  <1>2. CASE k <= Len(s)
    BY <1>1, <1>2 DEF Joined
  <1>3. CASE i <= Len(s) /\ ~(k <= Len(s))
    <2>1. i \in 1 .. Len(s) /\ k - Len(s) \in 1 .. Len(t)
      BY <1>1, <1>3
    <2>2. u[i] = s[i] /\ u[k] = t[k - Len(s)]
      BY <1>1, <1>3
    <2> QED BY <2>1, <2>2 DEF ToSet, Joined
  <1>4. CASE ~(i <= Len(s))
    <2>1. /\ i - Len(s) \in 1 .. Len(t) /\ k - Len(s) \in 1 .. Len(t)
          /\ i - Len(s) < k - Len(s)
      BY <1>1, <1>4
    <2>2. u[i] = t[i - Len(s)] /\ u[k] = t[k - Len(s)]
      BY <1>1, <1>4
    <2> QED BY <2>1, <2>2 DEF Joined
  <1> QED BY <1>1, <1>2, <1>3, <1>4

\* A new message joins the end of the buffer, goes straight to the wire behind
\* everything that left before, or is dropped or lost.
LEMMA OrderSend ==
  ASSUME RetryInv, PlaceInv, OrderInv, NEW m \in Message, SendMessage(m)
  PROVE  OrderInv'
  <1>1. asked' = Append(asked, m) /\ m \notin ToSet(asked)
    BY DEF SendMessage
  <1>2. /\ \A x, y \in Message : Before(asked, x, y) => Before(asked', x, y)
        /\ \A x \in ToSet(asked) : Before(asked', x, m)
    BY <1>1, BeforeGrows DEF PlaceInv
  <1>3. m \notin ToSet(sent) /\ m \notin hurried /\ ToSet(sent) \subseteq ToSet(asked)
    BY <1>1 DEF PlaceInv, OrderInv
  <1>4. /\ \A i \in 1 .. Len(sent) : sent[i] \in ToSet(sent) /\ sent[i] \in Message
        /\ \A i \in 1 .. Len(buffer) : buffer[i].message \in Message
    <2>1. sent \in Seq(Message) /\ buffer \in Seq(Entry)
      BY DEF PlaceInv
    <2>2. \A i \in 1 .. Len(sent) : sent[i] \in ToSet(sent) /\ sent[i] \in Message
      BY <2>1 DEF ToSet
    <2>3. \A i \in 1 .. Len(buffer) : buffer[i].message \in Message
      <3> TAKE i \in 1 .. Len(buffer)
      <3>1. buffer[i] \in Entry
        BY <2>1
      <3> QED BY <3>1 DEF Entry
    <2> QED BY <2>2, <2>3
  <1>5. CASE ws = 0
    <2>1. sent = <<>> /\ UNCHANGED <<sent, lost, hurried>>
      BY <1>5 DEF RetryInv, SendMessage, wireVars
    <2>2. ToSet(sent') = {} /\ Len(sent') = 0
      BY <2>1 DEF ToSet
    <2>3. \A i, k \in 1 .. Len(buffer') :
            i < k => Before(asked', buffer'[i].message, buffer'[k].message)
      <3>1. CASE UNCHANGED buffer
        BY <1>2, <1>4, <3>1 DEF OrderInv
      <3>2. CASE buffer' = Append(buffer, [message |-> m, timestamp |-> now])
        <4> DEFINE e == [message |-> m, timestamp |-> now]
        <4>1. e \in Entry /\ e.message = m
          BY DEF PlaceInv, Entry
        <4> HIDE DEF e
        <4>2. /\ Len(buffer') = Len(buffer) + 1 /\ Len(buffer) \in Nat
              /\ \A i \in 1 .. Len(buffer) : buffer'[i] = buffer[i]
              /\ buffer'[Len(buffer) + 1] = e
          BY <3>2, <4>1, AppendProperties DEF PlaceInv, e
        <4>3. \A i \in 1 .. Len(buffer) : buffer[i].message \in ToSet(asked)
          BY BufferedBy DEF PlaceInv
        <4> SUFFICES ASSUME NEW i \in 1 .. Len(buffer'), NEW k \in 1 .. Len(buffer'),
                            i < k
                     PROVE  Before(asked', buffer'[i].message, buffer'[k].message)
          OBVIOUS
        <4>4. CASE k = Len(buffer) + 1
          <5>1. i \in 1 .. Len(buffer) /\ buffer'[k].message = m
            BY <4>1, <4>2, <4>4
          <5> QED BY <1>2, <4>2, <4>3, <5>1
        <4>5. CASE k # Len(buffer) + 1
          <5>1. i \in 1 .. Len(buffer) /\ k \in 1 .. Len(buffer)
            BY <4>2, <4>5
          <5> QED BY <1>2, <1>4, <4>2, <5>1 DEF OrderInv
        <4> QED BY <4>4, <4>5
      <3> QED BY <1>5, <3>1, <3>2 DEF SendMessage
    <2> QED BY <2>1, <2>2, <2>3 DEF OrderInv, OnlyBufferedOvertaken
  <1>6. CASE ws # 0
    <2>1. /\ UNCHANGED buffer /\ Transmit(<<m>>)
          /\ hurried' = IF buffer = <<>> THEN hurried ELSE hurried \union {m}
      BY <1>6 DEF SendMessage, bufferVars
    <2>2. \A i, k \in 1 .. Len(buffer') :
            i < k => Before(asked', buffer'[i].message, buffer'[k].message)
      BY <1>2, <1>4, <2>1 DEF OrderInv
    <2>3. \A i, k \in 1 .. Len(sent) :
            i < k => \/ Before(asked', sent[i], sent[k])
                     \/ sent[i] \in hurried' /\ sent[k] \notin hurried'
      BY <1>2, <1>3, <1>4, <2>1 DEF OrderInv, OnlyBufferedOvertaken
    <2>4. CASE chain[ws] = "open"
      <3>1. sent' = sent \o <<m>> /\ lost' = lost
        BY <2>1, <2>4 DEF Transmit
      <3>2. <<m>> \in Seq(Message) /\ Once(<<m>>) /\ ToSet(<<m>>) = {m} /\ Len(<<m>>) = 1
        BY DEF Once, ToSet
      <3>3. ToSet(sent') = ToSet(sent) \union {m}
        <4>1. ToSet(sent) \intersect ToSet(<<m>>) = {}
          BY <1>3, <3>2
        <4>2. sent \in Seq(Message) /\ Once(sent)
          BY DEF PlaceInv
        <4> QED BY <3>1, <3>2, <4>1, <4>2, WireGrows
      <3>4. ASSUME NEW i \in 1 .. Len(sent'), NEW k \in 1 .. Len(sent'), i < k
            PROVE  \/ Before(asked', sent'[i], sent'[k])
                   \/ sent'[i] \in hurried' /\ sent'[k] \notin hurried'
        <4>1. \/ /\ i \in 1 .. Len(sent) /\ k \in 1 .. Len(sent)
                 /\ sent'[i] = sent[i] /\ sent'[k] = sent[k]
              \/ sent'[i] \in ToSet(sent) /\ sent'[k] \in {m}
              \/ \E h, l \in 1 .. Len(<<m>>) :
                   h < l /\ sent'[i] = <<m>>[h] /\ sent'[k] = <<m>>[l]
          <5>1. sent \in Seq(Message)
            BY DEF PlaceInv
          <5>2. PICK t \in Seq(Message) : t = <<m>>
            BY <3>2
          <5>3. sent' = sent \o t /\ ToSet(t) = {m}
            BY <3>1, <3>2, <5>2
          <5>4. Joined(sent, t, sent', i, k)
            BY <3>4, <5>1, <5>3, JoinedPairs
          <5> QED BY <5>2, <5>3, <5>4 DEF Joined
        <4>2. ~\E h, l \in 1 .. Len(<<m>>) : h < l
          BY <3>2
        <4> QED BY <1>2, <1>3, <2>3, <3>4, <4>1, <4>2
      <3> QED BY <2>1, <2>2, <3>1, <3>3, <3>4 DEF OrderInv, OnlyBufferedOvertaken
    <2>5. CASE chain[ws] # "open"
      <3>1. sent' = sent /\ lost' = lost \union {m}
        BY <2>1, <2>5 DEF Transmit, ToSet
      <3> QED BY <2>1, <2>2, <2>3, <3>1 DEF OrderInv, OnlyBufferedOvertaken
    <2> QED BY <2>4, <2>5
  <1> QED BY <1>5, <1>6

\* The timer puts the buffer behind what overtook it.
LEMMA OrderTimer ==
  ASSUME PlaceInv, OrderInv, TimerFired
  PROVE  OrderInv'
  <1>1. asked' = asked
    BY DEF TimerFired
  <1>2. CASE ws = 0
    BY <1>1, <1>2 DEF TimerFired, wireVars, OrderInv, OnlyBufferedOvertaken
  <1>3. CASE ws # 0
    <2>1. /\ buffer' = <<>> /\ hurried' = hurried /\ Transmit(Flush)
      BY <1>3 DEF TimerFired, EmptyBuffer
    <2>2. Len(buffer') = 0 /\ 1 .. Len(buffer') = {}
      BY <2>1
    <2>3. CASE chain[ws] = "open"
      <3>1. sent' = sent \o Flush /\ lost' = lost
        BY <2>1, <2>3 DEF Transmit
      <3>2. /\ Flush \in Seq(Message) /\ Once(Flush) /\ ToSet(Flush) \subseteq Buffered
            /\ sent \in Seq(Message) /\ Once(sent)
        BY FlushOnce DEF PlaceInv
      <3>3. ToSet(sent') = ToSet(sent) \union ToSet(Flush)
        <4>1. ToSet(sent) \intersect ToSet(Flush) = {}
          BY <3>2 DEF PlaceInv
        <4> QED BY <3>1, <3>2, <4>1, WireGrows
      <3>4. ASSUME NEW x \in ToSet(Flush)
            PROVE  x \notin hurried /\ buffer # <<>>
        <4>1. x \in Buffered
          BY <3>2
        <4>2. x \notin ToSet(sent) \union lost
          BY <4>1 DEF PlaceInv
        <4>3. buffer # <<>>
          BY <4>1 DEF Buffered, ToSet
        <4> QED BY <4>2, <4>3 DEF OrderInv
      <3>5. ASSUME NEW i \in 1 .. Len(sent'), NEW k \in 1 .. Len(sent'), i < k
            PROVE  \/ Before(asked, sent'[i], sent'[k])
                   \/ sent'[i] \in hurried /\ sent'[k] \notin hurried
        <4>1. \/ /\ i \in 1 .. Len(sent) /\ k \in 1 .. Len(sent)
                 /\ sent'[i] = sent[i] /\ sent'[k] = sent[k]
              \/ sent'[i] \in ToSet(sent) /\ sent'[k] \in ToSet(Flush)
              \/ \E h, l \in 1 .. Len(Flush) :
                   h < l /\ sent'[i] = Flush[h] /\ sent'[k] = Flush[l]
          <5>1. PICK t \in Seq(Message) : t = Flush
            BY <3>2
          <5>2. sent' = sent \o t
            BY <3>1, <5>1
          <5>3. Joined(sent, t, sent', i, k)
            BY <3>2, <3>5, <5>2, JoinedPairs
          <5> QED BY <5>1, <5>3 DEF Joined
        <4>2. CASE /\ i \in 1 .. Len(sent) /\ k \in 1 .. Len(sent)
                   /\ sent'[i] = sent[i] /\ sent'[k] = sent[k]
          BY <3>5, <4>2 DEF OrderInv, OnlyBufferedOvertaken
        <4>3. CASE sent'[i] \in ToSet(sent) /\ sent'[k] \in ToSet(Flush)
          BY <3>4, <4>3 DEF OrderInv
        <4>4. CASE \E h, l \in 1 .. Len(Flush) :
                     h < l /\ sent'[i] = Flush[h] /\ sent'[k] = Flush[l]
          BY <4>4, FlushKeepsOrder
        <4> QED BY <4>1, <4>2, <4>3, <4>4
      <3> QED BY <1>1, <2>1, <2>2, <3>1, <3>3, <3>5 DEF OrderInv, OnlyBufferedOvertaken
    <2>4. CASE chain[ws] # "open"
      <3>1. sent' = sent /\ lost' = lost \union ToSet(Flush)
        BY <2>1, <2>4 DEF Transmit
      <3> QED BY <1>1, <2>1, <2>2, <3>1 DEF OrderInv, OnlyBufferedOvertaken
    <2> QED BY <2>3, <2>4
  <1> QED BY <1>2, <1>3

\* Messages leave in the order of the calls, but for those that overtook the
\* buffer before its timer came.
THEOREM ConnectionOnlyBufferedOvertaken == Spec => []OnlyBufferedOvertaken
  <1>1. Init => RetryInv /\ OrderInv
    <2> SUFFICES ASSUME Init
                 PROVE  RetryInv /\ OrderInv
      OBVIOUS
    <2>1. sent = <<>> /\ buffer = <<>> /\ hurried = {}
      BY DEF Init
    <2>2. RetryInv
      BY ConnectionAssumption DEF Init, RetryInv
    <2> QED BY <2>1, <2>2 DEF OrderInv, OnlyBufferedOvertaken
  <1>2. ASSUME RetryInv, PlaceInv, OrderInv, [Next]_vars
        PROVE  OrderInv'
    <2>1. ASSUME UNCHANGED <<buffer, wireVars, asked>>
          PROVE  OrderInv'
      BY <1>2, <2>1 DEF wireVars, OrderInv, OnlyBufferedOvertaken, Before
    <2>2. CASE Connect \/ Tick \/ UNCHANGED vars
      BY <2>1, <2>2 DEF Connect, Tick, vars, bufferVars
    <2>3. ASSUME NEW n \in Chain, Opened(n) \/ Failed(n) \/ Retry(n) \/ Broken(n)
          PROVE  OrderInv'
      BY <2>1, <2>3 DEF Opened, Failed, Retry, Broken, bufferVars
    <2>4. ASSUME NEW m \in Message, Response(m) \/ NoResponse(m)
          PROVE  OrderInv'
      BY <2>1, <2>4 DEF Response, NoResponse, bufferVars
    <2> QED BY <1>2, <2>2, <2>3, <2>4, OrderSend, OrderTimer DEF Next
  <1>3. IInv /\ RetryInv /\ [Next]_vars => RetryInv'
    BY RetryInvStep
  <1>4. OrderInv => OnlyBufferedOvertaken
    BY DEF OrderInv
  <1> QED BY <1>1, <1>2, <1>3, <1>4, Invariance, Places, PTL DEF Spec
=============================================================================
