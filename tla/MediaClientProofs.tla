------------------------- MODULE MediaClientProofs -------------------------
(***************************************************************************)
(* Theorems about MediaClient, for any consumers and participants.         *)
(***************************************************************************)
EXTENDS MediaClient, FiniteSetTheorems, SequenceTheorems, TLAPS

Sent == {"get-router-capabilities-request", "client-rtp-capabilities",
         "create-transport-producing", "create-transport-consuming",
         "join-call-request"}

Incoming == ({"answer"} \X (Sent \ {"client-rtp-capabilities"}))
              \union ({"created", "closed"} \X Consumer)

TypeInv ==
  /\ added \in BOOLEAN /\ announcing \in BOOLEAN
  /\ srv \in [Consumer -> {"none", "live", "gone"}]
  /\ outbox \in Seq(Sent)
  /\ inbox \in Seq(Incoming)
  /\ answers \subseteq TransportAnswers
  /\ rcv \in BOOLEAN /\ listening \in BOOLEAN
  /\ consuming \in Seq(Consumer)
  /\ streams \in [Remote -> SUBSET Consumer]
  /\ trackId \in [Remote -> [Kind -> Consumer \union {NoTrack}]]
  /\ known \subseteq Consumer /\ missed \subseteq Consumer
  /\ ghosts \subseteq Consumer /\ failed \subseteq Consumer

\* Only so many consumers were announced.
FiniteInv == IsFiniteSet(Live)

-----------------------------------------------------------------------------
(* Queues.                                                                 *)

\* The rest of a queue
LEMMA Rest ==
  ASSUME NEW S, NEW q \in Seq(S), q # <<>>
  PROVE  /\ Len(q) \in Nat \ {0} /\ Head(q) = q[1] /\ q[1] \in S
         /\ Tail(q) \in Seq(S) /\ Len(Tail(q)) = Len(q) - 1
         /\ \A i \in 1 .. Len(q) - 1 : Tail(q)[i] = q[i + 1]
  <1>1. Len(q) \in Nat \ {0}
    BY EmptySeq
  <1>2. /\ Tail(q) \in Seq(S) /\ Len(Tail(q)) = Len(q) - 1
        /\ \A i \in 1 .. Len(Tail(q)) : Tail(q)[i] = q[i + 1]
    BY HeadTailProperties
  <1> QED BY <1>1, <1>2

\* One more element is a queue of one more.
LEMMA OneMore ==
  ASSUME NEW S, NEW q \in Seq(S), NEW m \in S
  PROVE  Append(q, m) = q \o <<m>> /\ <<m>> \in Seq(S) /\ Len(<<m>>) = 1 /\ <<m>>[1] = m
  <1>1. <<m>> \in Seq(S) /\ Len(<<m>>) = 1 /\ <<m>>[1] = m
    OBVIOUS
  <1>2. /\ q \o <<m>> \in Seq(S) /\ Len(q \o <<m>>) = Len(q) + 1
        /\ \A i \in 1 .. Len(q) + 1 :
             (q \o <<m>>)[i] = IF i <= Len(q) THEN q[i] ELSE <<m>>[i - Len(q)]
    BY <1>1, ConcatProperties
  <1>3. /\ Append(q, m) \in Seq(S) /\ Len(Append(q, m)) = Len(q) + 1
        /\ \A i \in 1 .. Len(q) : Append(q, m)[i] = q[i]
        /\ Append(q, m)[Len(q) + 1] = m
    BY AppendProperties
  <1>4. Len(q) \in Nat
    OBVIOUS
  <1>5. \A i \in 1 .. Len(q) + 1 : Append(q, m)[i] = (q \o <<m>>)[i]
    BY <1>1, <1>2, <1>3, <1>4
  <1> QED BY <1>1, <1>2, <1>3, <1>5, SeqEqual

\* The elements of w are those of q and then those of r.
IsJoin(w, q, r) ==
  /\ Len(q) \in Nat /\ Len(r) \in Nat /\ Len(w) = Len(q) + Len(r)
  /\ \A i \in 1 .. Len(q) : w[i] = q[i]
  /\ \A i \in 1 .. Len(r) : w[Len(q) + i] = r[i]
  /\ \A i \in 1 .. Len(w) : i \in 1 .. Len(q) \/ \E j \in 1 .. Len(r) : i = Len(q) + j

\* Two joined queues
LEMMA Joined ==
  ASSUME NEW S, NEW q \in Seq(S), NEW r \in Seq(S)
  PROVE  q \o r \in Seq(S) /\ IsJoin(q \o r, q, r)
  <1>1. /\ q \o r \in Seq(S) /\ Len(q \o r) = Len(q) + Len(r)
        /\ \A i \in 1 .. Len(q) + Len(r) :
             (q \o r)[i] = IF i <= Len(q) THEN q[i] ELSE r[i - Len(q)]
    BY ConcatProperties
  <1>2. Len(q) \in Nat /\ Len(r) \in Nat
    OBVIOUS
  <1>3. \A i \in 1 .. Len(q) : (q \o r)[i] = q[i]
    BY <1>1, <1>2
  <1>4. ASSUME NEW i \in 1 .. Len(r)
        PROVE  (q \o r)[Len(q) + i] = r[i]
    <2>1. Len(q) + i \in 1 .. Len(q) + Len(r) /\ ~(Len(q) + i <= Len(q))
          /\ (Len(q) + i) - Len(q) = i
      BY <1>2
    <2> QED BY <1>1, <2>1
  <1>5. ASSUME NEW i \in 1 .. Len(q \o r), i \notin 1 .. Len(q)
        PROVE  \E j \in 1 .. Len(r) : i = Len(q) + j
    <2>1. i - Len(q) \in 1 .. Len(r) /\ i = Len(q) + (i - Len(q))
      BY <1>1, <1>2, <1>5
    <2> QED BY <2>1
  <1> QED BY <1>1, <1>2, <1>3, <1>4, <1>5 DEF IsJoin

\* The announcements the SFU sends when the consumers K close
LEMMA ClosedNotes ==
  ASSUME TypeInv, FiniteInv, NEW K \in SUBSET Live
  PROVE  LET s == SetToSeq({"closed"} \X K)
         IN /\ s \in Seq({"closed"} \X K)
            /\ \A i, j \in 1 .. Len(s) : s[i] = s[j] => i = j
            /\ \A k \in K : \E i \in 1 .. Len(s) : s[i] = <<"closed", k>>
  <1> DEFINE N == {"closed"} \X K
             c == Cardinality(N)
             s == SetToSeq(N)
  <1>1. IsFiniteSet(N)
    <2>1. IsFiniteSet(K)
      BY FS_Subset DEF FiniteInv
    <2> QED BY <2>1, FS_Singleton, FS_Product
  <1> HIDE DEF N
  <1>2. c \in Nat /\ ExistsBijection(1 .. c, N)
    BY <1>1, FS_CardinalityType
  <1>3. PICK f : f \in Bijection(1 .. c, N)
    BY <1>2 DEF ExistsBijection
  <1>4. f \in [1 .. c -> N] /\ IsInjective(f)
    BY <1>3 DEF Bijection, Injection
  <1>5. s \in [1 .. c -> N] /\ IsInjective(s)
    BY <1>4 DEF SetToSeq
  <1>6. s \in Surjection(1 .. c, N)
    <2>1. s \in Injection(1 .. c, N)
      BY <1>5 DEF Injection
    <2>2. IsFiniteSet(1 .. c) /\ Cardinality(1 .. c) = c
      BY <1>2, FS_Interval
    <2> QED BY <1>1, <2>1, <2>2, FS_Injection
  <1> HIDE DEF s, c
  <1>7. s \in Seq(N) /\ Len(s) = c
    BY <1>2, <1>5
  <1>8. \A i, j \in 1 .. Len(s) : s[i] = s[j] => i = j
    BY <1>5, <1>7 DEF IsInjective
  <1>9. \A m \in N : \E i \in 1 .. Len(s) : s[i] = m
    BY <1>6, <1>7 DEF Surjection
  <1>10. \A k \in K : \E i \in 1 .. Len(s) : s[i] = <<"closed", k>>
    BY <1>9 DEF N
  <1> QED BY <1>7, <1>8, <1>10 DEF s, N

-----------------------------------------------------------------------------
(* Types.                                                                  *)

\* The heads of the two queues
LEMMA HeadTypes ==
  ASSUME TypeInv
  PROVE  /\ inbox # <<>> => inbox[1] \in Incoming /\ Head(inbox) = inbox[1]
         /\ consuming # <<>> => consuming[1] \in Consumer /\ Head(consuming) = consuming[1]
  BY Rest DEF TypeInv

\* What the browser does with a track changes one participant's entry.
LEMMA TrackStep ==
  ASSUME TypeInv, NEW k \in Consumer
  PROVE  LET p == OwnerOf[k]
             rest == streams[p] \ {k}
         IN /\ AddTrack(k) =>
                 /\ store' = store \union {p}
                 /\ streams' = [streams EXCEPT ![p] = streams[p] \union {k}]
                 /\ trackId' = [trackId EXCEPT ![p] = [trackId[p] EXCEPT ![KindOf[k]] = k]]
            /\ RemoveTrack(k) =>
                 \/ k \notin streams[p] /\ UNCHANGED <<streams, store, trackId>>
                 \/ /\ rest = {}
                    /\ streams' = [streams EXCEPT ![p] = {}]
                    /\ store' = store \ {p}
                    /\ trackId' = [trackId EXCEPT ![p] = NoIds]
                 \/ /\ rest # {}
                    /\ streams' = [streams EXCEPT ![p] = rest]
                    /\ store' = store
                    /\ trackId' = [trackId EXCEPT ![p] =
                                     [trackId[p] EXCEPT ![KindOf[k]] = NoTrack]]
  <1>1. OwnerOf[k] \in Remote /\ KindOf[k] \in Kind
    BY MediaClientAssumption
  <1>2. \A h \in Kind : \A t : [trackId EXCEPT ![OwnerOf[k]][h] = t]
                          = [trackId EXCEPT ![OwnerOf[k]] = [trackId[OwnerOf[k]] EXCEPT ![h] = t]]
    BY <1>1 DEF TypeInv
  <1>3. streams \in [Remote -> SUBSET Consumer]
    BY DEF TypeInv
  <1> QED BY <1>1, <1>2, <1>3 DEF AddTrack, Snapshot, RemoveTrack, LeavesNone, ForgetId

\* It keeps the types.
LEMMA TrackTypes ==
  ASSUME TypeInv, NEW k \in Consumer,
         AddTrack(k) \/ RemoveTrack(k) \/ UNCHANGED <<streams, store, trackId>>
  PROVE  /\ streams' \in [Remote -> SUBSET Consumer]
         /\ trackId' \in [Remote -> [Kind -> Consumer \union {NoTrack}]]
  <1>1. OwnerOf[k] \in Remote /\ KindOf[k] \in Kind
    BY MediaClientAssumption
  <1> DEFINE Ids == [Kind -> Consumer \union {NoTrack}]
  <1>2. /\ streams \in [Remote -> SUBSET Consumer] /\ trackId \in [Remote -> Ids]
        /\ trackId[OwnerOf[k]] \in Ids
    BY <1>1 DEF TypeInv
  <1>3. /\ [trackId[OwnerOf[k]] EXCEPT ![KindOf[k]] = k] \in Ids
        /\ [trackId[OwnerOf[k]] EXCEPT ![KindOf[k]] = NoTrack] \in Ids
        /\ NoIds \in Ids
    BY <1>1, <1>2 DEF NoIds
  <1> HIDE DEF Ids
  <1>4. \A ids \in Ids : [trackId EXCEPT ![OwnerOf[k]] = ids] \in [Remote -> Ids]
    BY <1>2
  <1>5. \A S \in SUBSET Consumer :
          [streams EXCEPT ![OwnerOf[k]] = S] \in [Remote -> SUBSET Consumer]
    BY <1>2
  <1>6. /\ streams[OwnerOf[k]] \union {k} \in SUBSET Consumer
        /\ streams[OwnerOf[k]] \ {k} \in SUBSET Consumer
    BY <1>1, <1>2
  <1> DEFINE o == OwnerOf[k]
  <1>7. CASE AddTrack(k)
    <2>1. /\ streams' = [streams EXCEPT ![o] = streams[o] \union {k}]
          /\ trackId' = [trackId EXCEPT ![o] = [trackId[o] EXCEPT ![KindOf[k]] = k]]
      BY <1>7, TrackStep
    <2>2. streams' \in [Remote -> SUBSET Consumer]
      BY <1>5, <1>6, <2>1
    <2>3. trackId' \in [Remote -> Ids]
      BY <1>3, <1>4, <2>1
    <2> QED BY <2>2, <2>3 DEF Ids
  <1>8. CASE RemoveTrack(k)
    <2>1. \/ streams' = streams
          \/ streams' = [streams EXCEPT ![o] = {}]
          \/ streams' = [streams EXCEPT ![o] = streams[o] \ {k}]
      BY <1>8, TrackStep
    <2>2. \/ trackId' = trackId
          \/ trackId' = [trackId EXCEPT ![o] = NoIds]
          \/ trackId' = [trackId EXCEPT ![o] = [trackId[o] EXCEPT ![KindOf[k]] = NoTrack]]
      BY <1>8, TrackStep
    <2>3. streams' \in [Remote -> SUBSET Consumer]
      BY <1>2, <1>5, <1>6, <2>1
    <2>4. trackId' \in [Remote -> Ids]
      BY <1>2, <1>3, <1>4, <2>2
    <2> QED BY <2>3, <2>4 DEF Ids
  <1> QED BY <1>2, <1>7, <1>8 DEF Ids

\* Every step keeps the types.
LEMMA TypeStep ==
  ASSUME TypeInv, FiniteInv, [Next]_vars
  PROVE  TypeInv' /\ FiniteInv'
  <1> USE MediaClientAssumption
  <1>1. CASE RoomAdd
    BY <1>1 DEF RoomAdd, TypeInv, FiniteInv, Live, connectVars, uiVars
  <1>2. CASE Serve
    <2>1. /\ Head(outbox) \in Sent /\ Tail(outbox) \in Seq(Sent)
          /\ outbox' = Tail(outbox)
      BY <1>2, Rest DEF Serve, TypeInv
    <2>2. inbox' \in Seq(Incoming)
      <3>1. CASE inbox' = inbox
        BY <3>1 DEF TypeInv
      <3>2. CASE Head(outbox) \in RequestType
                 /\ inbox' = Append(inbox, <<"answer", Head(outbox)>>)
        <4>1. <<"answer", Head(outbox)>> \in Incoming
          BY <2>1, <3>2 DEF Incoming, Sent, RequestType
        <4> QED BY <3>2, <4>1 DEF TypeInv
      <3> QED BY <1>2, <3>1, <3>2 DEF Serve
    <2>3. announcing' \in BOOLEAN
      BY <1>2 DEF Serve
    <2> QED BY <1>2, <2>1, <2>2, <2>3
            DEF Serve, TypeInv, FiniteInv, Live, connectVars, uiVars
  <1>3. ASSUME NEW k \in Consumer, Announce(k)
        PROVE  TypeInv' /\ FiniteInv'
    <2>1. <<"created", k>> \in Incoming
      BY DEF Incoming
    <2>2. Append(inbox, <<"created", k>>) \in Seq(Incoming)
      BY <2>1 DEF TypeInv
    <2>3. srv' = [srv EXCEPT ![k] = "live"]
      BY <1>3 DEF Announce
    <2>4. Live' = Live \union {k}
      BY <2>3 DEF Live, TypeInv
    <2>5. FiniteInv'
      BY <2>4, FS_AddElement DEF FiniteInv
    <2> QED BY <1>3, <2>2, <2>3, <2>5 DEF Announce, TypeInv, connectVars, uiVars
  <1>4. ASSUME NEW K \in SUBSET Live, Retract(K)
        PROVE  TypeInv' /\ FiniteInv'
    <2> DEFINE s == SetToSeq({"closed"} \X K)
    <2>1. s \in Seq({"closed"} \X K)
      BY ClosedNotes
    <2>2. inbox' = inbox \o s
      BY <1>4 DEF Retract
    <2> HIDE DEF s
    <2>3. {"closed"} \X K \subseteq Incoming
      BY DEF Incoming, Live
    <2>4. s \in Seq(Incoming)
      BY <2>1, <2>3, SeqMonotonic
    <2>5. inbox' \in Seq(Incoming)
      BY <2>2, <2>4, ConcatProperties DEF TypeInv
    <2>6. srv' = [k \in Consumer |-> IF k \in K THEN "gone" ELSE srv[k]]
      BY <1>4 DEF Retract
    <2>7. Live' \in SUBSET Live
      BY <2>6 DEF Live, TypeInv
    <2>8. FiniteInv'
      BY <2>7, FS_Subset DEF FiniteInv
    <2> QED BY <1>4, <2>5, <2>6, <2>8 DEF Retract, TypeInv, connectVars, uiVars
  <1>5. CASE Answered
    <2>1. /\ inbox # <<>> /\ inbox' = Tail(inbox) /\ Head(inbox)[1] = "answer"
          /\ UNCHANGED <<serverVars, uiVars, consuming, known, missed, ghosts, failed>>
      BY <1>5 DEF Answered, Receive
    <2>2. Tail(inbox) \in Seq(Incoming) /\ Head(inbox) \in Incoming
      BY <2>1, Rest DEF TypeInv
    <2>3. /\ answers' \subseteq TransportAnswers /\ rcv' \in BOOLEAN
          /\ outbox' \in Seq(Sent)
      <3>1. CASE Head(inbox)[2] \in TransportAnswers
        <4>1. /\ answers' = answers \union {Head(inbox)[2]} /\ rcv' = Stored(answers')
              /\ outbox' = outbox \/ outbox' = Append(outbox, "join-call-request")
          BY <1>5, <3>1 DEF Answered, TransportAnswers
        <4>2. outbox' \in Seq(Sent)
          <5>1. "join-call-request" \in Sent /\ outbox \in Seq(Sent)
            BY DEF Sent, TypeInv
          <5>2. Append(outbox, "join-call-request") \in Seq(Sent)
            BY <5>1
          <5> QED BY <4>1, <5>1, <5>2
        <4> QED BY <3>1, <4>1, <4>2 DEF TypeInv, Stored
      <3>2. CASE Head(inbox)[2] \notin TransportAnswers
        <4>1. Head(inbox)[2] \in {"get-router-capabilities-request", "join-call-request"}
          BY <2>1, <2>2, <3>2 DEF Incoming, Sent, TransportAnswers
        <4>2. UNCHANGED <<answers, rcv, outbox>>
          BY <1>5, <4>1 DEF Answered, TransportAnswers
        <4> QED BY <4>2 DEF TypeInv
      <3> QED BY <3>1, <3>2
    <2> QED BY <2>1, <2>2, <2>3 DEF TypeInv, FiniteInv, Live, serverVars, uiVars
  <1>6. CASE DeviceLoaded
    <2> DEFINE s == <<"client-rtp-capabilities", "create-transport-producing",
                      "create-transport-consuming">>
    <2>1. s \in Seq(Sent)
      BY DEF Sent
    <2>2. outbox' = outbox \o s
      BY <1>6 DEF DeviceLoaded
    <2> HIDE DEF s
    <2>3. outbox' \in Seq(Sent)
      BY <2>1, <2>2, ConcatProperties DEF TypeInv
    <2> QED BY <1>6, <2>3 DEF DeviceLoaded, TypeInv, FiniteInv, Live, serverVars, uiVars
  <1>7. CASE Rendered \/ DeviceRejected
    BY <1>7 DEF Rendered, DeviceRejected, TypeInv, FiniteInv, Live, serverVars,
                connectVars, uiVars
  <1>8. CASE ConsumerCreated
    <2>1. inbox # <<>> /\ Head(inbox) \in Incoming /\ Head(inbox)[1] = "created"
          /\ inbox' \in Seq(Incoming)
      BY <1>8, Rest DEF ConsumerCreated, Receive, TypeInv
    <2>2. Head(inbox)[2] \in Consumer
      BY <2>1 DEF Incoming
    <2>3. consuming' \in Seq(Consumer) /\ missed' \subseteq Consumer
      <3>1. Append(consuming, Head(inbox)[2]) \in Seq(Consumer)
        BY <2>2 DEF TypeInv
      <3> QED BY <1>8, <2>2, <3>1 DEF ConsumerCreated, TypeInv
    <2> QED BY <1>8, <2>1, <2>3
            DEF ConsumerCreated, TypeInv, FiniteInv, Live, serverVars, connectVars, uiVars
  <1>9. CASE ConsumerClosed
    <2>1. inbox # <<>> /\ Head(inbox) \in Incoming /\ Head(inbox)[1] = "closed"
          /\ inbox' \in Seq(Incoming)
      BY <1>9, Rest DEF ConsumerClosed, Receive, TypeInv
    <2>2. Head(inbox)[2] \in Consumer
      BY <2>1 DEF Incoming
    <2>3. /\ streams' \in [Remote -> SUBSET Consumer]
          /\ trackId' \in [Remote -> [Kind -> Consumer \union {NoTrack}]]
      BY <1>9, <2>2, TrackTypes DEF ConsumerClosed
    <2> QED BY <1>9, <2>1, <2>2, <2>3
            DEF ConsumerClosed, TypeInv, FiniteInv, Live, serverVars, connectVars
  <1>10. CASE Consumed
    <2>1. consuming # <<>> /\ Head(consuming) \in Consumer /\ consuming' \in Seq(Consumer)
      BY <1>10, Rest DEF Consumed, TypeInv
    <2>2. /\ streams' \in [Remote -> SUBSET Consumer]
          /\ trackId' \in [Remote -> [Kind -> Consumer \union {NoTrack}]]
      BY <1>10, <2>1, TrackTypes DEF Consumed
    <2> QED BY <1>10, <2>1, <2>2
            DEF Consumed, TypeInv, FiniteInv, Live, serverVars, connectVars
  <1>11. CASE ConsumeRejected
    <2>1. consuming # <<>> /\ Head(consuming) \in Consumer /\ consuming' \in Seq(Consumer)
      BY <1>11, Rest DEF ConsumeRejected, TypeInv
    <2> QED BY <1>11, <2>1
            DEF ConsumeRejected, TypeInv, FiniteInv, Live, serverVars, connectVars, uiVars
  <1>12. CASE UNCHANGED vars
    BY <1>12 DEF vars, TypeInv, FiniteInv, Live, serverVars, connectVars, uiVars
  <1> QED BY <1>1, <1>2, <1>3, <1>4, <1>5, <1>6, <1>7, <1>8, <1>9, <1>10, <1>11, <1>12
          DEF Next, Browser

\* The types hold in every state.
THEOREM Types == Spec => [](TypeInv /\ FiniteInv)
  <1>1. Init => TypeInv /\ FiniteInv
    <2> SUFFICES ASSUME Init
                 PROVE  TypeInv /\ FiniteInv
      OBVIOUS
    <2>1. outbox \in Seq(Sent) /\ inbox \in Seq(Incoming) /\ consuming \in Seq(Consumer)
      BY DEF Init, Sent
    <2>2. Live = {}
      BY DEF Init, Live
    <2> QED BY <2>1, <2>2, FS_EmptySet DEF Init, TypeInv, FiniteInv, NoIds
  <1>2. TypeInv /\ FiniteInv /\ [Next]_vars => TypeInv' /\ FiniteInv'
    BY TypeStep
  <1> QED BY <1>1, <1>2, PTL DEF Spec

-----------------------------------------------------------------------------
(* The store and the streams.                                              *)

\* A track is added to the stream, the store and the track ids at once, and
\* removed from all of them.
LEMMA StoreStep ==
  ASSUME TypeInv, StoreMatchesStreams, NEW k \in Consumer,
         AddTrack(k) \/ RemoveTrack(k) \/ UNCHANGED <<streams, store, trackId>>
  PROVE  StoreMatchesStreams'
  <1> DEFINE o == OwnerOf[k]
  <1>1. o \in Remote /\ KindOf[k] \in Kind /\ k # NoTrack
    BY MediaClientAssumption
  <1> SUFFICES ASSUME NEW p \in Remote
               PROVE  /\ p \in store' <=> streams'[p] # {}
                      /\ \A h \in Kind : trackId'[p][h] # NoTrack =>
                           trackId'[p][h] \in streams'[p] /\ KindOf[trackId'[p][h]] = h
    BY DEF StoreMatchesStreams
  <1>2. /\ p \in store <=> streams[p] # {}
        /\ \A h \in Kind : trackId[p][h] # NoTrack =>
             trackId[p][h] \in streams[p] /\ KindOf[trackId[p][h]] = h
    BY DEF StoreMatchesStreams
  <1>3. /\ streams \in [Remote -> SUBSET Consumer]
        /\ trackId \in [Remote -> [Kind -> Consumer \union {NoTrack}]]
        /\ trackId[o] \in [Kind -> Consumer \union {NoTrack}]
    BY <1>1 DEF TypeInv
  <1>4. CASE AddTrack(k)
    <2>1. /\ store' = store \union {o}
          /\ streams' = [streams EXCEPT ![o] = streams[o] \union {k}]
          /\ trackId' = [trackId EXCEPT ![o] = [trackId[o] EXCEPT ![KindOf[k]] = k]]
      BY <1>4, TrackStep
    <2> HIDE DEF o
    <2>2. CASE p = o
      BY <1>1, <1>2, <1>3, <2>1, <2>2
    <2>3. CASE p # o
      BY <1>1, <1>2, <1>3, <2>1, <2>3
    <2> QED BY <2>2, <2>3
  <1>5. CASE RemoveTrack(k)
    <2>1. \/ UNCHANGED <<streams, store, trackId>>
          \/ /\ streams' = [streams EXCEPT ![o] = {}]
             /\ store' = store \ {o}
             /\ trackId' = [trackId EXCEPT ![o] = NoIds]
          \/ /\ streams[o] \ {k} # {}
             /\ streams' = [streams EXCEPT ![o] = streams[o] \ {k}]
             /\ store' = store
             /\ trackId' = [trackId EXCEPT ![o] = [trackId[o] EXCEPT ![KindOf[k]] = NoTrack]]
      BY <1>5, TrackStep
    <2> HIDE DEF o
    <2>2. CASE p = o
      BY <1>1, <1>2, <1>3, <2>1, <2>2 DEF NoIds
    <2>3. CASE p # o
      BY <1>1, <1>2, <1>3, <2>1, <2>3
    <2> QED BY <2>2, <2>3
  <1>6. CASE UNCHANGED <<streams, store, trackId>>
    BY <1>2, <1>6
  <1> QED BY <1>4, <1>5, <1>6

\* Store and streams agree, through every order of consumers coming and going.
THEOREM MediaStoreMatchesStreams == Spec => []StoreMatchesStreams
  <1>1. Init => StoreMatchesStreams
    BY DEF Init, StoreMatchesStreams, NoIds
  <1>2. ASSUME TypeInv, StoreMatchesStreams, [Next]_vars
        PROVE  StoreMatchesStreams'
    <2>1. CASE UNCHANGED <<streams, store, trackId>>
      BY <1>2, <2>1 DEF StoreMatchesStreams
    <2>2. CASE Consumed
      <3>1. Head(consuming) \in Consumer
        BY <1>2, <2>2, HeadTypes DEF Consumed
      <3> QED BY <1>2, <2>2, <3>1, StoreStep DEF Consumed
    <2>3. CASE ConsumerClosed
      <3>1. Head(inbox) \in Incoming /\ Head(inbox)[1] = "closed"
        BY <1>2, <2>3, HeadTypes DEF ConsumerClosed, Receive
      <3>2. Head(inbox)[2] \in Consumer
        BY <3>1 DEF Incoming
      <3> QED BY <1>2, <2>3, <3>2, StoreStep DEF ConsumerClosed
    <2>4. CASE ~Consumed /\ ~ConsumerClosed
      <3>1. UNCHANGED <<streams, store, trackId>>
        BY <1>2, <2>4 DEF Next, Browser, RoomAdd, Serve, Announce, Retract, Answered,
           DeviceLoaded, DeviceRejected, Rendered, ConsumerCreated, ConsumeRejected,
           vars, uiVars
      <3> QED BY <2>1, <3>1
    <2> QED BY <2>2, <2>3, <2>4
  <1> QED BY <1>1, <1>2, Types, PTL DEF Spec

-----------------------------------------------------------------------------
(* Nothing is announced too early.                                         *)

\* The answer a has come, or is among the first n messages on their way.
Arrived(a, n) == a \in answers \/ \E j \in 1 .. n : inbox[j] = <<"answer", a>>

EarlyInv ==
  /\ rcv <=> answers = TransportAnswers
  /\ \A i \in 1 .. Len(inbox), k \in Consumer : inbox[i] = <<"created", k>> =>
       \A a \in TransportAnswers : Arrived(a, i)
  /\ announcing => \A a \in TransportAnswers : Arrived(a, Len(inbox))
  /\ \A i \in 1 .. Len(outbox) : outbox[i] = "create-transport-consuming" =>
       \/ Arrived("create-transport-producing", Len(inbox))
       \/ \E j \in 1 .. i : outbox[j] = "create-transport-producing"

\* Before room.add the browser waits for its first answer.
AddedInv ==
  \/ added
  \/ /\ phase = "capabilities"
     /\ \A i \in 1 .. Len(inbox) : inbox[i][1] # "answer"
     /\ \A i \in 1 .. Len(outbox) : outbox[i] \notin TransportAnswers

\* What has arrived stays so as messages are added,
LEMMA ArrivedGrows ==
  ASSUME TypeInv, NEW r \in Seq(Incoming), inbox' = inbox \o r, answers \subseteq answers'
  PROVE  /\ Len(inbox) \in Nat /\ Len(inbox') \in Nat /\ Len(inbox) <= Len(inbox')
         /\ \A i \in 1 .. Len(inbox) : inbox'[i] = inbox[i]
         /\ \A a, n : n \in 0 .. Len(inbox) /\ Arrived(a, n) => Arrived(a, n)'
         /\ \A a, m : m \in Nat /\ m >= Len(inbox) /\ Arrived(a, Len(inbox)) => Arrived(a, m)'
  <1>1. inbox \in Seq(Incoming)
    BY DEF TypeInv
  <1>2. /\ Len(inbox) \in Nat /\ Len(inbox') \in Nat /\ Len(inbox) <= Len(inbox')
        /\ \A i \in 1 .. Len(inbox) : inbox'[i] = inbox[i]
    <2>1. IsJoin(inbox', inbox, r)
      BY <1>1, Joined
    <2> QED BY <2>1 DEF IsJoin
  <1>3. ASSUME NEW a, NEW n \in 0 .. Len(inbox), Arrived(a, n)
        PROVE  Arrived(a, n)'
    <2>1. CASE a \in answers
      BY <2>1 DEF Arrived
    <2>2. ASSUME NEW j \in 1 .. n, inbox[j] = <<"answer", a>>
          PROVE  Arrived(a, n)'
      <3>1. j \in 1 .. Len(inbox)
        BY <1>2
      <3>2. inbox'[j] = <<"answer", a>>
        BY <1>2, <2>2, <3>1
      <3> QED BY <3>2 DEF Arrived
    <2> QED BY <1>3, <2>1, <2>2 DEF Arrived
  <1>4. \A a, m : m \in Nat /\ m >= Len(inbox) /\ Arrived(a, Len(inbox)) => Arrived(a, m)'
    BY <1>2 DEF Arrived
  <1> QED BY <1>2, <1>3, <1>4

\* and when the browser takes the first one.
LEMMA ArrivedShifts ==
  ASSUME TypeInv, inbox # <<>>, inbox' = Tail(inbox), answers \subseteq answers',
         \A a \in TransportAnswers : inbox[1] = <<"answer", a>> => a \in answers'
  PROVE  /\ Len(inbox) \in Nat \ {0} /\ Len(inbox') = Len(inbox) - 1
         /\ \A i \in 1 .. Len(inbox) - 1 : inbox'[i] = inbox[i + 1]
         /\ \A a \in TransportAnswers : \A n \in 0 .. Len(inbox) - 1 :
              Arrived(a, n + 1) => Arrived(a, n)'
  <1>1. /\ Len(inbox) \in Nat \ {0} /\ Len(inbox') = Len(inbox) - 1
        /\ \A i \in 1 .. Len(inbox) - 1 : inbox'[i] = inbox[i + 1]
    BY Rest DEF TypeInv
  <1>2. ASSUME NEW a \in TransportAnswers, NEW n \in 0 .. Len(inbox) - 1, Arrived(a, n + 1)
        PROVE  Arrived(a, n)'
    <2>1. CASE a \in answers
      BY <2>1 DEF Arrived
    <2>2. ASSUME NEW j \in 1 .. n + 1, inbox[j] = <<"answer", a>>
          PROVE  Arrived(a, n)'
      <3>1. CASE j = 1
        BY <2>2, <3>1 DEF Arrived
      <3>2. CASE j # 1
        <4>1. j - 1 \in 1 .. n /\ j - 1 \in 1 .. Len(inbox) - 1 /\ (j - 1) + 1 = j
          BY <1>1, <3>2
        <4>2. inbox'[j - 1] = <<"answer", a>>
          BY <1>1, <2>2, <4>1
        <4> QED BY <4>1, <4>2 DEF Arrived
      <3> QED BY <3>1, <3>2
    <2> QED BY <1>2, <2>1, <2>2 DEF Arrived
  <1> QED BY <1>1, <1>2

\* Before room.add nothing is answered.
LEMMA AddedStep ==
  ASSUME TypeInv, FiniteInv, AddedInv, [Next]_vars
  PROVE  AddedInv'
  <1> SUFFICES ASSUME ~added'
               PROVE  AddedInv'
    BY DEF AddedInv
  <1>a. RoomAdd \/ added' = added
    BY DEF Next, Browser, RoomAdd, Serve, Announce, Retract, Answered, DeviceLoaded,
       DeviceRejected, Rendered, ConsumerCreated, ConsumerClosed, Consumed, ConsumeRejected, vars, serverVars
  <1>b. ~RoomAdd
    BY DEF RoomAdd
  <1>1. ~added /\ added' = added
    BY <1>a, <1>b
  <1>2. /\ phase = "capabilities"
        /\ \A i \in 1 .. Len(inbox) : inbox[i][1] # "answer"
        /\ \A i \in 1 .. Len(outbox) : outbox[i] \notin TransportAnswers
    BY <1>1 DEF AddedInv
  <1>3. /\ inbox \in Seq(Incoming) /\ outbox \in Seq(Sent)
    BY DEF TypeInv
  <1>4. CASE Serve
    <2>1. inbox' = inbox /\ phase' = phase /\ outbox # <<>> /\ outbox' = Tail(outbox)
      BY <1>1, <1>4 DEF Serve, connectVars
    <2>2. Len(outbox) \in Nat \ {0} /\ Len(outbox') = Len(outbox) - 1
          /\ \A i \in 1 .. Len(outbox) - 1 : outbox'[i] = outbox[i + 1]
      BY <1>3, <2>1, Rest
    <2>3. \A i \in 1 .. Len(outbox') : i + 1 \in 1 .. Len(outbox) /\ outbox'[i] = outbox[i + 1]
      BY <2>2
    <2>4. \A i \in 1 .. Len(outbox') : outbox'[i] \notin TransportAnswers
      BY <1>2, <2>3
    <2> QED BY <1>2, <2>1, <2>4 DEF AddedInv
  <1>5. ASSUME NEW k \in Consumer, Announce(k)
        PROVE  AddedInv'
    <2>1. inbox' = Append(inbox, <<"created", k>>) /\ UNCHANGED <<phase, outbox>>
      BY <1>5 DEF Announce, connectVars
    <2>2. <<"created", k>> \in Incoming
      BY DEF Incoming
    <2>3. /\ Len(inbox') = Len(inbox) + 1 /\ inbox'[Len(inbox) + 1] = <<"created", k>>
          /\ \A i \in 1 .. Len(inbox) : inbox'[i] = inbox[i]
      BY <1>3, <2>1, <2>2, AppendProperties
    <2>4. \A i \in 1 .. Len(inbox') : inbox'[i][1] # "answer"
      BY <1>2, <1>3, <2>3
    <2> QED BY <1>2, <2>1, <2>4 DEF AddedInv
  <1>6. ASSUME NEW K \in SUBSET Live, Retract(K)
        PROVE  AddedInv'
    <2> DEFINE r == SetToSeq({"closed"} \X K)
    <2>1. inbox' = inbox \o r /\ UNCHANGED <<phase, outbox>>
      BY <1>6 DEF Retract, connectVars
    <2>2. r \in Seq({"closed"} \X K)
      BY <1>6, ClosedNotes
    <2> HIDE DEF r
    <2>3. {"closed"} \X K \subseteq Incoming
      BY DEF Incoming, Live
    <2>4. r \in Seq(Incoming)
      BY <2>2, <2>3, SeqMonotonic
    <2>5. \A i \in 1 .. Len(r) : r[i][1] = "closed"
      BY <2>2
    <2>6. \A i \in 1 .. Len(inbox') : inbox'[i][1] # "answer"
      <3>1. IsJoin(inbox', inbox, r)
        BY <1>3, <2>1, <2>4, Joined
      <3> SUFFICES ASSUME NEW i \in 1 .. Len(inbox')
                   PROVE  inbox'[i][1] # "answer"
        OBVIOUS
      <3>2. CASE i \in 1 .. Len(inbox)
        BY <1>2, <3>1, <3>2 DEF IsJoin
      <3>3. ASSUME NEW j \in 1 .. Len(r), i = Len(inbox) + j
            PROVE  inbox'[i][1] # "answer"
        <4>1. inbox'[i] = r[j]
          BY <3>1, <3>3 DEF IsJoin
        <4> QED BY <2>5, <4>1
      <3> QED BY <3>1, <3>2, <3>3 DEF IsJoin
    <2> QED BY <1>2, <2>1, <2>6 DEF AddedInv
  <1>7. CASE Answered
    <2>1. inbox # <<>> /\ Head(inbox)[1] = "answer"
      BY <1>7 DEF Answered, Receive
    <2>2. inbox[1][1] = "answer" /\ 1 \in 1 .. Len(inbox)
      BY <1>3, <2>1, Rest
    <2> QED BY <1>2, <2>2
  <1>8. CASE DeviceLoaded \/ DeviceRejected
    BY <1>2, <1>8 DEF DeviceLoaded, DeviceRejected
  <1>9. CASE ConsumerCreated \/ ConsumerClosed
    <2>1. inbox # <<>> /\ inbox' = Tail(inbox) /\ UNCHANGED <<phase, outbox>>
      BY <1>9 DEF ConsumerCreated, ConsumerClosed, Receive, connectVars
    <2>2. Len(inbox) \in Nat \ {0} /\ Len(inbox') = Len(inbox) - 1
          /\ \A i \in 1 .. Len(inbox) - 1 : inbox'[i] = inbox[i + 1]
      BY <1>3, <2>1, Rest
    <2>3. \A i \in 1 .. Len(inbox') : i + 1 \in 1 .. Len(inbox) /\ inbox'[i] = inbox[i + 1]
      BY <2>2
    <2>4. \A i \in 1 .. Len(inbox') : inbox'[i][1] # "answer"
      BY <1>2, <2>3
    <2> QED BY <1>2, <2>1, <2>4 DEF AddedInv
  <1>10. CASE UNCHANGED <<phase, inbox, outbox>>
    BY <1>2, <1>10 DEF AddedInv
  <1> QED BY <1>1, <1>4, <1>5, <1>6, <1>7, <1>8, <1>9, <1>10
          DEF Next, Browser, RoomAdd, Rendered, Consumed, ConsumeRejected, vars, connectVars

\* When the browser takes a message, what was announced after the answers still
\* is.
LEMMA EarlyShifts ==
  ASSUME TypeInv, EarlyInv, inbox # <<>>, inbox' = Tail(inbox), answers \subseteq answers',
         \A a \in TransportAnswers : inbox[1] = <<"answer", a>> => a \in answers',
         announcing' = announcing
  PROVE  /\ \A i \in 1 .. Len(inbox'), k \in Consumer : inbox'[i] = <<"created", k>> =>
              \A a \in TransportAnswers : Arrived(a, i)'
         /\ announcing' => \A a \in TransportAnswers : Arrived(a, Len(inbox))'
         /\ Arrived("create-transport-producing", Len(inbox)) =>
              Arrived("create-transport-producing", Len(inbox))'
  <1>1. /\ Len(inbox) \in Nat \ {0} /\ Len(inbox') = Len(inbox) - 1
        /\ \A i \in 1 .. Len(inbox) - 1 : inbox'[i] = inbox[i + 1]
        /\ \A a \in TransportAnswers : \A n \in 0 .. Len(inbox) - 1 :
             Arrived(a, n + 1) => Arrived(a, n)'
    BY ArrivedShifts
  <1>2. ASSUME NEW a \in TransportAnswers, Arrived(a, Len(inbox))
        PROVE  Arrived(a, Len(inbox))'
    <2>1. Len(inbox) - 1 \in 0 .. Len(inbox) - 1 /\ (Len(inbox) - 1) + 1 = Len(inbox)
      BY <1>1
    <2>2. \A n : n = Len(inbox') /\ Arrived(a, n)' => Arrived(a, Len(inbox))'
      BY DEF Arrived
    <2>3. \A n \in 0 .. Len(inbox) - 1 : n + 1 = Len(inbox) => Arrived(a, n)'
      BY <1>1, <1>2
    <2> QED BY <1>1, <2>1, <2>2, <2>3
  <1>3. ASSUME NEW i \in 1 .. Len(inbox'), NEW k \in Consumer, inbox'[i] = <<"created", k>>,
               NEW a \in TransportAnswers
        PROVE  Arrived(a, i)'
    <2>1. i + 1 \in 1 .. Len(inbox) /\ i \in 0 .. Len(inbox) - 1 /\ inbox'[i] = inbox[i + 1]
      BY <1>1
    <2>2. Arrived(a, i + 1)
      BY <1>3, <2>1 DEF EarlyInv
    <2> QED BY <1>1, <2>1, <2>2
  <1>4. "create-transport-producing" \in TransportAnswers
    BY DEF TransportAnswers
  <1> QED BY <1>2, <1>3, <1>4 DEF EarlyInv

\* When the SFU sends messages that announce a consumer only to a browser whose
\* receiving transport it has answered for, what was announced still came after
\* the answers.
LEMMA EarlyGrows ==
  ASSUME TypeInv, EarlyInv, NEW r \in Seq(Incoming), inbox' = inbox \o r, answers' = answers,
         announcing \/ \A j \in 1 .. Len(r) : r[j][1] # "created"
  PROVE  \A i \in 1 .. Len(inbox'), k \in Consumer : inbox'[i] = <<"created", k>> =>
           \A a \in TransportAnswers : Arrived(a, i)'
  <1>1. /\ Len(inbox) \in Nat
        /\ \A a, n : n \in 0 .. Len(inbox) /\ Arrived(a, n) => Arrived(a, n)'
        /\ \A a, m : m \in Nat /\ m >= Len(inbox) /\ Arrived(a, Len(inbox)) => Arrived(a, m)'
    BY ArrivedGrows
  <1>2. /\ \A i \in 1 .. Len(inbox) : inbox'[i] = inbox[i]
        /\ \A i \in 1 .. Len(r) : inbox'[Len(inbox) + i] = r[i]
        /\ \A i \in 1 .. Len(inbox') :
             i \in 1 .. Len(inbox) \/ \E j \in 1 .. Len(r) : i = Len(inbox) + j
    <2>1. inbox \in Seq(Incoming)
      BY DEF TypeInv
    <2>2. IsJoin(inbox', inbox, r)
      BY <2>1, Joined
    <2> QED BY <2>2 DEF IsJoin
  <1> SUFFICES ASSUME NEW i \in 1 .. Len(inbox'), NEW k \in Consumer,
                      inbox'[i] = <<"created", k>>, NEW a \in TransportAnswers
               PROVE  Arrived(a, i)'
    OBVIOUS
  <1>3. CASE i \in 1 .. Len(inbox)
    <2>1. inbox[i] = <<"created", k>>
      BY <1>2, <1>3
    <2>2. Arrived(a, i)
      BY <1>3, <2>1 DEF EarlyInv
    <2> QED BY <1>1, <1>3, <2>2
  <1>4. ASSUME NEW j \in 1 .. Len(r), i = Len(inbox) + j
        PROVE  Arrived(a, i)'
    <2>1. r[j][1] = "created"
      BY <1>2, <1>4
    <2>2. Arrived(a, Len(inbox))
      BY <2>1 DEF EarlyInv
    <2>3. i \in Nat /\ i >= Len(inbox)
      BY <1>1, <1>4
    <2> QED BY <1>1, <2>2, <2>3
  <1> QED BY <1>2, <1>3, <1>4

\* The SFU serves the next message.
LEMMA EarlyServe ==
  ASSUME TypeInv, AddedInv, EarlyInv, Serve
  PROVE  EarlyInv'
  <1> DEFINE P == "create-transport-producing"
             C == "create-transport-consuming"
  <1>1. /\ outbox \in Seq(Sent) /\ inbox \in Seq(Incoming) /\ outbox # <<>>
        /\ outbox' = Tail(outbox) /\ UNCHANGED <<answers, rcv>>
    BY DEF Serve, TypeInv, connectVars
  <1>2. /\ Len(outbox) \in Nat \ {0} /\ Head(outbox) = outbox[1] /\ outbox[1] \in Sent
        /\ Len(outbox') = Len(outbox) - 1
        /\ \A i \in 1 .. Len(outbox) - 1 : outbox'[i] = outbox[i + 1]
    BY <1>1, Rest
  <1>3. PICK r \in Seq(Incoming) :
          /\ inbox' = inbox \o r /\ \A j \in 1 .. Len(r) : r[j][1] # "created"
          /\ outbox[1] \in TransportAnswers =>
               \E j \in 1 .. Len(r) : r[j] = <<"answer", outbox[1]>>
    <2>1. CASE added /\ outbox[1] \in RequestType
      <3> DEFINE m == <<"answer", outbox[1]>>
      <3>1. m \in Incoming
        BY <1>2, <2>1 DEF Incoming, Sent, RequestType
      <3>2. inbox' = Append(inbox, m)
        BY <1>2, <2>1 DEF Serve
      <3>3. m[1] = "answer" /\ m = <<"answer", outbox[1]>>
        OBVIOUS
      <3> HIDE DEF m
      <3>4. inbox' = inbox \o <<m>> /\ <<m>> \in Seq(Incoming) /\ Len(<<m>>) = 1
            /\ <<m>>[1] = m
        BY <1>1, <3>1, <3>2, OneMore
      <3>5. \A j \in 1 .. Len(<<m>>) : <<m>>[j][1] # "created"
        BY <3>3, <3>4
      <3>6. 1 \in 1 .. Len(<<m>>) /\ <<m>>[1] = <<"answer", outbox[1]>>
        BY <3>3, <3>4
      <3> QED BY <3>4, <3>5, <3>6
    <2>2. CASE ~(added /\ outbox[1] \in RequestType)
      <3>1. inbox' = inbox
        BY <1>2, <2>2 DEF Serve
      <3>2. <<>> \in Seq(Incoming) /\ Len(<<>>) = 0 /\ inbox \o <<>> = inbox
        BY <1>1, ConcatEmptySeq, EmptySeq
      <3>3. outbox[1] \notin TransportAnswers
        <4>1. TransportAnswers \subseteq RequestType
          BY DEF TransportAnswers, RequestType
        <4>2. ~added => outbox[1] \notin TransportAnswers
          BY <1>2 DEF AddedInv
        <4> QED BY <2>2, <4>1, <4>2
      <3>4. \A j \in 1 .. Len(<<>>) : FALSE
        BY <3>2
      <3> QED BY <3>1, <3>2, <3>3, <3>4
    <2> QED BY <2>1, <2>2
  <1>4. /\ Len(inbox) \in Nat /\ Len(inbox') \in Nat /\ Len(inbox) <= Len(inbox')
        /\ \A a, m : m \in Nat /\ m >= Len(inbox) /\ Arrived(a, Len(inbox)) => Arrived(a, m)'
    BY <1>1, <1>3, ArrivedGrows
  <1>5. ASSUME NEW a, Arrived(a, Len(inbox))
        PROVE  Arrived(a, Len(inbox))'
    <2>1. \A n : n = Len(inbox') /\ Arrived(a, n)' => Arrived(a, Len(inbox))'
      BY DEF Arrived
    <2> QED BY <1>4, <1>5, <2>1
  <1>6. outbox[1] \in TransportAnswers =>
          \E j \in 1 .. Len(inbox') : inbox'[j] = <<"answer", outbox[1]>>
    <2>1. /\ \A i \in 1 .. Len(r) : inbox'[Len(inbox) + i] = r[i]
          /\ \A i \in 1 .. Len(r) : Len(inbox) + i \in 1 .. Len(inbox')
      <3>1. IsJoin(inbox', inbox, r)
        BY <1>1, <1>3, Joined
      <3> QED BY <3>1 DEF IsJoin
    <2> QED BY <1>3, <2>1
  <1>7. \A i \in 1 .. Len(inbox'), k \in Consumer : inbox'[i] = <<"created", k>> =>
          \A a \in TransportAnswers : Arrived(a, i)'
    BY <1>1, <1>3, EarlyGrows
  <1>8. announcing' => \A a \in TransportAnswers : Arrived(a, Len(inbox))'
    <2>1. CASE announcing
      BY <1>5, <2>1 DEF EarlyInv
    <2>2. CASE outbox[1] = C
      <3>1. Arrived(C, Len(inbox))'
        BY <1>6, <2>2 DEF TransportAnswers, Arrived
      <3>2. Arrived(P, Len(inbox))
        BY <1>2, <2>2 DEF EarlyInv
      <3> QED BY <1>5, <3>1, <3>2 DEF TransportAnswers
    <2> QED BY <1>2, <2>1, <2>2 DEF Serve
  <1>9. ASSUME NEW i \in 1 .. Len(outbox'), outbox'[i] = C
        PROVE  Arrived(P, Len(inbox))' \/ \E j \in 1 .. i : outbox'[j] = P
    <2>1. i + 1 \in 1 .. Len(outbox) /\ outbox[i + 1] = C
      BY <1>2, <1>9
    <2>2. Arrived(P, Len(inbox)) \/ \E j \in 1 .. i + 1 : outbox[j] = P
      BY <2>1 DEF EarlyInv
    <2>3. CASE outbox[1] = P
      BY <1>6, <2>3 DEF TransportAnswers, Arrived
    <2>4. ASSUME NEW j \in 1 .. i + 1, outbox[j] = P, outbox[1] # P
          PROVE  \E l \in 1 .. i : outbox'[l] = P
      <3>1. j - 1 \in 1 .. i /\ j - 1 \in 1 .. Len(outbox) - 1 /\ (j - 1) + 1 = j
        BY <1>2, <2>1, <2>4
      <3>2. outbox'[j - 1] = P
        BY <1>2, <2>4, <3>1
      <3> QED BY <3>1, <3>2
    <2> QED BY <1>5, <2>2, <2>3, <2>4
  <1>10. rcv' <=> answers' = TransportAnswers
    BY <1>1 DEF EarlyInv
  <1> QED BY <1>7, <1>8, <1>9, <1>10 DEF EarlyInv

\* So does every other step.
LEMMA EarlyStep ==
  ASSUME TypeInv, FiniteInv, AddedInv, EarlyInv, [Next]_vars
  PROVE  EarlyInv'
  <1> DEFINE P == "create-transport-producing"
             C == "create-transport-consuming"
  <1>1. outbox \in Seq(Sent) /\ inbox \in Seq(Incoming)
    BY DEF TypeInv
  <1>2. CASE Serve
    BY <1>2, EarlyServe
  <1>3. ASSUME NEW r \in Seq(Incoming), inbox' = inbox \o r,
               announcing \/ \A j \in 1 .. Len(r) : r[j][1] # "created",
               UNCHANGED <<answers, rcv, announcing, outbox>>
        PROVE  EarlyInv'
    <2>1. /\ Len(inbox) \in Nat /\ Len(inbox') \in Nat /\ Len(inbox) <= Len(inbox')
          /\ \A a, m : m \in Nat /\ m >= Len(inbox) /\ Arrived(a, Len(inbox)) => Arrived(a, m)'
      BY <1>3, ArrivedGrows
    <2>2. ASSUME NEW a, Arrived(a, Len(inbox))
          PROVE  Arrived(a, Len(inbox))'
      <3>1. \A n : n = Len(inbox') /\ Arrived(a, n)' => Arrived(a, Len(inbox))'
        BY DEF Arrived
      <3> QED BY <2>1, <2>2, <3>1
    <2>3. \A i \in 1 .. Len(inbox'), k \in Consumer : inbox'[i] = <<"created", k>> =>
            \A a \in TransportAnswers : Arrived(a, i)'
      BY <1>3, EarlyGrows
    <2>4. announcing' => \A a \in TransportAnswers : Arrived(a, Len(inbox))'
      BY <1>3, <2>2 DEF EarlyInv
    <2>5. \A i \in 1 .. Len(outbox') : outbox'[i] = C =>
            Arrived(P, Len(inbox))' \/ \E j \in 1 .. i : outbox'[j] = P
      BY <1>3, <2>2 DEF EarlyInv
    <2>6. rcv' <=> answers' = TransportAnswers
      BY <1>3 DEF EarlyInv
    <2> QED BY <2>3, <2>4, <2>5, <2>6 DEF EarlyInv
  <1>4. ASSUME NEW k \in Consumer, Announce(k)
        PROVE  EarlyInv'
    <2>1. <<"created", k>> \in Incoming
      BY DEF Incoming
    <2>2. /\ inbox' = inbox \o << <<"created", k>> >>
          /\ << <<"created", k>> >> \in Seq(Incoming)
      BY <1>1, <1>4, <2>1, OneMore DEF Announce
    <2>3. announcing /\ UNCHANGED <<answers, rcv, announcing, outbox>>
      BY <1>4 DEF Announce, connectVars
    <2> QED BY <1>3, <2>2, <2>3
  <1>5. ASSUME NEW K \in SUBSET Live, Retract(K)
        PROVE  EarlyInv'
    <2> DEFINE r == SetToSeq({"closed"} \X K)
    <2>1. inbox' = inbox \o r /\ UNCHANGED <<answers, rcv, announcing, outbox>>
      BY <1>5 DEF Retract, connectVars
    <2>2. r \in Seq({"closed"} \X K)
      BY ClosedNotes
    <2> HIDE DEF r
    <2>3. {"closed"} \X K \subseteq Incoming
      BY DEF Incoming, Live
    <2>4. r \in Seq(Incoming)
      BY <2>2, <2>3, SeqMonotonic
    <2>5. \A i \in 1 .. Len(r) : r[i][1] # "created"
      BY <2>2
    <2> QED BY <1>3, <2>1, <2>4, <2>5
  <1>6. ASSUME inbox # <<>>, inbox' = Tail(inbox), UNCHANGED announcing,
               answers \subseteq answers', rcv' <=> answers' = TransportAnswers,
               \A a \in TransportAnswers : inbox[1] = <<"answer", a>> => a \in answers',
               outbox' = outbox \/ outbox' = Append(outbox, "join-call-request")
        PROVE  EarlyInv'
    <2>1. /\ \A i \in 1 .. Len(inbox'), k \in Consumer : inbox'[i] = <<"created", k>> =>
               \A a \in TransportAnswers : Arrived(a, i)'
          /\ announcing' => \A a \in TransportAnswers : Arrived(a, Len(inbox))'
          /\ Arrived(P, Len(inbox)) => Arrived(P, Len(inbox))'
      BY <1>6, EarlyShifts
    <2>2. ASSUME NEW i \in 1 .. Len(outbox'), outbox'[i] = C
          PROVE  i \in 1 .. Len(outbox) /\ outbox[i] = C /\ \A j \in 1 .. i : outbox'[j] = outbox[j]
      <3>1. CASE outbox' = outbox
        BY <1>1, <2>2, <3>1
      <3>2. CASE outbox' = Append(outbox, "join-call-request")
        <4>1. "join-call-request" \in Sent
          BY DEF Sent
        <4>2. /\ Len(outbox') = Len(outbox) + 1 /\ outbox'[Len(outbox) + 1] = "join-call-request"
              /\ \A l \in 1 .. Len(outbox) : outbox'[l] = outbox[l]
          BY <1>1, <3>2, <4>1, AppendProperties
        <4>3. i # Len(outbox) + 1
          BY <2>2, <4>2
        <4> QED BY <1>1, <2>2, <4>2, <4>3
      <3> QED BY <1>6, <3>1, <3>2
    <2>3. \A i \in 1 .. Len(outbox') : outbox'[i] = C =>
            Arrived(P, Len(inbox))' \/ \E j \in 1 .. i : outbox'[j] = P
      BY <2>1, <2>2 DEF EarlyInv
    <2> QED BY <1>6, <2>1, <2>3 DEF EarlyInv
  <1>7. CASE Answered
    <2>1. /\ inbox # <<>> /\ inbox' = Tail(inbox) /\ UNCHANGED announcing
          /\ Head(inbox) = inbox[1] /\ inbox[1] \in Incoming /\ inbox[1][1] = "answer"
      BY <1>7, HeadTypes DEF Answered, Receive, serverVars
    <2>2. CASE inbox[1][2] \in TransportAnswers
      <3>1. /\ answers' = answers \union {inbox[1][2]} /\ rcv' = Stored(answers')
            /\ outbox' = outbox \/ outbox' = Append(outbox, "join-call-request")
        BY <1>7, <2>1, <2>2 DEF Answered, TransportAnswers
      <3>2. \A a \in TransportAnswers : inbox[1] = <<"answer", a>> => a \in answers'
        BY <3>1
      <3>3. rcv' <=> answers' = TransportAnswers
        BY <3>1 DEF Stored
      <3> QED BY <1>6, <2>1, <3>1, <3>2, <3>3
    <2>3. CASE inbox[1][2] \notin TransportAnswers
      <3>1. inbox[1][2] \in {"get-router-capabilities-request", "join-call-request"}
        BY <2>1, <2>3 DEF Incoming, Sent, TransportAnswers
      <3>2. UNCHANGED <<answers, rcv, outbox>>
        BY <1>7, <2>1, <3>1 DEF Answered, TransportAnswers
      <3>3. rcv' <=> answers' = TransportAnswers
        BY <3>2 DEF EarlyInv
      <3>4. \A a \in TransportAnswers : inbox[1] # <<"answer", a>>
        BY <2>3
      <3> QED BY <1>6, <2>1, <3>2, <3>3, <3>4
    <2> QED BY <2>2, <2>3
  <1>8. CASE ConsumerCreated \/ ConsumerClosed
    <2>1. /\ inbox # <<>> /\ inbox' = Tail(inbox) /\ UNCHANGED <<announcing, answers, rcv, outbox>>
          /\ Head(inbox)[1] # "answer"
      BY <1>8 DEF ConsumerCreated, ConsumerClosed, Receive, serverVars, connectVars
    <2>2. \A a \in TransportAnswers : inbox[1] # <<"answer", a>>
      BY <2>1, HeadTypes
    <2>3. rcv' <=> answers' = TransportAnswers
      BY <2>1 DEF EarlyInv
    <2> QED BY <1>6, <2>1, <2>2, <2>3
  <1>9. CASE DeviceLoaded
    <2> DEFINE r == <<"client-rtp-capabilities", P, C>>
    <2>1. Len(r) = 3 /\ r[1] = "client-rtp-capabilities" /\ r[2] = P /\ r[3] = C
      OBVIOUS
    <2>2. r \in Seq(Sent)
      BY DEF Sent
    <2>a. outbox' = outbox \o r
      BY <1>9 DEF DeviceLoaded
    <2>b. UNCHANGED <<inbox, answers, rcv, announcing>>
      BY <1>9 DEF DeviceLoaded, serverVars
    <2> HIDE DEF r
    <2>3. /\ Len(outbox) \in Nat
          /\ \A i \in 1 .. Len(outbox) : outbox'[i] = outbox[i]
          /\ \A i \in 1 .. Len(r) : outbox'[Len(outbox) + i] = r[i]
          /\ \A i \in 1 .. Len(outbox') :
               i \in 1 .. Len(outbox) \/ \E j \in 1 .. Len(r) : i = Len(outbox) + j
      <3>1. IsJoin(outbox', outbox, r)
        BY <1>1, <2>2, <2>a, Joined
      <3> QED BY <3>1 DEF IsJoin
    <2>4. ASSUME NEW i \in 1 .. Len(outbox'), outbox'[i] = C
          PROVE  Arrived(P, Len(inbox)) \/ \E j \in 1 .. i : outbox'[j] = P
      <3>1. CASE i \in 1 .. Len(outbox)
        <4>1. outbox[i] = C /\ \A j \in 1 .. i : outbox'[j] = outbox[j]
          BY <2>3, <2>4, <3>1
        <4> QED BY <3>1, <4>1 DEF EarlyInv
      <3>2. ASSUME NEW j \in 1 .. Len(r), i = Len(outbox) + j
            PROVE  \E l \in 1 .. i : outbox'[l] = P
        <4>1. 2 \in 1 .. Len(r) /\ j >= 2
          BY <2>1, <2>3, <2>4, <3>2
        <4>2. Len(outbox) + 2 \in 1 .. i /\ outbox'[Len(outbox) + 2] = P
          BY <2>1, <2>3, <3>2, <4>1
        <4> QED BY <4>2
      <3> QED BY <2>3, <3>1, <3>2
    <2>5. \A a, n : Arrived(a, n) <=> Arrived(a, n)'
      BY <2>b DEF Arrived
    <2>6. Arrived(P, Len(inbox)) => Arrived(P, Len(inbox))'
      BY <2>b DEF Arrived
    <2>7. announcing' => \A a \in TransportAnswers : Arrived(a, Len(inbox))'
      BY <2>b DEF EarlyInv, Arrived
    <2> QED BY <2>b, <2>4, <2>5, <2>6, <2>7 DEF EarlyInv
  <1>10. CASE UNCHANGED <<answers, rcv, announcing, outbox, inbox>>
    BY <1>10 DEF EarlyInv, Arrived
  <1> QED BY <1>2, <1>4, <1>5, <1>7, <1>8, <1>9, <1>10
          DEF Next, Browser, RoomAdd, DeviceRejected, Rendered, Consumed, ConsumeRejected,
              vars, connectVars, serverVars

\* A consumer is announced only after both transports were answered for, so
\* _rcvTransport is set when the browser reads the announcement.
THEOREM MediaNothingTooEarly == Spec => []NothingAnnouncedTooEarly
  <1>1. Init => AddedInv /\ EarlyInv
    <2> SUFFICES ASSUME Init
                 PROVE  AddedInv /\ EarlyInv
      OBVIOUS
    <2>1. Len(inbox) = 0 /\ Len(outbox) = 1 /\ outbox[1] = "get-router-capabilities-request"
      BY DEF Init
    <2>2. answers # TransportAnswers /\ ~rcv /\ ~announcing /\ phase = "capabilities"
      BY DEF Init, TransportAnswers
    <2>3. AddedInv
      BY <2>1, <2>2 DEF AddedInv, TransportAnswers
    <2> QED BY <2>1, <2>2, <2>3 DEF EarlyInv
  <1>2. TypeInv /\ FiniteInv /\ AddedInv /\ EarlyInv /\ [Next]_vars => AddedInv' /\ EarlyInv'
    BY AddedStep, EarlyStep
  <1>3. TypeInv /\ EarlyInv => NothingAnnouncedTooEarly
    <2> SUFFICES ASSUME TypeInv, EarlyInv, inbox # <<>>, Head(inbox)[1] = "created"
                 PROVE  rcv
      BY DEF NothingAnnouncedTooEarly
    <2>1. inbox[1] \in Incoming /\ inbox[1][1] = "created" /\ 1 \in 1 .. Len(inbox)
      BY Rest DEF TypeInv
    <2>2. PICK k \in Consumer : inbox[1] = <<"created", k>>
      BY <2>1 DEF Incoming
    <2>3. \A a \in TransportAnswers : a \in answers
      BY <2>1, <2>2 DEF EarlyInv, Arrived
    <2> QED BY <2>3 DEF EarlyInv, TypeInv
  <1> QED BY <1>1, <1>2, <1>3, Types, PTL DEF Spec

-----------------------------------------------------------------------------
(* What is shown.                                                          *)

\* The consumers that the messages of type t in the queue q are about
Mentions(q, t) == {k \in Consumer : \E i \in 1 .. Len(q) : q[i] = <<t, k>>}

\* No consumer is announced or retracted twice.
Unique(q) ==
  \A i, j \in 1 .. Len(q), t \in {"created", "closed"}, k \in Consumer :
    q[i] = <<t, k>> /\ q[j] = <<t, k>> => i = j

\* A consumer is retracted after it was announced.
Ordered(q) ==
  \A i, j \in 1 .. Len(q), k \in Consumer :
    q[i] = <<"created", k>> /\ q[j] = <<"closed", k>> => i < j

Distinct(q) == \A i, j \in 1 .. Len(q) : q[i] = q[j] => i = j

QueueInv == Unique(inbox) /\ Ordered(inbox) /\ Distinct(consuming)

Coming == Mentions(inbox, "created")
Leaving == Mentions(inbox, "closed")
Waiting == {consuming[i] : i \in 1 .. Len(consuming)}
Lost == missed \union failed
Fresh == {k \in Consumer : srv[k] = "none"}

\* The stations of a consumer's way to the screen are disjoint, and nobody has
\* met a consumer the SFU has not created.
StationInv ==
  /\ Fresh \intersect (Coming \union Leaving \union Waiting \union known
                        \union Lost \union ghosts) = {}
  /\ Coming \intersect (Waiting \union known \union Lost \union ghosts) = {}
  /\ Waiting \intersect (known \union Lost) = {}
  /\ Shown \subseteq known
  /\ Shown \intersect Lost = {}
  /\ ~listening => Shown = {}

\* Every live consumer is on its way, and one that is on its way is live, being
\* retracted, or retracted while it was being set up.
WayInv ==
  /\ Live \intersect (Leaving \union ghosts) = {}
  /\ Leaving \intersect ghosts = {}
  /\ Live \subseteq Coming \union Waiting \union Shown \union Lost
  /\ ghosts \subseteq Waiting \union Shown \union Lost
  /\ Coming \union Waiting \union Shown \subseteq Live \union Leaving \union ghosts

\* A track is in the stream of its owner.
OwnerInv == \A p \in Remote : \A k \in streams[p] : OwnerOf[k] = p

\* A queue to which messages about other consumers are added
LEMMA QueueGrows ==
  ASSUME NEW q \in Seq(Incoming), NEW r \in Seq(Incoming), Unique(q), Unique(r),
         Ordered(q), Ordered(r),
         \A t \in {"created", "closed"} : Mentions(q, t) \intersect Mentions(r, t) = {},
         Mentions(q, "closed") \intersect Mentions(r, "created") = {}
  PROVE  /\ Unique(q \o r) /\ Ordered(q \o r)
         /\ \A t : Mentions(q \o r, t) = Mentions(q, t) \union Mentions(r, t)
  <1> DEFINE w == q \o r
  <1>1. /\ w \in Seq(Incoming) /\ Len(q) \in Nat /\ Len(r) \in Nat
        /\ Len(w) = Len(q) + Len(r)
        /\ \A i \in 1 .. Len(q) : w[i] = q[i]
        /\ \A i \in 1 .. Len(r) : w[Len(q) + i] = r[i]
        /\ \A i \in 1 .. Len(w) :
             i \in 1 .. Len(q) \/ \E j \in 1 .. Len(r) : i = Len(q) + j
    <2>1. w \in Seq(Incoming) /\ IsJoin(w, q, r)
      BY Joined
    <2> QED BY <2>1 DEF IsJoin
  <1> HIDE DEF w
  <1>2. ASSUME NEW t
        PROVE  Mentions(w, t) = Mentions(q, t) \union Mentions(r, t)
    <2>1. \A i \in 1 .. Len(q) : i \in 1 .. Len(w)
      BY <1>1
    <2>2. \A i \in 1 .. Len(r) : Len(q) + i \in 1 .. Len(w)
      BY <1>1
    <2>3. ASSUME NEW k \in Mentions(w, t)
          PROVE  k \in Mentions(q, t) \union Mentions(r, t)
      <3>1. k \in Consumer
        BY DEF Mentions
      <3>2. PICK i \in 1 .. Len(w) : w[i] = <<t, k>>
        BY DEF Mentions
      <3>3. CASE i \in 1 .. Len(q)
        BY <1>1, <3>1, <3>2, <3>3 DEF Mentions
      <3>4. ASSUME NEW j \in 1 .. Len(r), i = Len(q) + j
            PROVE  k \in Mentions(r, t)
        BY <1>1, <3>1, <3>2, <3>4 DEF Mentions
      <3> QED BY <1>1, <3>3, <3>4
    <2>4. ASSUME NEW k \in Mentions(q, t)
          PROVE  k \in Mentions(w, t)
      BY <1>1, <2>1 DEF Mentions
    <2>5. ASSUME NEW k \in Mentions(r, t)
          PROVE  k \in Mentions(w, t)
      BY <1>1, <2>2 DEF Mentions
    <2> QED BY <2>3, <2>4, <2>5
  <1>3. ASSUME NEW i \in 1 .. Len(w), NEW t, NEW k \in Consumer, w[i] = <<t, k>>
        PROVE  \/ i \in 1 .. Len(q) /\ q[i] = <<t, k>> /\ k \in Mentions(q, t)
               \/ \E j \in 1 .. Len(r) : i = Len(q) + j /\ r[j] = <<t, k>> /\ k \in Mentions(r, t)
    <2>1. CASE i \in 1 .. Len(q)
      BY <1>1, <1>3, <2>1 DEF Mentions
    <2>2. ASSUME NEW j \in 1 .. Len(r), i = Len(q) + j
          PROVE  r[j] = <<t, k>> /\ k \in Mentions(r, t)
      BY <1>1, <1>3, <2>2 DEF Mentions
    <2> QED BY <1>1, <2>1, <2>2
  <1>4. Unique(w)
    <2> SUFFICES ASSUME NEW i \in 1 .. Len(w), NEW j \in 1 .. Len(w),
                        NEW t \in {"created", "closed"}, NEW k \in Consumer,
                        w[i] = <<t, k>>, w[j] = <<t, k>>
                 PROVE  i = j
      BY DEF Unique
    <2>1. \/ i \in 1 .. Len(q) /\ q[i] = <<t, k>> /\ k \in Mentions(q, t)
          \/ \E n \in 1 .. Len(r) : i = Len(q) + n /\ r[n] = <<t, k>> /\ k \in Mentions(r, t)
      BY <1>3
    <2>2. \/ j \in 1 .. Len(q) /\ q[j] = <<t, k>> /\ k \in Mentions(q, t)
          \/ \E n \in 1 .. Len(r) : j = Len(q) + n /\ r[n] = <<t, k>> /\ k \in Mentions(r, t)
      BY <1>3
    <2> QED BY <2>1, <2>2 DEF Unique
  <1>5. ASSUME NEW i \in 1 .. Len(w), NEW j \in 1 .. Len(w), NEW k \in Consumer,
               w[i] = <<"created", k>>, w[j] = <<"closed", k>>
        PROVE  i < j
    <2>1. \/ i \in 1 .. Len(q) /\ q[i] = <<"created", k>>
          \/ \E n \in 1 .. Len(r) : i = Len(q) + n /\ r[n] = <<"created", k>>
                                    /\ k \in Mentions(r, "created")
      BY <1>3, <1>5
    <2>2. \/ j \in 1 .. Len(q) /\ q[j] = <<"closed", k>> /\ k \in Mentions(q, "closed")
          \/ \E n \in 1 .. Len(r) : j = Len(q) + n /\ r[n] = <<"closed", k>>
      BY <1>3, <1>5
    <2>3. CASE i \in 1 .. Len(q) /\ q[i] = <<"created", k>>
      <3>1. CASE j \in 1 .. Len(q) /\ q[j] = <<"closed", k>>
        BY <2>3, <3>1 DEF Ordered
      <3>2. ASSUME NEW n \in 1 .. Len(r), j = Len(q) + n
            PROVE  i < j
        BY <1>1, <2>3, <3>2
      <3> QED BY <2>2, <3>1, <3>2
    <2>4. ASSUME NEW n \in 1 .. Len(r), i = Len(q) + n, r[n] = <<"created", k>>,
                 k \in Mentions(r, "created")
          PROVE  i < j
      <3>1. PICK m \in 1 .. Len(r) : j = Len(q) + m /\ r[m] = <<"closed", k>>
        BY <2>2, <2>4
      <3>2. n < m
        BY <2>4, <3>1 DEF Ordered
      <3> QED BY <1>1, <2>4, <3>1, <3>2
    <2> QED BY <2>1, <2>3, <2>4
  <1>6. Ordered(w)
    BY <1>5 DEF Ordered
  <1> QED BY <1>2, <1>4, <1>6 DEF w

\* A queue of which the first message is taken
LEMMA QueueShifts ==
  ASSUME NEW q \in Seq(Incoming), q # <<>>, Unique(q), Ordered(q)
  PROVE  /\ Unique(Tail(q)) /\ Ordered(Tail(q))
         /\ \A t \in {"created", "closed"} :
              /\ \A k \in Consumer : q[1] = <<t, k>> =>
                   k \in Mentions(q, t) /\ Mentions(Tail(q), t) = Mentions(q, t) \ {k}
              /\ q[1][1] # t => Mentions(Tail(q), t) = Mentions(q, t)
         /\ \A k \in Consumer : q[1] = <<"closed", k>> => k \notin Mentions(q, "created")
  <1> DEFINE w == Tail(q)
  <1>1. /\ Len(q) \in Nat \ {0} /\ Len(w) = Len(q) - 1
        /\ \A i \in 1 .. Len(w) : w[i] = q[i + 1] /\ i + 1 \in 1 .. Len(q)
    <2>1. /\ Len(q) \in Nat \ {0} /\ Len(w) = Len(q) - 1
          /\ \A i \in 1 .. Len(q) - 1 : w[i] = q[i + 1]
      BY Rest
    <2> QED BY <2>1
  <1> HIDE DEF w
  <1>2. \A i \in 1 .. Len(q) : i # 1 => \E j \in 1 .. Len(w) : i = j + 1 /\ q[i] = w[j]
    <2>1. \A i \in 1 .. Len(q) : i # 1 => i - 1 \in 1 .. Len(w) /\ (i - 1) + 1 = i
      BY <1>1
    <2> QED BY <1>1, <2>1
  <1>3. Unique(w) /\ Ordered(w)
    <2>1. Unique(w)
      <3> SUFFICES ASSUME NEW i \in 1 .. Len(w), NEW j \in 1 .. Len(w),
                          NEW t \in {"created", "closed"}, NEW k \in Consumer,
                          w[i] = <<t, k>>, w[j] = <<t, k>>
                   PROVE  i = j
        BY DEF Unique
      <3>1. /\ i + 1 \in 1 .. Len(q) /\ q[i + 1] = <<t, k>>
            /\ j + 1 \in 1 .. Len(q) /\ q[j + 1] = <<t, k>>
        BY <1>1
      <3>2. i + 1 = j + 1
        BY <3>1 DEF Unique
      <3> QED BY <3>2
    <2>2. Ordered(w)
      <3> SUFFICES ASSUME NEW i \in 1 .. Len(w), NEW j \in 1 .. Len(w), NEW k \in Consumer,
                          w[i] = <<"created", k>>, w[j] = <<"closed", k>>
                   PROVE  i < j
        BY DEF Ordered
      <3>1. i + 1 < j + 1
        BY <1>1 DEF Ordered
      <3> QED BY <3>1
    <2> QED BY <2>1, <2>2
  <1>4. 1 \in 1 .. Len(q)
    BY <1>1
  <1>5. ASSUME NEW t \in {"created", "closed"}, NEW k \in Consumer, q[1] = <<t, k>>
        PROVE  k \in Mentions(q, t) /\ Mentions(w, t) = Mentions(q, t) \ {k}
    <2>1. k \in Mentions(q, t)
      BY <1>4, <1>5 DEF Mentions
    <2>2. k \notin Mentions(w, t)
      <3> SUFFICES ASSUME NEW j \in 1 .. Len(w), w[j] = <<t, k>>
                   PROVE  FALSE
        BY DEF Mentions
      <3>1. j + 1 = 1
        BY <1>1, <1>4, <1>5 DEF Unique
      <3> QED BY <3>1
    <2>3. Mentions(w, t) \subseteq Mentions(q, t)
      BY <1>1 DEF Mentions
    <2>4. ASSUME NEW l \in Mentions(q, t), l # k
          PROVE  l \in Mentions(w, t)
      <3>1. l \in Consumer
        BY DEF Mentions
      <3>2. PICK i \in 1 .. Len(q) : q[i] = <<t, l>>
        BY DEF Mentions
      <3>3. i # 1
        BY <1>5, <2>4, <3>2
      <3> QED BY <1>2, <3>1, <3>2, <3>3 DEF Mentions
    <2> QED BY <2>1, <2>2, <2>3, <2>4
  <1>6. ASSUME NEW t \in {"created", "closed"}, q[1][1] # t
        PROVE  Mentions(w, t) = Mentions(q, t)
    <2>1. Mentions(w, t) \subseteq Mentions(q, t)
      BY <1>1 DEF Mentions
    <2>2. ASSUME NEW l \in Mentions(q, t)
          PROVE  l \in Mentions(w, t)
      <3>1. l \in Consumer
        BY DEF Mentions
      <3>2. PICK i \in 1 .. Len(q) : q[i] = <<t, l>>
        BY DEF Mentions
      <3>3. i # 1
        BY <1>6, <3>2
      <3> QED BY <1>2, <3>1, <3>2, <3>3 DEF Mentions
    <2> QED BY <2>1, <2>2
  <1>7. ASSUME NEW k \in Consumer, q[1] = <<"closed", k>>
        PROVE  k \notin Mentions(q, "created")
    <2> SUFFICES ASSUME NEW i \in 1 .. Len(q), q[i] = <<"created", k>>
                 PROVE  FALSE
      BY DEF Mentions
    <2>1. i < 1
      BY <1>4, <1>7 DEF Ordered
    <2> QED BY <2>1
  <1> QED BY <1>3, <1>5, <1>6, <1>7 DEF w

\* A track that is added is shown, one that is removed is not, and each stays in
\* the stream of its owner.
LEMMA ShownStep ==
  ASSUME TypeInv, OwnerInv, NEW k \in Consumer
  PROVE  /\ AddTrack(k) => OwnerInv' /\ Shown' = Shown \union {k}
         /\ RemoveTrack(k) => OwnerInv' /\ Shown' = Shown \ {k}
         /\ UNCHANGED streams => OwnerInv' /\ Shown' = Shown
  <1> DEFINE o == OwnerOf[k]
  <1>1. o \in Remote /\ streams \in [Remote -> SUBSET Consumer]
    BY MediaClientAssumption DEF TypeInv
  <1>2. ASSUME NEW S, streams' = [streams EXCEPT ![o] = S]
        PROVE  \A p \in Remote : streams'[p] = IF p = o THEN S ELSE streams[p]
    BY <1>1, <1>2
  <1>3. ASSUME AddTrack(k)
        PROVE  OwnerInv' /\ Shown' = Shown \union {k}
    <2>1. \A p \in Remote : streams'[p] = IF p = o THEN streams[o] \union {k} ELSE streams[p]
      BY <1>2, <1>3, TrackStep
    <2>2. OwnerInv'
      BY <1>1, <2>1 DEF OwnerInv
    <2>3. Shown' = Shown \union {k}
      BY <1>1, <2>1 DEF Shown
    <2> QED BY <2>2, <2>3
  <1>4. ASSUME RemoveTrack(k)
        PROVE  OwnerInv' /\ Shown' = Shown \ {k}
    <2>1. \A p \in Remote : streams'[p] = IF p = o THEN streams[o] \ {k} ELSE streams[p]
      <3>1. \/ k \notin streams[o] /\ streams' = streams
            \/ streams[o] \ {k} = {} /\ streams' = [streams EXCEPT ![o] = {}]
            \/ streams' = [streams EXCEPT ![o] = streams[o] \ {k}]
        BY <1>4, TrackStep
      <3> QED BY <1>1, <1>2, <3>1
    <2>2. OwnerInv'
      BY <1>1, <2>1 DEF OwnerInv
    <2>3. \A p \in Remote : p # o => k \notin streams[p]
      BY DEF OwnerInv
    <2>4. Shown' = Shown \ {k}
      BY <1>1, <2>1, <2>3 DEF Shown
    <2> QED BY <2>2, <2>4
  <1>5. ASSUME UNCHANGED streams
        PROVE  OwnerInv' /\ Shown' = Shown
    BY <1>5 DEF OwnerInv, Shown
  <1> QED BY <1>3, <1>4, <1>5

\* The consumer that is awaited longest
LEMMA WaitingStep ==
  ASSUME TypeInv, Distinct(consuming)
  PROVE  /\ consuming # <<>> =>
              /\ Head(consuming) \in Waiting /\ Head(consuming) \in Consumer
              /\ consuming' = Tail(consuming) =>
                   Distinct(consuming)' /\ Waiting' = Waiting \ {Head(consuming)}
         /\ \A k \in Consumer : k \notin Waiting /\ consuming' = Append(consuming, k) =>
              Distinct(consuming)' /\ Waiting' = Waiting \union {k}
         /\ ToSet(consuming) = Waiting
         /\ UNCHANGED consuming => Distinct(consuming)' /\ Waiting' = Waiting
  <1>1. consuming \in Seq(Consumer)
    BY DEF TypeInv
  <1>2. ASSUME consuming # <<>>
        PROVE  /\ Head(consuming) \in Waiting /\ Head(consuming) \in Consumer
               /\ consuming' = Tail(consuming) =>
                    Distinct(consuming)' /\ Waiting' = Waiting \ {Head(consuming)}
    <2>1. /\ Len(consuming) \in Nat \ {0} /\ Head(consuming) = consuming[1]
          /\ consuming[1] \in Consumer
      BY <1>1, <1>2, Rest
    <2>2. Head(consuming) \in Waiting
      BY <2>1 DEF Waiting
    <2>3. ASSUME consuming' = Tail(consuming)
          PROVE  Distinct(consuming)' /\ Waiting' = Waiting \ {Head(consuming)}
      <3>1. /\ Len(consuming') = Len(consuming) - 1
            /\ \A i \in 1 .. Len(consuming) - 1 : consuming'[i] = consuming[i + 1]
        BY <1>1, <1>2, <2>3, Rest
      <3>2. \A i \in 1 .. Len(consuming') : i + 1 \in 1 .. Len(consuming) /\ i + 1 # 1
                                             /\ consuming'[i] = consuming[i + 1]
        BY <2>1, <3>1
      <3>3. \A i \in 1 .. Len(consuming) : i # 1 =>
              i - 1 \in 1 .. Len(consuming') /\ consuming'[i - 1] = consuming[i]
        <4>1. \A i \in 1 .. Len(consuming) : i # 1 =>
                i - 1 \in 1 .. Len(consuming) - 1 /\ (i - 1) + 1 = i
          BY <2>1
        <4> QED BY <3>1, <4>1
      <3>4. \A i, j \in 1 .. Len(consuming') : consuming'[i] = consuming'[j] => i = j
        <4> SUFFICES ASSUME NEW i \in 1 .. Len(consuming'), NEW j \in 1 .. Len(consuming'),
                            consuming'[i] = consuming'[j]
                     PROVE  i = j
          OBVIOUS
        <4>1. i + 1 = j + 1
          BY <3>2 DEF Distinct
        <4> QED BY <4>1
      <3>5. 1 \in 1 .. Len(consuming)
        BY <2>1
      <3>6. ASSUME NEW k \in Waiting, k # Head(consuming)
            PROVE  k \in Waiting'
        BY <2>1, <3>3, <3>6 DEF Waiting
      <3>7. ASSUME NEW k \in Waiting'
            PROVE  k \in Waiting /\ k # Head(consuming)
        BY <2>1, <3>2, <3>5 DEF Waiting, Distinct
      <3> QED BY <3>4, <3>6, <3>7 DEF Distinct
    <2> QED BY <2>1, <2>2, <2>3
  <1>3. ASSUME NEW k \in Consumer, k \notin Waiting, consuming' = Append(consuming, k)
        PROVE  Distinct(consuming)' /\ Waiting' = Waiting \union {k}
    <2>1. /\ Len(consuming) \in Nat /\ Len(consuming') = Len(consuming) + 1
          /\ \A i \in 1 .. Len(consuming) : consuming'[i] = consuming[i]
          /\ consuming'[Len(consuming) + 1] = k
      BY <1>1, <1>3, AppendProperties
    <2>2. \A i \in 1 .. Len(consuming') : i \in 1 .. Len(consuming) \/ i = Len(consuming) + 1
      BY <2>1
    <2>3. \A i \in 1 .. Len(consuming) : consuming[i] # k
      BY <1>3 DEF Waiting
    <2>4. Distinct(consuming)'
      BY <2>1, <2>2, <2>3 DEF Distinct
    <2>5. \A i \in 1 .. Len(consuming) : i \in 1 .. Len(consuming')
      BY <2>1
    <2>6. Len(consuming) + 1 \in 1 .. Len(consuming')
      BY <2>1
    <2>7. Waiting' = Waiting \union {k}
      BY <2>1, <2>2, <2>5, <2>6 DEF Waiting
    <2> QED BY <2>4, <2>7
  <1>4. ToSet(consuming) = Waiting
    BY <1>1 DEF ToSet, Waiting
  <1>5. UNCHANGED consuming => Distinct(consuming)' /\ Waiting' = Waiting
    BY DEF Distinct, Waiting
  <1> QED BY <1>2, <1>3, <1>4, <1>5

\* The SFU answers, or announces a consumer of which nobody has heard.
LEMMA OneMessage ==
  ASSUME TypeInv, Unique(inbox), Ordered(inbox), NEW m \in Incoming, m[1] # "closed",
         m[1] = "created" => m[2] \notin Coming \union Leaving,
         inbox' = Append(inbox, m)
  PROVE  /\ Unique(inbox)' /\ Ordered(inbox)' /\ Leaving' = Leaving
         /\ m[1] = "created" => Coming' = Coming \union {m[2]}
         /\ m[1] # "created" => Coming' = Coming
  <1> DEFINE r == <<m>>
  <1>1. inbox \in Seq(Incoming)
    BY DEF TypeInv
  <1>2. inbox' = inbox \o r /\ r \in Seq(Incoming) /\ Len(r) = 1 /\ r[1] = m
    BY <1>1, OneMore
  <1> HIDE DEF r
  <1>3. Unique(r) /\ Ordered(r)
    BY <1>2 DEF Unique, Ordered
  <1>4. Mentions(r, "closed") = {}
    BY <1>2 DEF Mentions
  <1>5. m[1] = "created" => Mentions(r, "created") = {m[2]}
    <2> SUFFICES ASSUME m[1] = "created"
                 PROVE  Mentions(r, "created") = {m[2]}
      OBVIOUS
    <2>1. m[2] \in Consumer /\ m = <<"created", m[2]>>
      BY DEF Incoming
    <2> QED BY <1>2, <2>1 DEF Mentions
  <1>6. m[1] # "created" => Mentions(r, "created") = {}
    BY <1>2 DEF Mentions
  <1>7. /\ \A t \in {"created", "closed"} : Mentions(inbox, t) \intersect Mentions(r, t) = {}
        /\ Mentions(inbox, "closed") \intersect Mentions(r, "created") = {}
    BY <1>4, <1>5, <1>6 DEF Coming, Leaving
  <1>8. /\ Unique(inbox \o r) /\ Ordered(inbox \o r)
        /\ Mentions(inbox \o r, "created") = Mentions(inbox, "created") \union Mentions(r, "created")
        /\ Mentions(inbox \o r, "closed") = Mentions(inbox, "closed") \union Mentions(r, "closed")
    BY <1>1, <1>2, <1>3, <1>7, QueueGrows
  <1>9. Unique(inbox)' /\ Ordered(inbox)'
    BY <1>2, <1>8 DEF Unique, Ordered
  <1>10. /\ Coming' = Mentions(inbox \o r, "created") /\ Coming = Mentions(inbox, "created")
         /\ Leaving' = Mentions(inbox \o r, "closed") /\ Leaving = Mentions(inbox, "closed")
    BY <1>2 DEF Coming, Leaving, Mentions
  <1>11. Coming' = Coming \union Mentions(r, "created") /\ Leaving' = Leaving
    BY <1>4, <1>8, <1>10
  <1> QED BY <1>5, <1>6, <1>9, <1>11

\* The SFU retracts consumers that it has not retracted before.
LEMMA Retracted ==
  ASSUME TypeInv, FiniteInv, Unique(inbox), Ordered(inbox), NEW K \in SUBSET Live,
         K \intersect Leaving = {}, inbox' = inbox \o SetToSeq({"closed"} \X K)
  PROVE  /\ Unique(inbox)' /\ Ordered(inbox)'
         /\ Coming' = Coming /\ Leaving' = Leaving \union K
  <1> DEFINE r == SetToSeq({"closed"} \X K)
  <1>1. inbox \in Seq(Incoming)
    BY DEF TypeInv
  <1>2. /\ r \in Seq({"closed"} \X K)
        /\ \A i, j \in 1 .. Len(r) : r[i] = r[j] => i = j
        /\ \A k \in K : \E i \in 1 .. Len(r) : r[i] = <<"closed", k>>
    BY ClosedNotes
  <1>3. inbox' = inbox \o r
    OBVIOUS
  <1> HIDE DEF r
  <1>4. {"closed"} \X K \subseteq Incoming /\ K \subseteq Consumer
    BY DEF Incoming, Live
  <1>5. r \in Seq(Incoming)
    BY <1>2, <1>4, SeqMonotonic
  <1>6. \A i \in 1 .. Len(r) : \E k \in K : r[i] = <<"closed", k>>
    <2> SUFFICES ASSUME NEW i \in 1 .. Len(r)
                 PROVE  \E k \in K : r[i] = <<"closed", k>>
      OBVIOUS
    <2>1. r[i] \in {"closed"} \X K
      BY <1>2
    <2> QED BY <2>1
  <1>7. Unique(r) /\ Ordered(r)
    <2>1. Unique(r)
      <3> SUFFICES ASSUME NEW i \in 1 .. Len(r), NEW j \in 1 .. Len(r),
                          NEW t \in {"created", "closed"}, NEW k \in Consumer,
                          r[i] = <<t, k>>, r[j] = <<t, k>>
                   PROVE  i = j
        BY DEF Unique
      <3> QED BY <1>2
    <2>2. Ordered(r)
      <3> SUFFICES ASSUME NEW i \in 1 .. Len(r), NEW k \in Consumer, r[i] = <<"created", k>>
                   PROVE  FALSE
        BY DEF Ordered
      <3> QED BY <1>6
    <2> QED BY <2>1, <2>2
  <1>8. Mentions(r, "created") = {} /\ Mentions(r, "closed") = K
    <2>1. Mentions(r, "created") = {}
      BY <1>6 DEF Mentions
    <2>2. ASSUME NEW k \in Mentions(r, "closed")
          PROVE  k \in K
      BY <1>6 DEF Mentions
    <2>3. ASSUME NEW k \in K
          PROVE  k \in Mentions(r, "closed")
      BY <1>2, <1>4 DEF Mentions
    <2> QED BY <2>1, <2>2, <2>3
  <1>9. /\ \A t \in {"created", "closed"} : Mentions(inbox, t) \intersect Mentions(r, t) = {}
        /\ Mentions(inbox, "closed") \intersect Mentions(r, "created") = {}
    BY <1>8 DEF Leaving
  <1>10. /\ Unique(inbox \o r) /\ Ordered(inbox \o r)
         /\ Mentions(inbox \o r, "created") = Mentions(inbox, "created") \union Mentions(r, "created")
         /\ Mentions(inbox \o r, "closed") = Mentions(inbox, "closed") \union Mentions(r, "closed")
    BY <1>1, <1>5, <1>7, <1>9, QueueGrows
  <1>11. Unique(inbox)' /\ Ordered(inbox)'
    BY <1>3, <1>10 DEF Unique, Ordered
  <1>12. /\ Coming' = Mentions(inbox \o r, "created") /\ Coming = Mentions(inbox, "created")
         /\ Leaving' = Mentions(inbox \o r, "closed") /\ Leaving = Mentions(inbox, "closed")
    BY <1>3 DEF Coming, Leaving, Mentions
  <1> QED BY <1>8, <1>10, <1>11, <1>12

\* The browser takes a message.
LEMMA Taken ==
  ASSUME TypeInv, Unique(inbox), Ordered(inbox), inbox # <<>>, inbox' = Tail(inbox)
  PROVE  LET m == Head(inbox)
         IN /\ Unique(inbox)' /\ Ordered(inbox)' /\ m \in Incoming
            /\ m[1] = "answer" => Coming' = Coming /\ Leaving' = Leaving
            /\ m[1] = "created" =>
                 /\ m[2] \in Coming /\ m[2] \in Consumer
                 /\ Coming' = Coming \ {m[2]} /\ Leaving' = Leaving
            /\ m[1] = "closed" =>
                 /\ m[2] \in Leaving \ Coming /\ m[2] \in Consumer
                 /\ Coming' = Coming /\ Leaving' = Leaving \ {m[2]}
  <1> DEFINE q == inbox
             m == q[1]
  <1>1. q \in Seq(Incoming) /\ Head(inbox) = m /\ m \in Incoming
    BY HeadTypes DEF TypeInv
  <1>2. /\ Unique(Tail(q)) /\ Ordered(Tail(q))
        /\ \A t \in {"created", "closed"} :
             /\ \A k \in Consumer : m = <<t, k>> =>
                  k \in Mentions(q, t) /\ Mentions(Tail(q), t) = Mentions(q, t) \ {k}
             /\ m[1] # t => Mentions(Tail(q), t) = Mentions(q, t)
        /\ \A k \in Consumer : m = <<"closed", k>> => k \notin Mentions(q, "created")
    BY <1>1, QueueShifts
  <1>3. Unique(inbox)' /\ Ordered(inbox)'
    BY <1>2 DEF Unique, Ordered
  <1>4. /\ Coming' = Mentions(Tail(q), "created") /\ Leaving' = Mentions(Tail(q), "closed")
        /\ Coming = Mentions(q, "created") /\ Leaving = Mentions(q, "closed")
    BY DEF Coming, Leaving, Mentions
  <1> HIDE DEF m
  <1>5. CASE m[1] = "answer"
    BY <1>1, <1>2, <1>3, <1>4, <1>5
  <1>6. CASE m[1] = "created"
    <2>1. m[2] \in Consumer /\ m = <<"created", m[2]>>
      BY <1>1, <1>6 DEF Incoming
    <2> QED BY <1>1, <1>2, <1>3, <1>4, <1>6, <2>1
  <1>7. CASE m[1] = "closed"
    <2>1. m[2] \in Consumer /\ m = <<"closed", m[2]>>
      BY <1>1, <1>7 DEF Incoming
    <2> QED BY <1>1, <1>2, <1>3, <1>4, <1>7, <2>1
  <1>8. m[1] \in {"answer", "created", "closed"}
    BY <1>1 DEF Incoming
  <1> QED BY <1>1, <1>5, <1>6, <1>7, <1>8

\* Together they are inductive.
LifeInv == QueueInv /\ StationInv /\ WayInv /\ OwnerInv

\* The browser and the SFU, as they act on a consumer's way to the screen
LEMMA LifeStep ==
  ASSUME TypeInv, FiniteInv, LifeInv, [Next]_vars
  PROVE  LifeInv'
  <1>1. /\ Unique(inbox) /\ Ordered(inbox) /\ Distinct(consuming)
        /\ StationInv /\ WayInv /\ OwnerInv
    BY DEF LifeInv, QueueInv
  <1>2. /\ UNCHANGED streams => OwnerInv' /\ Shown' = Shown
        /\ UNCHANGED srv => Live' = Live /\ Fresh' = Fresh
        /\ UNCHANGED <<missed, failed>> => Lost' = Lost
        /\ UNCHANGED consuming => Distinct(consuming)' /\ Waiting' = Waiting
        /\ UNCHANGED inbox => /\ Unique(inbox)' /\ Ordered(inbox)'
                              /\ Coming' = Coming /\ Leaving' = Leaving
    <2>1. UNCHANGED streams => OwnerInv' /\ Shown' = Shown
      BY <1>1 DEF OwnerInv, Shown
    <2>2. UNCHANGED srv => Live' = Live /\ Fresh' = Fresh
      BY DEF Live, Fresh
    <2>3. UNCHANGED <<missed, failed>> => Lost' = Lost
      BY DEF Lost
    <2>4. UNCHANGED consuming => Distinct(consuming)' /\ Waiting' = Waiting
      BY <1>1 DEF Distinct, Waiting
    <2>5. UNCHANGED inbox => Unique(inbox)' /\ Ordered(inbox)'
      BY <1>1 DEF Unique, Ordered
    <2>6. UNCHANGED inbox => Coming' = Coming /\ Leaving' = Leaving
      BY DEF Coming, Leaving, Mentions
    <2> QED BY <2>1, <2>2, <2>3, <2>4, <2>5, <2>6
  <1>3. ASSUME UNCHANGED <<Coming, Leaving, Waiting, Shown, Lost, Live, Fresh, known, ghosts>>,
               ~listening' => ~listening,
               Unique(inbox)', Ordered(inbox)', Distinct(consuming)', OwnerInv'
        PROVE  LifeInv'
    BY <1>1, <1>3 DEF LifeInv, QueueInv, StationInv, WayInv
  <1>4. CASE Serve
    <2>1. UNCHANGED <<srv, streams, listening, consuming, known, missed, ghosts, failed>>
      BY <1>4 DEF Serve, uiVars
    <2>2. CASE UNCHANGED inbox
      BY <1>2, <1>3, <2>1, <2>2
    <2>3. CASE Head(outbox) \in RequestType
               /\ inbox' = Append(inbox, <<"answer", Head(outbox)>>)
      <3>1. Head(outbox) \in Sent
        BY <1>4, Rest DEF Serve, TypeInv
      <3>2. <<"answer", Head(outbox)>> \in Incoming
        BY <2>3, <3>1 DEF Incoming, Sent, RequestType
      <3>3. Unique(inbox)' /\ Ordered(inbox)' /\ Leaving' = Leaving /\ Coming' = Coming
        BY <1>1, <2>3, <3>2, OneMessage
      <3> QED BY <1>2, <1>3, <2>1, <3>3
    <2> QED BY <1>4, <2>2, <2>3 DEF Serve
  <1>5. ASSUME NEW k \in Consumer, Announce(k)
        PROVE  LifeInv'
    <2>1. /\ UNCHANGED <<streams, listening, consuming, known, missed, ghosts, failed>>
          /\ srv[k] = "none" /\ srv' = [srv EXCEPT ![k] = "live"]
          /\ inbox' = Append(inbox, <<"created", k>>)
      BY <1>5 DEF Announce, uiVars
    <2>2. k \in Fresh /\ Fresh' = Fresh \ {k} /\ Live' = Live \union {k}
      BY <2>1 DEF Fresh, Live, TypeInv
    <2>3. k \notin Coming \union Leaving
      BY <1>1, <2>2 DEF StationInv
    <2>4. <<"created", k>> \in Incoming
      BY DEF Incoming
    <2>5. /\ Unique(inbox)' /\ Ordered(inbox)'
          /\ Leaving' = Leaving /\ Coming' = Coming \union {k}
      BY <1>1, <2>1, <2>3, <2>4, OneMessage
    <2>6. /\ OwnerInv' /\ Distinct(consuming)'
          /\ UNCHANGED <<Waiting, Shown, Lost, known, ghosts, listening>>
      BY <1>2, <2>1
    <2>7. StationInv'
      BY <1>1, <2>2, <2>5, <2>6 DEF StationInv
    <2>8. WayInv'
      BY <1>1, <2>2, <2>5, <2>6 DEF StationInv, WayInv
    <2> QED BY <2>5, <2>6, <2>7, <2>8 DEF LifeInv, QueueInv
  <1>6. ASSUME NEW K \in SUBSET Live, Retract(K)
        PROVE  LifeInv'
    <2>1. /\ UNCHANGED <<streams, listening, consuming, known, missed, ghosts, failed>>
          /\ srv' = [k \in Consumer |-> IF k \in K THEN "gone" ELSE srv[k]]
          /\ inbox' = inbox \o SetToSeq({"closed"} \X K)
      BY <1>6 DEF Retract, uiVars
    <2>2. Fresh' = Fresh /\ Live' = Live \ K
      BY <2>1 DEF Fresh, Live
    <2>3. K \intersect Leaving = {}
      BY <1>1 DEF WayInv
    <2>4. /\ Unique(inbox)' /\ Ordered(inbox)'
          /\ Coming' = Coming /\ Leaving' = Leaving \union K
      BY <1>1, <2>1, <2>3, Retracted
    <2>5. /\ OwnerInv' /\ Distinct(consuming)'
          /\ UNCHANGED <<Waiting, Shown, Lost, known, ghosts, listening>>
      BY <1>2, <2>1
    <2>6. K \intersect Fresh = {}
      BY DEF Live, Fresh
    <2>7. StationInv'
      BY <1>1, <2>2, <2>4, <2>5, <2>6 DEF StationInv
    <2>8. WayInv'
      BY <1>1, <2>2, <2>4, <2>5 DEF WayInv
    <2> QED BY <2>4, <2>5, <2>7, <2>8 DEF LifeInv, QueueInv
  <1>7. CASE Answered
    <2>1. /\ UNCHANGED <<srv, streams, listening, consuming, known, missed, ghosts, failed>>
          /\ inbox # <<>> /\ inbox' = Tail(inbox) /\ Head(inbox)[1] = "answer"
      BY <1>7 DEF Answered, Receive, serverVars, uiVars
    <2>2. Unique(inbox)' /\ Ordered(inbox)' /\ Coming' = Coming /\ Leaving' = Leaving
      BY <1>1, <2>1, Taken
    <2> QED BY <1>2, <1>3, <2>1, <2>2
  <1>8. CASE ConsumerCreated
    <2> DEFINE k == Head(inbox)[2]
    <2>1. /\ UNCHANGED <<srv, streams, listening, known, ghosts, failed>>
          /\ inbox # <<>> /\ inbox' = Tail(inbox) /\ Head(inbox)[1] = "created"
          /\ \/ consuming' = Append(consuming, k) /\ UNCHANGED missed
             \/ missed' = missed \union {k} /\ UNCHANGED consuming
      BY <1>8 DEF ConsumerCreated, Receive, serverVars, uiVars
    <2>2. /\ Unique(inbox)' /\ Ordered(inbox)' /\ k \in Coming /\ k \in Consumer
          /\ Coming' = Coming \ {k} /\ Leaving' = Leaving
      BY <1>1, <2>1, Taken
    <2> HIDE DEF k
    <2>3. OwnerInv' /\ UNCHANGED <<Shown, Live, Fresh, known, ghosts, listening>>
      BY <1>2, <2>1
    <2>4. k \notin Waiting \union known \union Lost \union ghosts \union Fresh
      BY <1>1, <2>2 DEF StationInv
    <2>5. CASE consuming' = Append(consuming, k) /\ UNCHANGED missed
      <3>1. Distinct(consuming)' /\ Waiting' = Waiting \union {k}
        BY <1>1, <2>2, <2>4, <2>5, WaitingStep
      <3>2. Lost' = Lost
        BY <1>2, <2>1, <2>5
      <3>3. StationInv'
        BY <1>1, <2>2, <2>3, <2>4, <3>1, <3>2 DEF StationInv
      <3>4. WayInv'
        BY <1>1, <2>2, <2>3, <2>4, <3>1, <3>2 DEF WayInv
      <3> QED BY <2>2, <2>3, <3>1, <3>3, <3>4 DEF LifeInv, QueueInv
    <2>6. CASE missed' = missed \union {k} /\ UNCHANGED consuming
      <3>1. Distinct(consuming)' /\ Waiting' = Waiting
        BY <1>2, <2>6
      <3>2. Lost' = Lost \union {k}
        BY <2>1, <2>6 DEF Lost
      <3>3. StationInv'
        BY <1>1, <2>2, <2>3, <2>4, <3>1, <3>2 DEF StationInv
      <3>4. WayInv'
        BY <1>1, <2>2, <2>3, <2>4, <3>1, <3>2 DEF WayInv
      <3> QED BY <2>2, <2>3, <3>1, <3>3, <3>4 DEF LifeInv, QueueInv
    <2> QED BY <2>1, <2>5, <2>6
  <1>9. CASE ConsumerClosed
    <2> DEFINE k == Head(inbox)[2]
    <2>1. /\ UNCHANGED <<srv, listening, consuming, known, missed, failed>>
          /\ inbox # <<>> /\ inbox' = Tail(inbox) /\ Head(inbox)[1] = "closed"
          /\ ghosts' = IF k \in ToSet(consuming) THEN ghosts \union {k} ELSE ghosts
          /\ IF k \in known /\ listening THEN RemoveTrack(k) ELSE UNCHANGED streams
      BY <1>9 DEF ConsumerClosed, Receive, serverVars
    <2>2. /\ Unique(inbox)' /\ Ordered(inbox)' /\ k \in Leaving \ Coming /\ k \in Consumer
          /\ Coming' = Coming /\ Leaving' = Leaving \ {k}
      BY <1>1, <2>1, Taken
    <2> HIDE DEF k
    <2>3. /\ Distinct(consuming)'
          /\ UNCHANGED <<Waiting, Lost, Live, Fresh, known, listening>>
      BY <1>2, <2>1
    <2>4. OwnerInv' /\ Shown' = Shown \ {k}
      <3>1. CASE k \in known /\ listening
        BY <1>1, <2>1, <2>2, <3>1, ShownStep
      <3>2. CASE ~(k \in known /\ listening)
        <4>1. OwnerInv' /\ Shown' = Shown
          BY <1>2, <2>1, <3>2
        <4>2. k \notin Shown
          BY <1>1, <3>2 DEF StationInv
        <4> QED BY <4>1, <4>2
      <3> QED BY <3>1, <3>2
    <2>5. ghosts' = IF k \in Waiting THEN ghosts \union {k} ELSE ghosts
      BY <1>1, <2>1, WaitingStep
    <2>6. k \notin Fresh /\ k \notin Live /\ k \notin ghosts /\ (k \in Waiting => k \notin Shown)
      BY <1>1, <2>2 DEF StationInv, WayInv
    <2>7. StationInv'
      BY <1>1, <2>2, <2>3, <2>4, <2>5, <2>6 DEF StationInv
    <2>8. WayInv'
      BY <1>1, <2>2, <2>3, <2>4, <2>5, <2>6 DEF WayInv
    <2> QED BY <2>2, <2>3, <2>4, <2>7, <2>8 DEF LifeInv, QueueInv
  <1>10. CASE Consumed
    <2> DEFINE k == Head(consuming)
    <2>1. /\ UNCHANGED <<srv, listening, inbox, ghosts, failed>>
          /\ consuming # <<>> /\ consuming' = Tail(consuming) /\ known' = known \union {k}
          /\ IF listening THEN AddTrack(k) /\ UNCHANGED missed
             ELSE missed' = missed \union {k} /\ UNCHANGED streams
      BY <1>10 DEF Consumed, serverVars
    <2>2. /\ k \in Waiting /\ k \in Consumer /\ Distinct(consuming)'
          /\ Waiting' = Waiting \ {k}
      BY <1>1, <2>1, WaitingStep
    <2> HIDE DEF k
    <2>3. /\ Unique(inbox)' /\ Ordered(inbox)'
          /\ UNCHANGED <<Coming, Leaving, Live, Fresh, ghosts, listening>>
      BY <1>2, <2>1
    <2>4. k \notin Fresh \union Coming \union known \union Lost
      BY <1>1, <2>2 DEF StationInv
    <2>5. CASE listening
      <3>1. OwnerInv' /\ Shown' = Shown \union {k}
        BY <1>1, <2>1, <2>2, <2>5, ShownStep
      <3>2. Lost' = Lost
        BY <1>2, <2>1, <2>5
      <3>3. StationInv'
        BY <1>1, <2>1, <2>2, <2>3, <2>4, <2>5, <3>1, <3>2 DEF StationInv
      <3>4. WayInv'
        BY <1>1, <2>2, <2>3, <3>1, <3>2 DEF WayInv
      <3> QED BY <2>2, <2>3, <3>1, <3>3, <3>4 DEF LifeInv, QueueInv
    <2>6. CASE ~listening
      <3>1. OwnerInv' /\ Shown' = Shown /\ Shown = {}
        BY <1>1, <1>2, <2>1, <2>6 DEF StationInv
      <3>2. Lost' = Lost \union {k}
        BY <2>1, <2>6 DEF Lost
      <3>3. StationInv'
        BY <1>1, <2>1, <2>2, <2>3, <2>4, <3>1, <3>2 DEF StationInv
      <3>4. WayInv'
        BY <1>1, <2>2, <2>3, <3>1, <3>2 DEF WayInv
      <3> QED BY <2>2, <2>3, <3>1, <3>3, <3>4 DEF LifeInv, QueueInv
    <2> QED BY <2>5, <2>6
  <1>11. CASE ConsumeRejected
    <2> DEFINE k == Head(consuming)
    <2>1. /\ UNCHANGED <<srv, listening, streams, inbox, known, missed, ghosts>>
          /\ consuming # <<>> /\ consuming' = Tail(consuming) /\ failed' = failed \union {k}
      BY <1>11 DEF ConsumeRejected, serverVars, uiVars
    <2>2. /\ k \in Waiting /\ Distinct(consuming)' /\ Waiting' = Waiting \ {k}
      BY <1>1, <2>1, WaitingStep
    <2> HIDE DEF k
    <2>3. /\ Unique(inbox)' /\ Ordered(inbox)' /\ OwnerInv'
          /\ UNCHANGED <<Coming, Leaving, Live, Fresh, Shown, known, ghosts, listening>>
      BY <1>2, <2>1
    <2>4. Lost' = Lost \union {k}
      BY <2>1 DEF Lost
    <2>5. k \notin Fresh \union Coming \union known
      BY <1>1, <2>2 DEF StationInv
    <2>6. StationInv'
      BY <1>1, <2>2, <2>3, <2>4, <2>5 DEF StationInv
    <2>7. WayInv'
      BY <1>1, <2>2, <2>3, <2>4 DEF WayInv
    <2> QED BY <2>2, <2>3, <2>6, <2>7 DEF LifeInv, QueueInv
  <1>12. CASE RoomAdd \/ DeviceLoaded \/ DeviceRejected \/ Rendered \/ UNCHANGED vars
    <2>1. /\ UNCHANGED <<srv, inbox, streams, consuming, known, missed, ghosts, failed>>
          /\ ~listening' => ~listening
      BY <1>12 DEF RoomAdd, DeviceLoaded, DeviceRejected, Rendered, vars, serverVars, uiVars
    <2> QED BY <1>2, <1>3, <2>1
  <1> QED BY <1>4, <1>5, <1>6, <1>7, <1>8, <1>9, <1>10, <1>11, <1>12 DEF Next, Browser

\* When all is processed the participant sees the live consumers: none that the
\* SFU holds is absent but those that were missed or failed, and none is left
\* that it retracted but those retracted while they were being set up.
THEOREM MediaShownExact == Spec => []ShownExact
  <1>1. Init => LifeInv
    <2> SUFFICES ASSUME Init
                 PROVE  LifeInv
      OBVIOUS
    <2>1. Len(inbox) = 0 /\ Len(consuming) = 0
      BY DEF Init
    <2>2. QueueInv
      BY <2>1 DEF QueueInv, Unique, Ordered, Distinct
    <2>3. Coming = {} /\ Leaving = {} /\ Waiting = {}
      BY <2>1 DEF Coming, Leaving, Waiting, Mentions
    <2>4. Shown = {} /\ Lost = {} /\ Live = {} /\ known = {} /\ ghosts = {} /\ OwnerInv
      BY DEF Init, Shown, Lost, Live, OwnerInv
    <2> QED BY <2>2, <2>3, <2>4 DEF LifeInv, StationInv, WayInv
  <1>2. TypeInv /\ FiniteInv /\ LifeInv /\ [Next]_vars => LifeInv'
    BY LifeStep
  <1>3. LifeInv => ShownExact
    <2> SUFFICES ASSUME LifeInv, Settled
                 PROVE  Shown = ((Live \union ghosts) \ missed) \ failed
      BY DEF ShownExact
    <2>1. Len(inbox) = 0 /\ Len(consuming) = 0
      BY DEF Settled
    <2>2. Coming = {} /\ Leaving = {} /\ Waiting = {}
      BY <2>1 DEF Coming, Leaving, Waiting, Mentions
    <2> QED BY <2>2 DEF LifeInv, StationInv, WayInv, Lost
  <1> QED BY <1>1, <1>2, <1>3, Types, PTL DEF Spec
=============================================================================
