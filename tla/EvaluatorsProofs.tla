-------------------------- MODULE EvaluatorsProofs --------------------------
(***************************************************************************)
(* Theorems about Evaluators, for any number of clients, calls,            *)
(* connections, pads and evaluations, and however many overlap.            *)
(***************************************************************************)
EXTENDS Evaluators, FiniteSetTheorems, SequenceTheorems, TLAPS

-----------------------------------------------------------------------------
(* The storages, and the counters.                                         *)

\* What exists and what is gone; the next context lists a part of it.
StorageInv ==
  /\ IsFiniteSet(here) /\ IsFiniteSet(past)
  /\ here \intersect past = {}
  /\ added \subseteq here \union past
  /\ removed \subseteq past
  /\ \A c \in Client \intersect here : CallOf[c] \in here

CounterInv ==
  /\ opened \in [Kind -> Nat]
  /\ closed \in [Kind -> Nat]
  /\ CountersBalance

\* How many elements of S are in K
Number(S, K) == Cardinality(S \intersect K)

\* Two disjoint finite sets have as many elements as both together.
LEMMA DisjointUnion ==
  ASSUME NEW S, NEW T, IsFiniteSet(S), IsFiniteSet(T), S \intersect T = {}
  PROVE  Cardinality(S \union T) = Cardinality(S) + Cardinality(T)
  <1>1. Cardinality(S \intersect T) = 0
    BY FS_EmptySet
  <1>2. Cardinality(S) \in Nat /\ Cardinality(T) \in Nat
    BY FS_CardinalityType
  <1>3. Cardinality(S \union T) =
          Cardinality(S) + Cardinality(T) - Cardinality(S \intersect T)
    BY FS_Union
  <1> QED BY <1>1, <1>2, <1>3

\* The elements of two disjoint sets are counted one by one.
LEMMA Count ==
  ASSUME NEW S, NEW T, NEW K, IsFiniteSet(S), IsFiniteSet(T), S \intersect T = {}
  PROVE  /\ Number(S, K) \in Nat
         /\ Number(T, K) \in Nat
         /\ Number(S \union T, K) = Number(S, K) + Number(T, K)
  <1> DEFINE A == S \intersect K
             B == T \intersect K
  <1>1. A \in SUBSET S /\ B \in SUBSET T /\ A \intersect B = {}
    OBVIOUS
  <1>2. (S \union T) \intersect K = A \union B
    OBVIOUS
  <1> HIDE DEF A, B
  <1>3. IsFiniteSet(A) /\ IsFiniteSet(B)
    BY <1>1, FS_Subset
  <1>4. Cardinality(A) \in Nat /\ Cardinality(B) \in Nat
    BY <1>3, FS_CardinalityType
  <1>5. Cardinality(A \union B) = Cardinality(A) + Cardinality(B)
    BY <1>1, <1>3, DisjointUnion
  <1> QED BY <1>2, <1>4, <1>5 DEF A, B, Number

\* What comes was never there, what goes is there: the storages stay consistent,
\* and the context lists each of them once.
LEMMA ChangesStorage ==
  ASSUME StorageInv, NEW come, NEW go, IsFiniteSet(come),
         go \subseteq here, come = {} \/ go = {}, Changes(come, go)
  PROVE  /\ IsFiniteSet(here') /\ IsFiniteSet(past') /\ IsFiniteSet(go)
         /\ here' \intersect past' = {}
         /\ added' \subseteq here' \union past'
         /\ removed' \subseteq past'
         /\ here' \union go = here \union come
         /\ here' \intersect go = {} /\ here \intersect come = {}
         /\ added \intersect come = {} /\ removed \intersect go = {}
  <1>1. /\ come \intersect (here \union past) = {}
        /\ here' = (here \union come) \ go
        /\ past' = past \union go
        /\ added' = added \union come
        /\ removed' = removed \union go
    BY DEF Changes
  <1>2. IsFiniteSet(go)
    BY FS_Subset DEF StorageInv
  <1>3. IsFiniteSet(past')
    BY <1>1, <1>2, FS_Union DEF StorageInv
  <1>4. IsFiniteSet(here')
    <2>1. IsFiniteSet(here \union come)
      BY FS_Union DEF StorageInv
    <2> QED BY <1>1, <2>1, FS_Subset
  <1> QED BY <1>1, <1>2, <1>3, <1>4 DEF StorageInv

\* A change of the storages is in the balance of every kind at once.
LEMMA ChangesCounters ==
  ASSUME StorageInv, CounterInv, NEW come, NEW go, IsFiniteSet(come),
         go \subseteq here, come = {} \/ go = {}, Changes(come, go)
  PROVE  CounterInv'
  <1>1. opened' = opened /\ closed' = closed
    BY DEF Changes, metricVars
  <1>2. ASSUME NEW k \in Kind
        PROVE  opened[k] + Cardinality(added' \intersect Kinds[k]) =
                 closed[k] + Cardinality(removed' \intersect Kinds[k])
                           + Cardinality(here' \intersect Kinds[k])
    <2> DEFINE of(S) == Number(S, Kinds[k])
    <2>1. added' = added \union come /\ removed' = removed \union go
      BY DEF Changes
    <2>2. IsFiniteSet(added) /\ IsFiniteSet(removed)
      <3>1. IsFiniteSet(here \union past)
        BY FS_Union DEF StorageInv
      <3> QED BY <3>1, FS_Subset DEF StorageInv
    <2>3. /\ IsFiniteSet(here') /\ IsFiniteSet(go) /\ IsFiniteSet(here)
          /\ here' \union go = here \union come
          /\ here' \intersect go = {} /\ here \intersect come = {}
          /\ added \intersect come = {} /\ removed \intersect go = {}
      BY ChangesStorage DEF StorageInv
    <2>4. ASSUME NEW S, NEW T, IsFiniteSet(S), IsFiniteSet(T), S \intersect T = {}
          PROVE  of(S \union T) = of(S) + of(T) /\ of(S) \in Nat /\ of(T) \in Nat
      BY <2>4, Count
    <2> HIDE DEF of
    <2>5. of(added') = of(added) + of(come) /\ of(added) \in Nat /\ of(come) \in Nat
      BY <2>1, <2>2, <2>3, <2>4
    <2>6. of(removed') = of(removed) + of(go) /\ of(removed) \in Nat /\ of(go) \in Nat
      BY <2>1, <2>2, <2>3, <2>4
    <2>7. /\ of(here') + of(go) = of(here) + of(come)
          /\ of(here') \in Nat /\ of(here) \in Nat
      <3>1. of(here \union come) = of(here) + of(come) /\ of(here) \in Nat
        BY <2>3, <2>4
      <3>2. of(here' \union go) = of(here') + of(go) /\ of(here') \in Nat
        BY <2>3, <2>4
      <3> QED BY <2>3, <3>1, <3>2
    <2>8. opened[k] + of(added) = closed[k] + of(removed) + of(here)
          /\ opened[k] \in Nat /\ closed[k] \in Nat
      BY DEF CounterInv, CountersBalance, Number, of
    <2>9. opened[k] + of(added') = closed[k] + of(removed') + of(here')
      BY <2>5, <2>6, <2>7, <2>8
    <2> QED BY <2>9 DEF of, Number
  <1> QED BY <1>1, <1>2 DEF CounterInv, CountersBalance

\* The operations of observer-js are such changes.
LEMMA StorageStep ==
  ASSUME StorageInv, CounterInv, ObserverJs
  PROVE  StorageInv' /\ CounterInv'
  <1> USE EvaluatorsAssumption
  <1>1. ASSUME NEW c \in Client, Joins(c)
        PROVE  StorageInv' /\ CounterInv'
    <2> DEFINE come == {c} \union ({CallOf[c]} \ here)
    <2>1. IsFiniteSet(come) /\ {} \subseteq here /\ Changes(come, {})
      <3>1. IsFiniteSet({c}) /\ IsFiniteSet({CallOf[c]})
        BY FS_Singleton
      <3>2. IsFiniteSet({CallOf[c]} \ here)
        BY <3>1, FS_Subset
      <3> QED BY <1>1, <3>1, <3>2, FS_Union DEF Joins
    <2>2. here' = here \union come
      BY <2>1 DEF Changes
    <2>3. \A d \in Client \intersect here' : CallOf[d] \in here'
      BY <2>2 DEF StorageInv
    <2> HIDE DEF come
    <2> QED BY <2>1, <2>3, ChangesStorage, ChangesCounters DEF StorageInv
  <1>2. ASSUME NEW c \in Client, Detaches(c)
        PROVE  StorageInv' /\ CounterInv'
    <2> DEFINE ends == {x \in {CallOf[c]} : Participants(x) = {c}}
               go == {c} \union {p \in Connection \intersect here : ClientOf[p] = c}
                         \union ends
    <2>1. go \subseteq here /\ Changes({}, go)
      BY <1>2 DEF Detaches, StorageInv
    <2>2. here' = here \ go
      BY <2>1 DEF Changes
    <2>3. \A d \in Client \intersect here' : CallOf[d] \in here'
      <3> SUFFICES ASSUME NEW d \in Client \intersect here'
                   PROVE  CallOf[d] \in here'
        OBVIOUS
      <3>1. d \in here /\ d # c /\ CallOf[d] \in here /\ CallOf[d] \in Call
        BY <2>2 DEF StorageInv
      <3>2. CallOf[d] \notin ends
        BY <3>1 DEF Participants
      <3> QED BY <2>2, <3>1, <3>2
    <2>4. IsFiniteSet({})
      BY FS_EmptySet
    <2> HIDE DEF go
    <2> QED BY <2>1, <2>3, <2>4, ChangesStorage, ChangesCounters DEF StorageInv
  <1>3. ASSUME NEW p \in Connection \union Pad \union Other, Opens(p)
        PROVE  StorageInv' /\ CounterInv'
    <2>1. IsFiniteSet({p}) /\ Changes({p}, {})
      BY <1>3, FS_Singleton DEF Opens
    <2>2. \A d \in Client \intersect here' : CallOf[d] \in here'
      BY <2>1 DEF Changes, StorageInv
    <2> QED BY <2>1, <2>2, ChangesStorage, ChangesCounters DEF StorageInv
  <1>4. ASSUME NEW p \in Connection \union Pad \union Other, Closes(p)
        PROVE  StorageInv' /\ CounterInv'
    <2>1. IsFiniteSet({}) /\ {p} \subseteq here /\ Changes({}, {p})
      BY <1>4, FS_EmptySet DEF Closes
    <2>2. \A d \in Client \intersect here' : CallOf[d] \in here'
      BY <2>1 DEF Changes, StorageInv
    <2> QED BY <2>1, <2>2, ChangesStorage, ChangesCounters DEF StorageInv
  <1>5. ASSUME NEW x \in Call, Drops(x)
        PROVE  StorageInv' /\ CounterInv'
    BY <1>5 DEF Drops, StorageInv, CounterInv, CountersBalance, metricVars
  <1> QED BY <1>1, <1>2, <1>3, <1>4, <1>5 DEF ObserverJs

\* A context is counted by the evaluation it begins, and by no other step.
LEMMA EvaluationStep ==
  ASSUME StorageInv, CounterInv, NEW e \in 1 .. Evaluations, Evaluation(e)
  PROVE  StorageInv' /\ CounterInv'
  <1>1. CASE Begin(e)
    <2>1. /\ opened' = Inc(opened, added) /\ closed' = Inc(closed, removed)
          /\ added' = {} /\ removed' = {} /\ UNCHANGED <<here, past>>
      BY <1>1 DEF Begin
    <2>2. IsFiniteSet(added) /\ IsFiniteSet(removed) /\ IsFiniteSet({})
      <3>1. IsFiniteSet(here \union past)
        BY FS_Union DEF StorageInv
      <3> QED BY <3>1, FS_Subset, FS_EmptySet DEF StorageInv
    <2>3. ASSUME NEW k \in Kind
          PROVE  /\ opened'[k] \in Nat /\ closed'[k] \in Nat
                 /\ opened'[k] + Cardinality({} \intersect Kinds[k]) =
                      closed'[k] + Cardinality({} \intersect Kinds[k])
                                 + Cardinality(here \intersect Kinds[k])
      <3> DEFINE of(S) == Number(S, Kinds[k])
      <3>1. opened'[k] = opened[k] + of(added) /\ closed'[k] = closed[k] + of(removed)
        BY <2>1 DEF Inc, Number
      <3>2. of(added) \in Nat /\ of(removed) \in Nat /\ of(here) \in Nat
        BY <2>2, Count DEF StorageInv
      <3>3. of({}) = 0
        <4>1. {} \intersect Kinds[k] = {}
          OBVIOUS
        <4> QED BY <4>1, FS_EmptySet DEF Number
      <3>4. opened[k] + of(added) = closed[k] + of(removed) + of(here)
            /\ opened[k] \in Nat /\ closed[k] \in Nat
        BY DEF CounterInv, CountersBalance, Number
      <3> HIDE DEF of
      <3>5. /\ opened'[k] \in Nat /\ closed'[k] \in Nat
            /\ opened'[k] + of({}) = closed'[k] + of({}) + of(here)
        BY <3>1, <3>2, <3>3, <3>4
      <3> QED BY <3>5 DEF of, Number
    <2>4. opened' \in [Kind -> Nat] /\ closed' \in [Kind -> Nat]
      BY <2>1, <2>3 DEF Inc
    <2> QED BY <2>1, <2>3, <2>4 DEF StorageInv, CounterInv, CountersBalance
  <1>2. CASE ~Begin(e)
    <2>1. UNCHANGED <<here, past, added, removed, opened, closed>>
      BY <1>2 DEF Evaluation, FetchCall, RecordCall, CallsRead, ReadConnection,
                  ConnectionsRead, CountClients, TurnObserved, FirstSize, SecondSize,
                  StreamsObserved, storageVars, metricVars
    <2> QED BY <2>1 DEF StorageInv, CounterInv, CountersBalance
  <1> QED BY <1>1, <1>2

\* The storages stay consistent, and the counters balanced.
THEOREM Invariance == Spec => [](StorageInv /\ CounterInv)
  <1>1. Init => StorageInv /\ CounterInv
    <2> SUFFICES ASSUME Init
                 PROVE  StorageInv /\ CounterInv
      OBVIOUS
    <2>1. /\ here = {} /\ past = {} /\ added = {} /\ removed = {}
          /\ opened = [k \in Kind |-> 0] /\ closed = [k \in Kind |-> 0]
      BY DEF Init
    <2>2. StorageInv
      BY <2>1, FS_EmptySet DEF StorageInv
    <2>3. \A K : {} \intersect K = {}
      OBVIOUS
    <2> QED BY <2>1, <2>2, <2>3, FS_EmptySet DEF CounterInv, CountersBalance
  <1>2. StorageInv /\ CounterInv /\ [Next]_vars => StorageInv' /\ CounterInv'
    <2>1. ASSUME StorageInv, CounterInv, UNCHANGED vars
          PROVE  StorageInv' /\ CounterInv'
      BY <2>1 DEF vars, storageVars, metricVars, StorageInv, CounterInv, CountersBalance
    <2> QED BY <2>1, StorageStep, EvaluationStep DEF Next
  <1> QED BY <1>1, <1>2, PTL DEF Spec

\* Through any overlap of changes and evaluations the counters miss nothing and
\* repeat nothing.
THEOREM EvaluatorsCountersBalance == Spec => []CountersBalance
  <1>1. CounterInv => CountersBalance
    BY DEF CounterInv
  <1> QED BY <1>1, Invariance, PTL
-----------------------------------------------------------------------------
(* The local variables of the evaluations.                                 *)

LocalVars ==
  [pc : {"none", "calls", "turn", "size", "sized", "sfu", "second", "sum", "done"},
   visited : SUBSET (Call \union Connection \union Pad), call : SUBSET Call,
   users : SUBSET Client, count : Nat]

\* Only the first loop holds a call, one at a time, and knows no users yet.
Loop(l) ==
  /\ \A x, y \in l.call : x = y
  /\ l.pc # "calls" => l.call = {}
  /\ l.pc \in {"none", "calls"} => l.users = {}

\* Evaluations begin in the order of their numbers.
EvalInv ==
  /\ eval \in [1 .. Evaluations -> LocalVars]
  /\ \A e \in 1 .. Evaluations : Loop(eval[e])
  /\ \A e, f \in 1 .. Evaluations : e < f /\ At(e, "none") => At(f, "none")

\* The pads of one side and of the other are all pads.
LEMMA SidesSum ==
  ASSUME IsFiniteSet(here), NEW s \in Sides
  PROVE  /\ Cardinality(s \intersect here) \in Nat
         /\ Cardinality((Pad \ s) \intersect here) \in Nat
         /\ Cardinality(s \intersect here) + Cardinality((Pad \ s) \intersect here)
              = Cardinality(Pad \intersect here)
  <1> DEFINE A == s \intersect here
             B == (Pad \ s) \intersect here
  <1>1. A \in SUBSET here /\ B \in SUBSET here /\ A \intersect B = {}
    OBVIOUS
  <1>2. A \union B = Pad \intersect here
    BY DEF Sides
  <1> HIDE DEF A, B
  <1>3. IsFiniteSet(A) /\ IsFiniteSet(B)
    BY <1>1, FS_Subset
  <1>4. Cardinality(A) \in Nat /\ Cardinality(B) \in Nat
    BY <1>3, FS_CardinalityType
  <1>5. Cardinality(A \union B) = Cardinality(A) + Cardinality(B)
    BY <1>1, <1>3, DisjointUnion
  <1>6. Cardinality(A \union B) = Cardinality(Pad \intersect here)
    BY <1>2
  <1> QED BY <1>4, <1>5, <1>6 DEF A, B

\* How many clients a call has; none when it is over.
LEMMA ParticipantsCount ==
  ASSUME StorageInv, NEW x \in Call
  PROVE  /\ Cardinality(Participants(x)) \in Nat
         /\ x \in past => Cardinality(Participants(x)) = 0
  <1>1. Participants(x) \subseteq here
    BY DEF Participants
  <1>2. IsFiniteSet(Participants(x))
    BY <1>1, FS_Subset DEF StorageInv
  <1>3. x \in past => Participants(x) = {}
    BY DEF StorageInv, Participants
  <1> QED BY <1>2, <1>3, FS_CardinalityType, FS_EmptySet

\* The local variables of evaluation e are all that its steps change in eval.
LEMMA EvalStep ==
  ASSUME StorageInv, EvalInv, NEW e \in 1 .. Evaluations, Evaluation(e)
  PROVE  /\ EvalInv'
         /\ \A f \in 1 .. Evaluations \ {e} : eval'[f] = eval[f]
         /\ ~At(e, "none")'
  <1> USE EvaluatorsAssumption
  <1>1. ASSUME NEW l \in LocalVars, eval' = [eval EXCEPT ![e] = l], l.pc # "none",
               Loop(l), \A f \in 1 .. e - 1 : ~At(f, "none")
        PROVE  /\ EvalInv'
               /\ \A f \in 1 .. Evaluations \ {e} : eval'[f] = eval[f]
               /\ ~At(e, "none")'
    BY <1>1 DEF EvalInv, At
  <1>2. ~At(e, "none") => \A f \in 1 .. e - 1 : ~At(f, "none")
    BY DEF EvalInv
  <1>3. eval[e] \in LocalVars /\ Loop(eval[e])
    BY DEF EvalInv
  <1>4. CASE Begin(e)
    <2> DEFINE l == [eval[e] EXCEPT !.pc = "calls"]
    <2>1. eval' = [eval EXCEPT ![e] = l] /\ \A f \in 1 .. e - 1 : ~At(f, "none")
      BY <1>4 DEF Begin
    <2>2. l \in LocalVars /\ l.pc = "calls" /\ Loop(l)
      BY <1>3, <1>4 DEF Begin, LocalVars, Loop, At
    <2> HIDE DEF l
    <2> QED BY <1>1, <2>1, <2>2
  <1> DEFINE Moved(l) == /\ eval' = [eval EXCEPT ![e] = l]
                         /\ l.pc # "none" /\ Loop(l) /\ ~At(e, "none")
  <1>5. ASSUME NEW x \in Call, FetchCall(e, x)
        PROVE  \E l \in LocalVars : Moved(l)
    <2> DEFINE n == Cardinality(Participants(x))
               l == [eval[e] EXCEPT !.visited = @ \union {x}, !.call = {x}, !.count = n]
    <2>1. eval' = [eval EXCEPT ![e] = l]
      BY <1>5 DEF FetchCall
    <2>2. n \in Nat
      BY ParticipantsCount
    <2>3. l \in LocalVars /\ l.pc = "calls" /\ Loop(l) /\ ~At(e, "none")
      BY <1>3, <1>5, <2>2 DEF FetchCall, LocalVars, Loop, At
    <2> HIDE DEF l
    <2> QED BY <2>1, <2>3
  <1>6. ASSUME NEW x \in Call, RecordCall(e, x)
        PROVE  \E l \in LocalVars : Moved(l)
    <2> DEFINE l == [eval[e] EXCEPT !.call = {}, !.count = 0]
    <2>1. eval' = [eval EXCEPT ![e] = l]
      BY <1>6 DEF RecordCall
    <2>2. l \in LocalVars /\ l.pc = "calls" /\ Loop(l) /\ ~At(e, "none")
      BY <1>3, <1>6 DEF RecordCall, LocalVars, Loop, At
    <2> HIDE DEF l
    <2> QED BY <2>1, <2>2
  <1>7. CASE CallsRead(e)
    <2> DEFINE l == [eval[e] EXCEPT !.pc = "turn", !.visited = {}]
    <2>1. eval' = [eval EXCEPT ![e] = l]
      BY <1>7 DEF CallsRead
    <2>2. l \in LocalVars /\ l.pc = "turn" /\ Loop(l) /\ ~At(e, "none")
      BY <1>3, <1>7 DEF CallsRead, LocalVars, Loop, At
    <2> HIDE DEF l
    <2>3. Moved(l)
      BY <2>1, <2>2
    <2> QED BY <1>1, <1>2, <2>2, <2>3
  <1>8. ASSUME NEW p \in Connection, ReadConnection(e, p)
        PROVE  \E l \in LocalVars : Moved(l)
    <2> DEFINE l == [eval[e] EXCEPT
                       !.visited = @ \union {p},
                       !.users = IF p \in Relayed THEN @ \union {User(p)} ELSE @]
    <2>1. eval' = [eval EXCEPT ![e] = l]
      BY <1>8 DEF ReadConnection
    <2>2. l \in LocalVars /\ l.pc = "turn" /\ Loop(l) /\ ~At(e, "none")
      BY <1>3, <1>8 DEF ReadConnection, LocalVars, Loop, At, User
    <2> HIDE DEF l
    <2> QED BY <2>1, <2>2
  <1>9. CASE ConnectionsRead(e)
    <2> DEFINE l == [eval[e] EXCEPT !.pc = "size", !.visited = {}]
    <2>1. eval' = [eval EXCEPT ![e] = l]
      BY <1>9 DEF ConnectionsRead
    <2>2. l \in LocalVars /\ l.pc = "size" /\ Loop(l) /\ ~At(e, "none")
      BY <1>3, <1>9 DEF ConnectionsRead, LocalVars, Loop, At
    <2> HIDE DEF l
    <2>3. Moved(l)
      BY <2>1, <2>2
    <2> QED BY <1>1, <1>2, <2>2, <2>3
  <1>10. CASE CountClients(e)
    <2> DEFINE n == Cardinality(Client \intersect here)
               l == [eval[e] EXCEPT !.pc = "sized", !.count = n]
    <2>1. eval' = [eval EXCEPT ![e] = l]
      BY <1>10 DEF CountClients
    <2>2. n \in Nat
      <3>1. IsFiniteSet(Client \intersect here)
        BY FS_Subset DEF StorageInv
      <3> QED BY <3>1, FS_CardinalityType
    <2>3. l \in LocalVars /\ l.pc = "sized" /\ Loop(l) /\ ~At(e, "none")
      BY <1>3, <1>10, <2>2 DEF CountClients, LocalVars, Loop, At
    <2> HIDE DEF l
    <2> QED BY <1>1, <1>2, <2>1, <2>3
  <1>11. CASE TurnObserved(e)
    <2> DEFINE l == [eval[e] EXCEPT !.pc = "sfu", !.users = {}, !.count = 0]
    <2>1. eval' = [eval EXCEPT ![e] = l]
      BY <1>11 DEF TurnObserved
    <2>2. l \in LocalVars /\ l.pc = "sfu" /\ Loop(l) /\ ~At(e, "none")
      BY <1>3, <1>11 DEF TurnObserved, LocalVars, Loop, At
    <2> HIDE DEF l
    <2>3. Moved(l)
      BY <2>1, <2>2
    <2> QED BY <1>1, <1>2, <2>2, <2>3
  <1>12. CASE FirstSize(e)
    <2>1. PICK s \in Sides :
            eval' = [eval EXCEPT ![e].pc = "second", ![e].visited = s,
                                 ![e].count = Cardinality(s \intersect here)]
      BY <1>12 DEF FirstSize
    <2> DEFINE l == [eval[e] EXCEPT !.pc = "second", !.visited = s,
                                    !.count = Cardinality(s \intersect here)]
    <2>2. eval' = [eval EXCEPT ![e] = l]
      BY <2>1
    <2>3. Cardinality(s \intersect here) \in Nat /\ s \subseteq Pad
      BY SidesSum DEF StorageInv, Sides
    <2>4. l \in LocalVars /\ l.pc = "second" /\ Loop(l) /\ ~At(e, "none")
      BY <1>3, <1>12, <2>3 DEF FirstSize, LocalVars, Loop, At
    <2> HIDE DEF l
    <2> QED BY <1>1, <1>2, <2>2, <2>4
  <1>13. CASE SecondSize(e)
    <2> DEFINE n == Cardinality((Pad \ eval[e].visited) \intersect here)
               l == [eval[e] EXCEPT !.pc = "sum", !.count = @ + n]
    <2>1. eval' = [eval EXCEPT ![e] = l]
      BY <1>13 DEF SecondSize
    <2>2. n \in Nat
      <3>1. IsFiniteSet((Pad \ eval[e].visited) \intersect here)
        BY FS_Subset DEF StorageInv
      <3> QED BY <3>1, FS_CardinalityType
    <2> HIDE DEF n
    <2>3. eval[e].count + n \in Nat
      BY <1>3, <2>2 DEF LocalVars
    <2>4. l \in LocalVars /\ l.pc = "sum" /\ l.call = eval[e].call
      BY <1>3, <2>3 DEF LocalVars
    <2>5. Loop(l) /\ ~At(e, "none")
      BY <1>3, <1>13, <2>4 DEF SecondSize, Loop, At
    <2> HIDE DEF l
    <2> QED BY <1>1, <1>2, <2>1, <2>4, <2>5
  <1>14. CASE StreamsObserved(e)
    <2> DEFINE l == [NotBegun EXCEPT !.pc = "done"]
    <2>1. eval' = [eval EXCEPT ![e] = l]
      BY <1>14 DEF StreamsObserved
    <2>2. l \in LocalVars /\ l.pc = "done" /\ Loop(l) /\ ~At(e, "none")
      BY <1>3, <1>14 DEF StreamsObserved, LocalVars, Loop, At, NotBegun
    <2> HIDE DEF l
    <2>3. Moved(l)
      BY <2>1, <2>2
    <2> QED BY <1>1, <1>2, <2>2, <2>3
  <1>15. ASSUME \E l \in LocalVars : Moved(l)
         PROVE  /\ EvalInv'
                /\ \A f \in 1 .. Evaluations \ {e} : eval'[f] = eval[f]
                /\ ~At(e, "none")'
    BY <1>1, <1>2, <1>15
  <1> HIDE DEF Moved
  <1> QED BY <1>4, <1>5, <1>6, <1>7, <1>8, <1>9, <1>10, <1>11, <1>12, <1>13, <1>14,
             <1>15 DEF Evaluation

\* Changes of the storages leave the evaluations where they are.
THEOREM Steps == Spec => []EvalInv
  <1>1. Init => EvalInv
    BY DEF Init, EvalInv, LocalVars, Loop, NotBegun, At
  <1>2. ASSUME StorageInv, EvalInv, [Next]_vars
        PROVE  EvalInv'
    <2>1. CASE ObserverJs \/ UNCHANGED vars
      <3>1. eval' = eval
        BY <2>1 DEF ObserverJs, Joins, Opens, Detaches, Closes, Drops, Changes, vars
      <3> QED BY <1>2, <3>1 DEF EvalInv, At
    <2> QED BY <1>2, <2>1, EvalStep DEF Next
  <1> QED BY <1>1, <1>2, Invariance, PTL DEF Spec
-----------------------------------------------------------------------------
(* The call summaries.                                                     *)

\* Calls whose end was evaluated
Over == past \ removed

Recorded(x) == IF x \in DOMAIN summaries THEN summaries[x] ELSE 0

\* Evaluation f holds call x, fetched with n participants.
Holds(f, x, n) == x \in eval[f].call /\ eval[f].count = n

\* Until the end of a call is evaluated, its summary or a loop that holds it has
\* the most participants fetched.
PeakInv ==
  /\ \A x \in Call \ Over : Recorded(x) <= seen[x]
  /\ \A x \in Call \ Over :
       Recorded(x) = seen[x] \/ \E f \in 1 .. Evaluations : Holds(f, x, seen[x])
  /\ \A f \in 1 .. Evaluations : \A x \in eval[f].call : eval[f].count <= seen[x]
  /\ \A f \in 1 .. Evaluations : \A x \in eval[f].call :
       x \in Over => x \in revisited \union crossed
  /\ \A x \in DOMAIN summaries : x \in Over => x \in revisited \union crossed

\* What was reported of a call, once it is over
ReportInv ==
  /\ \A i \in 1 .. Len(reports) :
       /\ reports[i][1] \in Over
       /\ reports[i][2] <= seen[reports[i][1]]
       /\ reports[i][2] < seen[reports[i][1]] => reports[i][1] \in crossed
  /\ \A i, j \in 1 .. Len(reports) : reports[i][1] = reports[j][1] => i = j

SummaryTypes ==
  /\ DOMAIN summaries \subseteq Call
  /\ summaries \in [DOMAIN summaries -> Nat]
  /\ seen \in [Call -> Nat]
  /\ reports \in Seq(Call \X Nat)

SummaryInv == SummaryTypes /\ PeakInv /\ ReportInv

\* Whatever comes and goes, the calls that are over stay so, and are the same.
LEMMA SummaryStorage ==
  ASSUME StorageInv, SummaryInv, ObserverJs
  PROVE  SummaryInv'
  <1>1. ASSUME NEW come, NEW go, go \subseteq here, Changes(come, go)
        PROVE  SummaryInv'
    <2>1. Over' = Over
      BY <1>1 DEF Changes, Over, StorageInv
    <2>2. UNCHANGED <<summaries, reports, seen, revisited, crossed, eval>>
      BY <1>1 DEF Changes, metricVars
    <2> QED BY <2>1, <2>2 DEF SummaryInv, SummaryTypes, PeakInv, ReportInv, Recorded, Holds
  <1>2. ASSUME NEW c \in Client, Joins(c)
        PROVE  SummaryInv'
    BY <1>1, <1>2 DEF Joins
  <1>3. ASSUME NEW c \in Client, Detaches(c)
        PROVE  SummaryInv'
    <2> DEFINE ends == {x \in {CallOf[c]} : Participants(x) = {c}}
               go == {c} \union {p \in Connection \intersect here : ClientOf[p] = c}
                         \union ends
    <2>1. go \subseteq here /\ Changes({}, go)
      BY <1>3 DEF Detaches, StorageInv
    <2> QED BY <1>1, <2>1
  <1>4. ASSUME NEW p \in Connection \union Pad \union Other, Opens(p) \/ Closes(p)
        PROVE  SummaryInv'
    BY <1>1, <1>4 DEF Opens, Closes
  <1>5. ASSUME NEW x \in Call, Drops(x)
        PROVE  SummaryInv'
    BY <1>5 DEF Drops, metricVars, historyVars, SummaryInv, SummaryTypes, PeakInv,
                ReportInv, Recorded, Holds, Over
  <1> QED BY <1>2, <1>3, <1>4, <1>5 DEF ObserverJs

\* A call is reported with its summary when its end is evaluated.
LEMMA SummaryBegin ==
  ASSUME StorageInv, EvalInv, SummaryInv, NEW e \in 1 .. Evaluations, Begin(e)
  PROVE  SummaryInv'
  <1> DEFINE n == Cardinality(Reported)
  <1>1. PICK order \in [1 .. n -> Reported] :
          /\ {order[i] : i \in DOMAIN order} = Reported
          /\ reports' = reports \o [i \in DOMAIN order |-> <<order[i], summaries[order[i]]>>]
    BY DEF Begin
  <1>2. /\ summaries' = [x \in DOMAIN summaries \ Reported |-> summaries[x]]
        /\ removed' = {} /\ UNCHANGED <<past, seen, revisited>>
        /\ crossed' = crossed \union (removed \intersect Held)
    BY DEF Begin
  <1>3. Reported \subseteq Call \intersect removed /\ Reported \subseteq DOMAIN summaries
    BY DEF Reported
  <1>4. n \in Nat /\ IsFiniteSet(Reported)
    <2>1. IsFiniteSet(removed)
      BY FS_Subset DEF StorageInv
    <2> QED BY <1>3, <2>1, FS_Subset, FS_CardinalityType
  <1>5. \A i, j \in 1 .. n : order[i] = order[j] => i = j
    <2>1. order \in Surjection(1 .. n, Reported)
      BY <1>1 DEF Surjection
    <2>2. IsFiniteSet(1 .. n) /\ Cardinality(1 .. n) = n
      BY <1>4, FS_Interval
    <2>3. order \in Injection(1 .. n, Reported)
      BY <2>1, <2>2, FS_SurjSameCardinalityImpliesInj
    <2> QED BY <2>3 DEF Injection, IsInjective
  <1>6. Over' = past /\ Over \subseteq past /\ removed \subseteq past
    BY <1>2 DEF Over, StorageInv
  <1> HIDE DEF n
  <1> DEFINE new == [i \in 1 .. n |-> <<order[i], summaries[order[i]]>>]
  <1>7. \A x \in Reported :
          /\ x \in Call \ Over /\ x \in removed
          /\ summaries[x] \in Nat /\ seen[x] \in Nat /\ summaries[x] <= seen[x]
          /\ summaries[x] < seen[x] => x \in crossed'
    <2> TAKE x \in Reported
    <2>1. x \in Call \ Over /\ x \in removed /\ Recorded(x) = summaries[x]
      BY <1>3 DEF Over, Recorded
    <2>2. summaries[x] \in Nat /\ seen[x] \in Nat
      BY <1>3, <2>1 DEF SummaryInv, SummaryTypes
    <2>3. summaries[x] # seen[x] => x \in Held
      BY <2>1 DEF SummaryInv, PeakInv, Holds, Held
    <2>4. summaries[x] <= seen[x]
      BY <2>1 DEF SummaryInv, PeakInv
    <2> QED BY <1>2, <2>1, <2>2, <2>3, <2>4
  <1>8. /\ new \in Seq(Call \X Nat) /\ Len(new) = n
        /\ \A i \in 1 .. n :
             /\ new[i][1] = order[i] /\ new[i][1] \in removed
             /\ new[i][2] <= seen[new[i][1]]
             /\ new[i][2] < seen[new[i][1]] => new[i][1] \in crossed'
    <2>1. \A i \in 1 .. n : order[i] \in Reported /\ summaries[order[i]] \in Nat
      BY <1>1, <1>7
    <2> QED BY <1>3, <1>4, <1>7, <2>1
  <1>9. reports' = reports \o new
    BY <1>1
  <1> HIDE DEF new
  <1>10. /\ reports' \in Seq(Call \X Nat)
         /\ Len(reports') = Len(reports) + n
         /\ \A i \in 1 .. Len(reports) + n :
              reports'[i] = IF i <= Len(reports) THEN reports[i] ELSE new[i - Len(reports)]
    BY <1>8, <1>9, ConcatProperties DEF SummaryInv, SummaryTypes
  <1>11. Len(reports) \in Nat
    BY DEF SummaryInv, SummaryTypes
  <1>12. ASSUME NEW i \in 1 .. Len(reports')
         PROVE  /\ reports'[i][1] \in Over'
                /\ reports'[i][2] <= seen'[reports'[i][1]]
                /\ reports'[i][2] < seen'[reports'[i][1]] => reports'[i][1] \in crossed'
    <2>1. CASE i <= Len(reports)
      <3>1. i \in 1 .. Len(reports) /\ reports'[i] = reports[i]
        BY <1>4, <1>10, <1>11, <2>1
      <3> QED BY <1>2, <1>6, <3>1 DEF SummaryInv, ReportInv
    <2>2. CASE ~(i <= Len(reports))
      <3>1. i - Len(reports) \in 1 .. n
        BY <1>4, <1>10, <1>11, <2>2
      <3> QED BY <1>2, <1>6, <1>8, <1>10, <2>2, <3>1
    <2> QED BY <2>1, <2>2
  <1>13. ASSUME NEW i \in 1 .. Len(reports'), NEW j \in 1 .. Len(reports'),
                reports'[i][1] = reports'[j][1]
         PROVE  i = j
    <2> DEFINE old(l) == l <= Len(reports)
    <2>1. ASSUME NEW l \in 1 .. Len(reports'), ~old(l)
          PROVE  /\ l - Len(reports) \in 1 .. n
                 /\ reports'[l][1] = order[l - Len(reports)]
                 /\ reports'[l][1] \in removed
      <3>1. l - Len(reports) \in 1 .. n
        BY <1>4, <1>10, <1>11, <2>1
      <3> QED BY <1>8, <1>10, <2>1, <3>1
    <2>2. ASSUME NEW l \in 1 .. Len(reports'), old(l)
          PROVE  l \in 1 .. Len(reports) /\ reports'[l] = reports[l] /\ reports'[l][1] \in Over
      <3>1. l \in 1 .. Len(reports) /\ reports'[l] = reports[l]
        BY <1>4, <1>10, <1>11, <2>2
      <3> QED BY <3>1 DEF SummaryInv, ReportInv
    <2>3. CASE old(i) /\ old(j)
      BY <1>13, <2>2, <2>3 DEF SummaryInv, ReportInv
    <2>4. CASE ~old(i) /\ ~old(j)
      BY <1>5, <1>11, <1>13, <2>1, <2>4
    <2>5. CASE old(i) # old(j)
      BY <1>13, <2>1, <2>2, <2>5 DEF Over
    <2> QED BY <2>3, <2>4, <2>5
  <1>14. SummaryTypes'
    BY <1>2, <1>10 DEF SummaryInv, SummaryTypes
  <1>15. \A f \in 1 .. Evaluations :
           eval'[f].call = eval[f].call /\ eval'[f].count = eval[f].count
    <2>1. eval' = [eval EXCEPT ![e].pc = "calls"]
      BY DEF Begin
    <2> QED BY <2>1 DEF EvalInv, LocalVars
  <1>16. \A x \in Call \ Over' : x \in Call \ Over /\ Recorded(x)' = Recorded(x)
    BY <1>2, <1>3, <1>6 DEF Recorded, Over
  <1>17. \A f \in 1 .. Evaluations : \A x \in eval[f].call :
           x \in Over' => x \in revisited' \union crossed'
    BY <1>2, <1>6 DEF SummaryInv, PeakInv, Held, Over
  <1>18. \A x \in DOMAIN summaries' : x \in Over' => x \in revisited' \union crossed'
    <2>1. \A x \in DOMAIN summaries' : x \in DOMAIN summaries /\ x \notin removed
      BY <1>2 DEF SummaryInv, SummaryTypes, Reported
    <2> QED BY <1>2, <1>6, <2>1 DEF SummaryInv, PeakInv, Over
  <1>19. PeakInv'
    BY <1>2, <1>15, <1>16, <1>17, <1>18 DEF SummaryInv, PeakInv, Holds
  <1>20. ReportInv'
    BY <1>12, <1>13 DEF ReportInv
  <1> QED BY <1>14, <1>19, <1>20 DEF SummaryInv

\* A fetched count is in the loop that holds the call; a call that is over has no
\* participants, so that fetching it again changes no maximum.
LEMMA SummaryFetch ==
  ASSUME StorageInv, EvalInv, SummaryInv, NEW e \in 1 .. Evaluations, NEW x \in Call,
         FetchCall(e, x)
  PROVE  SummaryInv'
  <1> DEFINE n == Cardinality(Participants(x))
  <1>1. n \in Nat /\ (x \in Over => n = 0)
    BY ParticipantsCount DEF Over
  <1>2. /\ eval' = [eval EXCEPT ![e].visited = @ \union {x}, ![e].call = {x}, ![e].count = n]
        /\ seen' = [seen EXCEPT ![x] = Larger(@, n)]
        /\ revisited' = IF x \in Over THEN revisited \union {x} ELSE revisited
        /\ Over' = Over /\ UNCHANGED <<summaries, reports, crossed>>
        /\ eval[e].call = {}
    BY DEF FetchCall, Over, storageVars, metricVars
  <1> HIDE DEF n
  <1>3. /\ seen \in [Call -> Nat] /\ seen' \in [Call -> Nat]
        /\ \A y \in Call \ {x} : seen'[y] = seen[y]
        /\ seen'[x] = Larger(seen[x], n)
    BY <1>1, <1>2 DEF SummaryInv, SummaryTypes, Larger
  <1>4. /\ \A y \in Call : seen[y] <= seen'[y]
        /\ n <= seen'[x] /\ (seen'[x] = seen[x] \/ seen'[x] = n)
        /\ x \in Over => seen' = seen
    BY <1>1, <1>2, <1>3 DEF Larger
  <1>5. /\ eval'[e].call = {x} /\ eval'[e].count = n
        /\ \A f \in 1 .. Evaluations \ {e} : eval'[f] = eval[f]
    BY <1>2 DEF EvalInv, LocalVars
  <1>6. SummaryTypes'
    BY <1>2, <1>3 DEF SummaryInv, SummaryTypes
  <1>7. ReportInv'
    <2>1. \A i \in 1 .. Len(reports) :
            reports[i][1] \in Over /\ seen'[reports[i][1]] = seen[reports[i][1]]
      <3> TAKE i \in 1 .. Len(reports)
      <3>1. reports[i][1] \in Over /\ reports[i][1] \in Call
        BY DEF SummaryInv, SummaryTypes, ReportInv
      <3> QED BY <1>3, <1>4, <3>1
    <2> QED BY <1>2, <2>1 DEF SummaryInv, ReportInv
  <1>8. \A y \in Call : Recorded(y)' = Recorded(y) /\ Recorded(y) \in Nat
    BY <1>2 DEF Recorded, SummaryInv, SummaryTypes
  <1>9. ASSUME NEW y \in Call \ Over
        PROVE  /\ Recorded(y)' <= seen'[y]
               /\ \/ Recorded(y)' = seen'[y]
                  \/ \E f \in 1 .. Evaluations : Holds(f, y, seen[y])'
    <2>1. Recorded(y) <= seen[y] /\ seen[y] <= seen'[y] /\ seen[y] \in Nat /\ seen'[y] \in Nat
      BY <1>3, <1>4 DEF SummaryInv, PeakInv
    <2>2. CASE seen'[y] = seen[y]
      <3>1. \/ Recorded(y) = seen[y]
            \/ \E f \in 1 .. Evaluations \ {e} : Holds(f, y, seen[y])
        BY <1>2 DEF SummaryInv, PeakInv, Holds
      <3>2. \A f \in 1 .. Evaluations \ {e} : Holds(f, y, seen[y]) => Holds(f, y, seen[y])'
        BY <1>5, <2>2 DEF Holds
      <3> QED BY <1>8, <2>1, <2>2, <3>1, <3>2
    <2>3. CASE seen'[y] # seen[y]
      <3>1. y = x /\ seen'[y] = n
        BY <1>3, <1>4, <2>3
      <3>2. Holds(e, y, seen[y])'
        BY <1>5, <3>1 DEF Holds
      <3>3. Recorded(y)' <= seen'[y]
        BY <1>8, <2>1
      <3>4. \E f \in 1 .. Evaluations : Holds(f, y, seen[y])'
        BY <3>2
      <3> QED BY <3>3, <3>4
    <2> QED BY <2>2, <2>3
  <1>10. ASSUME NEW f \in 1 .. Evaluations, NEW y \in eval'[f].call
         PROVE  eval'[f].count <= seen'[y] /\ (y \in Over => y \in revisited' \union crossed')
    <2>1. CASE f = e
      BY <1>2, <1>4, <1>5, <2>1
    <2>2. CASE f # e
      <3>1. y \in Call /\ eval[f].count \in Nat /\ eval'[f] = eval[f]
        BY <1>5, <2>2 DEF EvalInv, LocalVars
      <3>2. eval[f].count <= seen[y] /\ (y \in Over => y \in revisited \union crossed)
        BY <3>1 DEF SummaryInv, PeakInv
      <3>3. seen[y] <= seen'[y] /\ seen[y] \in Nat /\ seen'[y] \in Nat
        BY <1>3, <1>4, <3>1
      <3>4. eval'[f].count <= seen'[y]
        BY <3>1, <3>2, <3>3
      <3>5. y \in Over => y \in revisited' \union crossed'
        BY <1>2, <3>2
      <3> QED BY <3>4, <3>5
    <2> QED BY <2>1, <2>2
  <1>11. \A y \in DOMAIN summaries' : y \in Over => y \in revisited' \union crossed'
    BY <1>2 DEF SummaryInv, PeakInv
  <1>12. PeakInv'
    BY <1>2, <1>9, <1>10, <1>11 DEF PeakInv
  <1> QED BY <1>6, <1>7, <1>12 DEF SummaryInv

\* What a loop held goes into the summary.
LEMMA SummaryRecord ==
  ASSUME EvalInv, SummaryInv, NEW e \in 1 .. Evaluations, NEW x \in Call,
         RecordCall(e, x)
  PROVE  SummaryInv'
  <1> DEFINE n == eval[e].count
  <1>1. /\ x \in eval[e].call
        /\ summaries' = [y \in DOMAIN summaries \union {x} |->
                          IF y = x THEN MaxParticipants(x, n) ELSE summaries[y]]
        /\ eval' = [eval EXCEPT ![e].call = {}, ![e].count = 0]
        /\ Over' = Over /\ UNCHANGED <<reports, seen, revisited, crossed>>
    BY DEF RecordCall, Over, storageVars, historyVars
  <1>2. /\ n \in Nat /\ \A y \in eval[e].call : y = x
        /\ n <= seen[x] /\ (x \in Over => x \in revisited \union crossed)
    BY <1>1 DEF EvalInv, LocalVars, Loop, SummaryInv, PeakInv
  <1> HIDE DEF n
  <1>3. /\ eval'[e].call = {}
        /\ \A f \in 1 .. Evaluations \ {e} : eval'[f] = eval[f]
    BY <1>1 DEF EvalInv, LocalVars
  <1>4. /\ \A y \in Call : Recorded(y) \in Nat /\ seen[y] \in Nat
        /\ MaxParticipants(x, n) = Larger(Recorded(x), n)
    BY DEF Recorded, SummaryInv, SummaryTypes, MaxParticipants
  <1>5. Larger(Recorded(x), n) \in Nat
    BY <1>2, <1>4 DEF Larger
  <1>6. /\ \A y \in Call \ {x} : Recorded(y)' = Recorded(y)
        /\ Recorded(x)' = Larger(Recorded(x), n)
    BY <1>1, <1>4 DEF Recorded
  <1>7. SummaryTypes'
    BY <1>1, <1>4, <1>5 DEF SummaryInv, SummaryTypes
  <1>8. ReportInv'
    BY <1>1 DEF SummaryInv, ReportInv
  <1>9. ASSUME NEW y \in Call \ Over
        PROVE  /\ Recorded(y)' <= seen[y]
               /\ \/ Recorded(y)' = seen[y]
                  \/ \E f \in 1 .. Evaluations : Holds(f, y, seen[y])'
    <2>1. /\ Recorded(y) <= seen[y]
          /\ Recorded(y) = seen[y] \/ \E f \in 1 .. Evaluations : Holds(f, y, seen[y])
      BY DEF SummaryInv, PeakInv
    <2>2. \A f \in 1 .. Evaluations \ {e} : Holds(f, y, seen[y]) => Holds(f, y, seen[y])'
      BY <1>1, <1>3 DEF Holds
    <2>3. Holds(e, y, seen[y]) => y = x /\ seen[y] = n
      BY <1>2 DEF Holds, n
    <2>4. CASE y = x
      <3>1. Recorded(y)' <= seen[y]
        BY <1>2, <1>4, <1>6, <2>1, <2>4 DEF Larger
      <3>2. Recorded(y) = seen[y] \/ seen[y] = n => Recorded(y)' = seen[y]
        BY <1>2, <1>4, <1>6, <2>1, <2>4 DEF Larger
      <3> QED BY <2>1, <2>2, <2>3, <3>1, <3>2
    <2>5. CASE y # x
      <3>1. Recorded(y)' = Recorded(y)
        BY <1>6, <2>5
      <3> QED BY <2>1, <2>2, <2>3, <2>5, <3>1
    <2> QED BY <2>4, <2>5
  <1>10. ASSUME NEW f \in 1 .. Evaluations, NEW y \in eval'[f].call
         PROVE  eval'[f].count <= seen[y] /\ (y \in Over => y \in revisited \union crossed)
    <2>1. f # e /\ eval'[f] = eval[f]
      BY <1>3
    <2> QED BY <2>1 DEF SummaryInv, PeakInv
  <1>11. \A y \in DOMAIN summaries' : y \in Over => y \in revisited \union crossed
    BY <1>1, <1>2 DEF SummaryInv, PeakInv
  <1>12. PeakInv'
    BY <1>1, <1>9, <1>10, <1>11 DEF PeakInv
  <1> QED BY <1>7, <1>8, <1>12 DEF SummaryInv

\* A call is reported once, after its end, and with the most participants that
\* any evaluation fetched, unless a loop still held it then; however many
\* evaluations overlap.
THEOREM EvaluatorsSummaries == Spec => []Summaries
  <1>1. Init => SummaryInv
    <2> SUFFICES ASSUME Init
                 PROVE  SummaryInv
      OBVIOUS
    <2>1. /\ summaries = <<>> /\ reports = <<>> /\ seen = [x \in Call |-> 0]
          /\ past = {} /\ eval = [e \in 1 .. Evaluations |-> NotBegun]
      BY DEF Init
    <2>2. DOMAIN summaries = {} /\ summaries \in [{} -> Nat]
      BY <2>1
    <2>3. reports \in Seq(Call \X Nat) /\ Len(reports) = 0
      BY <2>1, EmptySeq
    <2>4. \A f \in 1 .. Evaluations : eval[f].call = {}
      BY <2>1 DEF NotBegun
    <2>5. \A x \in Call : Recorded(x) = 0 /\ seen[x] = 0
      BY <2>1, <2>2 DEF Recorded
    <2> QED BY <2>1, <2>2, <2>3, <2>4, <2>5
            DEF SummaryInv, SummaryTypes, PeakInv, ReportInv
  <1>2. ASSUME StorageInv, EvalInv, SummaryInv, [Next]_vars
        PROVE  SummaryInv'
    <2>1. ASSUME NEW e \in 1 .. Evaluations, Evaluation(e)
          PROVE  SummaryInv'
      <3>1. CASE CallsRead(e) \/ (\E p \in Connection : ReadConnection(e, p))
                 \/ ConnectionsRead(e) \/ CountClients(e) \/ TurnObserved(e)
                 \/ FirstSize(e) \/ SecondSize(e) \/ StreamsObserved(e)
        <4>1. UNCHANGED <<past, removed, summaries, reports, seen, revisited, crossed>>
          BY <3>1
          DEF CallsRead, ReadConnection, ConnectionsRead, CountClients, TurnObserved,
              FirstSize, SecondSize, StreamsObserved, storageVars, metricVars, historyVars
        <4>2. eval[e].call = {} /\ eval'[e].call = {}
          <5>1. ~At(e, "calls") \/ CallsRead(e)
            BY <3>1 DEF ReadConnection, ConnectionsRead, CountClients, TurnObserved,
                        FirstSize, SecondSize, StreamsObserved, At
          <5>2. eval[e].call = {}
            BY <1>2, <5>1 DEF EvalInv, Loop, CallsRead, At
          <5>3. eval'[e].call = eval[e].call \/ eval'[e].call = {}
            <6>1. eval \in [1 .. Evaluations -> LocalVars]
              BY <1>2 DEF EvalInv
            <6>2. CASE CallsRead(e)
              BY <6>1, <6>2 DEF CallsRead, LocalVars
            <6>3. CASE ConnectionsRead(e)
              BY <6>1, <6>3 DEF ConnectionsRead, LocalVars
            <6>4. CASE CountClients(e)
              BY <6>1, <6>4 DEF CountClients, LocalVars
            <6>5. CASE TurnObserved(e)
              BY <6>1, <6>5 DEF TurnObserved, LocalVars
            <6>6. CASE FirstSize(e)
              BY <6>1, <6>6 DEF FirstSize, LocalVars
            <6>7. CASE SecondSize(e)
              BY <6>1, <6>7 DEF SecondSize, LocalVars
            <6>8. CASE StreamsObserved(e)
              BY <6>1, <6>8 DEF StreamsObserved, NotBegun
            <6>9. CASE \E p \in Connection : ReadConnection(e, p)
              BY <6>1, <6>9 DEF ReadConnection, LocalVars
            <6> QED BY <3>1, <6>2, <6>3, <6>4, <6>5, <6>6, <6>7, <6>8, <6>9
          <5> QED BY <5>2, <5>3
        <4>3. \A f \in 1 .. Evaluations \ {e} : eval'[f] = eval[f]
          BY <1>2, <2>1, EvalStep
        <4>4. Over' = Over /\ \A x \in Call : Recorded(x)' = Recorded(x)
          BY <4>1 DEF Over, Recorded
        <4>5. \A f \in 1 .. Evaluations, x \in Call : Holds(f, x, seen[x])' <=> Holds(f, x, seen[x])
          BY <4>1, <4>2, <4>3 DEF Holds
        <4>6. \A f \in 1 .. Evaluations : \A x \in eval'[f].call :
                x \in eval[f].call /\ eval'[f].count = eval[f].count
          BY <4>2, <4>3
        <4>7. PeakInv'
          BY <1>2, <4>1, <4>4, <4>5, <4>6 DEF SummaryInv, PeakInv
        <4> QED BY <1>2, <4>1, <4>4, <4>7 DEF SummaryInv, SummaryTypes, ReportInv
      <3> QED BY <1>2, <2>1, <3>1, SummaryBegin, SummaryFetch, SummaryRecord DEF Evaluation
    <2>2. CASE UNCHANGED vars
      BY <1>2, <2>2 DEF vars, storageVars, metricVars, historyVars, SummaryInv,
                        SummaryTypes, PeakInv, ReportInv, Recorded, Holds, Over
    <2> QED BY <1>2, <2>1, <2>2, SummaryStorage DEF Next
  <1>3. SummaryInv => Summaries
    BY DEF SummaryInv, PeakInv, ReportInv, Summaries, Over
  <1> QED BY <1>1, <1>2, <1>3, Invariance, Steps, PTL DEF Spec
-----------------------------------------------------------------------------
(* The gauges.                                                             *)

Users(S) == {ClientOf[p] : p \in Relayed \intersect S}

LastBegun(e) == ~At(e, "none") /\ \A f \in e + 1 .. Evaluations : At(f, "none")

\* Evaluation e has set turnUsage.
TurnSet(e) == eval[e].pc \in {"sfu", "second", "sum", "done"}

\* How far evaluation e has got when nothing changed since it began
Progress(e) ==
  /\ At(e, "turn") =>
       eval[e].visited \subseteq Connection \intersect here
       /\ eval[e].users = Users(eval[e].visited)
  /\ At(e, "size") => eval[e].users = Users(here)
  /\ At(e, "sized") =>
       eval[e].users = Users(here)
       /\ eval[e].count = Cardinality(Client \intersect here)
  /\ TurnSet(e) /\ "turn" \notin late =>
       turnUsage = <<Cardinality(Users(here)), Cardinality(Client \intersect here)>>
  /\ At(e, "second") =>
       eval[e].visited \in Sides
       /\ eval[e].count = Cardinality(eval[e].visited \intersect here)
  /\ At(e, "sum") => eval[e].count = Cardinality(Pad \intersect here)
  /\ At(e, "done") /\ "streams" \notin late => rtpStreams = Cardinality(Pad \intersect here)

NoneBegun == \A e \in 1 .. Evaluations : At(e, "none")

GaugeInv ==
  still =>
    /\ NoneBegun => here = {} /\ turnUsage = <<0, 0>> /\ rtpStreams = 0
    /\ \A e \in 1 .. Evaluations : LastBegun(e) => Progress(e)

\* Only TurnObserved sets turnUsage and says whether it is late, and only
\* StreamsObserved does so for rtpStreams.
LEMMA GaugeSteps ==
  ASSUME EvalInv, NEW e \in 1 .. Evaluations, Evaluation(e), ~Begin(e)
  PROVE  /\ ~At(e, "none") /\ here' = here /\ still' = still
         /\ \/ TurnObserved(e)
            \/ turnUsage' = turnUsage /\ ("turn" \in late' <=> "turn" \in late)
         /\ \/ StreamsObserved(e)
            \/ rtpStreams' = rtpStreams /\ ("streams" \in late' <=> "streams" \in late)
  <1>1. CASE \E x \in Call : FetchCall(e, x) \/ RecordCall(e, x)
    BY <1>1 DEF FetchCall, RecordCall, EvalInv, Loop, At, storageVars, metricVars, historyVars
  <1>2. CASE CallsRead(e) \/ (\E p \in Connection : ReadConnection(e, p))
             \/ ConnectionsRead(e) \/ CountClients(e) \/ FirstSize(e) \/ SecondSize(e)
    BY <1>2 DEF CallsRead, ReadConnection, ConnectionsRead, CountClients, FirstSize,
                SecondSize, At, storageVars, metricVars, historyVars
  <1>3. CASE TurnObserved(e)
    <2>1. "streams" \in late' <=> "streams" \in late
      BY <1>3 DEF TurnObserved, SetLate
    <2> QED BY <1>3, <2>1 DEF TurnObserved, At, storageVars
  <1>4. CASE StreamsObserved(e)
    <2>1. "turn" \in late' <=> "turn" \in late
      BY <1>4 DEF StreamsObserved, SetLate
    <2> QED BY <1>4, <2>1 DEF StreamsObserved, At, storageVars
  <1> QED BY <1>1, <1>2, <1>3, <1>4 DEF Evaluation

\* A step of an evaluation that is not the last leaves the last where it is; if it
\* sets a gauge that the last has set already, it is late.
LEMMA OthersProgress ==
  ASSUME StorageInv, EvalInv, GaugeInv, still', NEW e \in 1 .. Evaluations,
         Evaluation(e), ~Begin(e), NEW g \in 1 .. Evaluations \ {e}, LastBegun(g)'
  PROVE  Progress(g)'
  <1>1. /\ eval'[g] = eval[g]
        /\ \A f \in 1 .. Evaluations \ {e} : eval'[f] = eval[f]
        /\ ~At(e, "none")'
    BY EvalStep
  <1>2. e < g /\ ~At(e, "none") /\ here' = here /\ still' = still
    <2>1. ~(e \in g + 1 .. Evaluations)
      BY <1>1 DEF LastBegun
    <2>2. e < g
      BY <2>1, EvaluatorsAssumption
    <2> QED BY <2>2, GaugeSteps
  <1>3. g \in e + 1 .. Evaluations
    BY <1>2, EvaluatorsAssumption
  <1>4. LastBegun(g)
    BY <1>1, <1>2, EvaluatorsAssumption DEF LastBegun, At
  <1>5. Progress(g)
    BY <1>2, <1>4 DEF GaugeInv
  <1>6. TurnSet(g) /\ "turn" \notin late' => turnUsage' = turnUsage /\ "turn" \notin late
    <2>1. CASE TurnObserved(e)
      <3>1. TurnSet(g) => "turn" \in late'
        BY <1>3, <2>1 DEF TurnObserved, SetLate, TurnSet
      <3> QED BY <3>1
    <2>2. CASE turnUsage' = turnUsage /\ ("turn" \in late' <=> "turn" \in late)
      BY <2>2
    <2> QED BY <2>1, <2>2, GaugeSteps
  <1>7. At(g, "done") /\ "streams" \notin late' =>
          rtpStreams' = rtpStreams /\ "streams" \notin late
    <2>1. CASE StreamsObserved(e)
      <3>1. At(g, "done") => "streams" \in late'
        BY <1>3, <2>1 DEF StreamsObserved, SetLate, At
      <3> QED BY <3>1
    <2> QED BY <2>1, GaugeSteps
  <1> QED BY <1>1, <1>2, <1>5, <1>6, <1>7 DEF Progress, At, TurnSet

\* The steps of the last evaluation, while nothing changes
LEMMA OwnProgress ==
  ASSUME StorageInv, EvalInv, GaugeInv, still', NEW e \in 1 .. Evaluations,
         Evaluation(e), ~Begin(e), LastBegun(e)'
  PROVE  Progress(e)'
  <1> USE EvaluatorsAssumption
  <1>1. /\ ~At(e, "none") /\ here' = here /\ still' = still
        /\ \A f \in 1 .. Evaluations \ {e} : eval'[f] = eval[f]
    BY EvalStep, GaugeSteps
  <1>2. LastBegun(e)
    BY <1>1 DEF LastBegun, At
  <1>3. Progress(e) /\ eval[e] \in LocalVars
    BY <1>1, <1>2 DEF GaugeInv, EvalInv
  <1>4. ASSUME NEW x \in Call, FetchCall(e, x) \/ RecordCall(e, x)
        PROVE  Progress(e)'
    <2>1. At(e, "calls")
      BY <1>4 DEF FetchCall, RecordCall, EvalInv, Loop, At
    <2>2. eval'[e].pc = "calls"
      <3>1. eval \in [1 .. Evaluations -> LocalVars]
        BY DEF EvalInv
      <3>2. CASE FetchCall(e, x)
        BY <2>1, <3>1, <3>2 DEF FetchCall, LocalVars, At
      <3>3. CASE RecordCall(e, x)
        BY <2>1, <3>1, <3>3 DEF RecordCall, LocalVars, At
      <3> QED BY <1>4, <3>2, <3>3
    <2> QED BY <2>2 DEF Progress, At, TurnSet
  <1>5. CASE CallsRead(e)
    <2>1. eval'[e].pc = "turn" /\ eval'[e].visited = {} /\ eval'[e].users = {}
      <3>1. eval[e].users = {}
        BY <1>5 DEF CallsRead, EvalInv, Loop, At
      <3> QED BY <1>3, <1>5, <3>1 DEF CallsRead, EvalInv, LocalVars
    <2> QED BY <2>1 DEF Progress, At, TurnSet, Users
  <1>6. ASSUME NEW p \in Connection, ReadConnection(e, p)
        PROVE  Progress(e)'
    <2>1. /\ eval'[e].pc = "turn" /\ eval'[e].visited = eval[e].visited \union {p}
          /\ eval'[e].users = IF p \in Relayed THEN eval[e].users \union {ClientOf[p]}
                              ELSE eval[e].users
          /\ At(e, "turn") /\ p \in here
      BY <1>3, <1>6 DEF ReadConnection, EvalInv, LocalVars, At, User
    <2>2. eval'[e].users = Users(eval'[e].visited)
      BY <1>3, <2>1 DEF Progress, Users
    <2> QED BY <1>1, <1>3, <2>1, <2>2 DEF Progress, At, TurnSet
  <1>7. CASE ConnectionsRead(e)
    <2>1. /\ eval'[e].pc = "size" /\ eval'[e].users = eval[e].users /\ At(e, "turn")
          /\ Connection \intersect here \subseteq eval[e].visited
      BY <1>3, <1>7 DEF ConnectionsRead, EvalInv, LocalVars, At
    <2>2. eval[e].users = Users(here)
      BY <1>3, <2>1 DEF Progress, Users
    <2> QED BY <1>1, <2>1, <2>2 DEF Progress, At, TurnSet
  <1>8. CASE CountClients(e)
    <2>1. /\ eval'[e].pc = "sized" /\ eval'[e].users = eval[e].users /\ At(e, "size")
          /\ eval'[e].count = Cardinality(Client \intersect here)
      BY <1>3, <1>8 DEF CountClients, EvalInv, LocalVars, At
    <2> QED BY <1>1, <1>3, <2>1 DEF Progress, At, TurnSet
  <1>9. CASE TurnObserved(e)
    <2>1. /\ eval'[e].pc = "sfu" /\ At(e, "sized")
          /\ turnUsage' = <<Cardinality(eval[e].users), eval[e].count>>
      BY <1>3, <1>9 DEF TurnObserved, EvalInv, LocalVars, At
    <2> QED BY <1>1, <1>3, <2>1 DEF Progress, At, TurnSet
  <1>10. CASE FirstSize(e)
    <2>1. PICK s \in Sides :
            eval' = [eval EXCEPT ![e].pc = "second", ![e].visited = s,
                                 ![e].count = Cardinality(s \intersect here)]
      BY <1>10 DEF FirstSize
    <2>2. /\ eval'[e].pc = "second" /\ eval'[e].visited = s
          /\ eval'[e].count = Cardinality(s \intersect here)
      BY <1>3, <2>1 DEF EvalInv, LocalVars
    <2>3. At(e, "sfu") /\ turnUsage' = turnUsage /\ late' = late
      BY <1>10 DEF FirstSize, metricVars, historyVars
    <2> QED BY <1>1, <1>3, <2>2, <2>3 DEF Progress, At, TurnSet
  <1>11. CASE SecondSize(e)
    <2> DEFINE s == eval[e].visited
    <2>1. /\ eval'[e].pc = "sum"
          /\ eval'[e].count = eval[e].count + Cardinality((Pad \ s) \intersect here)
      BY <1>3, <1>11 DEF SecondSize, EvalInv, LocalVars
    <2>2. At(e, "second") /\ turnUsage' = turnUsage /\ late' = late
      BY <1>11 DEF SecondSize, metricVars, historyVars
    <2>3. s \in Sides /\ eval[e].count = Cardinality(s \intersect here)
      BY <1>3, <2>2 DEF Progress
    <2> HIDE DEF s
    <2>4. Cardinality(s \intersect here) + Cardinality((Pad \ s) \intersect here)
            = Cardinality(Pad \intersect here)
      BY <2>3, SidesSum DEF StorageInv
    <2>5. eval'[e].count = Cardinality(Pad \intersect here)
      BY <2>1, <2>3, <2>4
    <2> QED BY <1>1, <1>3, <2>1, <2>2, <2>5 DEF Progress, At, TurnSet
  <1>12. CASE StreamsObserved(e)
    <2>1. /\ eval'[e].pc = "done" /\ At(e, "sum") /\ turnUsage' = turnUsage
          /\ rtpStreams' = eval[e].count
      BY <1>3, <1>12 DEF StreamsObserved, NotBegun, EvalInv, LocalVars, At
    <2>2. "turn" \notin late' => "turn" \notin late
      BY <1>12 DEF StreamsObserved, SetLate
    <2> QED BY <1>1, <1>3, <2>1, <2>2 DEF Progress, At, TurnSet
  <1> QED BY <1>4, <1>5, <1>6, <1>7, <1>8, <1>9, <1>10, <1>11, <1>12 DEF Evaluation

\* No evaluation has begun, or one is the last.
LEMMA LastExists ==
  ASSUME EvalInv
  PROVE  NoneBegun \/ \E e \in 1 .. Evaluations : LastBegun(e)
  <1> USE EvaluatorsAssumption
  <1> DEFINE B == {e \in 1 .. Evaluations : At(e, "none")}
  <1>1. CASE B = {}
    <2>1. CASE Evaluations = 0
      BY <2>1 DEF NoneBegun
    <2>2. CASE Evaluations # 0
      <3>1. Evaluations \in 1 .. Evaluations /\ Evaluations + 1 .. Evaluations = {}
        BY <2>2
      <3>2. LastBegun(Evaluations)
        BY <1>1, <3>1 DEF LastBegun
      <3> QED BY <3>1, <3>2
    <2> QED BY <2>1, <2>2
  <1>2. CASE B # {}
    <2>1. PICK m \in B : \A j \in B : ~(j < m)
      <3>1. B \in SUBSET Nat
        OBVIOUS
      <3>2. PICK m \in B : \A j \in B : <<j, m>> \notin OpToRel(<, Nat)
        BY <1>2, <3>1, NatLessThanWellFounded, WFMin
      <3> QED BY <3>1, <3>2 DEF OpToRel
    <2>2. CASE m = 1
      BY <2>1, <2>2 DEF NoneBegun, EvalInv
    <2>3. CASE m # 1
      <3>1. m - 1 \in 1 .. Evaluations /\ ~At(m - 1, "none")
        BY <2>1, <2>3
      <3>2. \A f \in (m - 1) + 1 .. Evaluations : At(f, "none")
        BY <2>1 DEF EvalInv
      <3> QED BY <3>1, <3>2 DEF LastBegun
    <2> QED BY <2>2, <2>3
  <1> QED BY <1>1, <1>2

\* Begin makes an evaluation the last, with everything still to read.
LEMMA GaugeBegin ==
  ASSUME StorageInv, EvalInv, NEW e \in 1 .. Evaluations, Begin(e)
  PROVE  GaugeInv'
  <1>1. eval'[e].pc = "calls"
    BY DEF Begin, EvalInv, LocalVars
  <1>2. \A f \in 1 .. Evaluations \ {e} : eval'[f] = eval[f]
    BY EvalStep DEF Evaluation
  <1>3. \A g \in 1 .. Evaluations : LastBegun(g)' => g = e
    <2> SUFFICES ASSUME NEW g \in 1 .. Evaluations, LastBegun(g)', g # e
                 PROVE  FALSE
      OBVIOUS
    <2>1. ~At(g, "none") /\ At(e, "none")
      BY <1>2 DEF LastBegun, At, Begin
    <2>2. g < e
      BY <2>1, EvaluatorsAssumption DEF EvalInv
    <2> QED BY <1>1, <2>2, EvaluatorsAssumption DEF LastBegun, At
  <1>4. Progress(e)' /\ ~NoneBegun'
    BY <1>1 DEF Progress, NoneBegun, At, TurnSet
  <1> QED BY <1>3, <1>4 DEF GaugeInv

\* When all is quiet a gauge shows what exists, unless an earlier evaluation was
\* the last to set it.
THEOREM EvaluatorsGaugesSettle == Spec => []GaugesSettle
  <1>1. Init => GaugeInv
    <2> SUFFICES ASSUME Init
                 PROVE  GaugeInv
      OBVIOUS
    <2>1. /\ eval = [e \in 1 .. Evaluations |-> NotBegun]
          /\ here = {} /\ turnUsage = <<0, 0>> /\ rtpStreams = 0
      BY DEF Init
    <2>2. NoneBegun
      BY <2>1 DEF NotBegun, At, NoneBegun
    <2> QED BY <2>1, <2>2 DEF GaugeInv, LastBegun, NoneBegun
  <1>2. ASSUME StorageInv, EvalInv, GaugeInv, [Next]_vars
        PROVE  GaugeInv'
    <2>1. CASE ObserverJs
      <3>1. eval' = eval
        BY <2>1 DEF ObserverJs, Joins, Opens, Detaches, Closes, Drops, Changes
      <3>2. \/ still' = FALSE
            \/ UNCHANGED <<here, turnUsage, rtpStreams, still, late>>
        BY <2>1 DEF ObserverJs, Joins, Opens, Detaches, Closes, Drops, Changes,
                    metricVars, historyVars
      <3>3. CASE UNCHANGED <<here, turnUsage, rtpStreams, still, late>>
        BY <1>2, <3>1, <3>3 DEF GaugeInv, NoneBegun, LastBegun, Progress, TurnSet, At
      <3>4. CASE still' = FALSE
        BY <3>4 DEF GaugeInv
      <3> QED BY <3>2, <3>3, <3>4
    <2>2. ASSUME NEW e \in 1 .. Evaluations, Evaluation(e)
          PROVE  GaugeInv'
      <3>1. ~NoneBegun'
        BY <1>2, <2>2, EvalStep DEF NoneBegun
      <3>2. CASE ~Begin(e)
        <4>1. ASSUME still', NEW g \in 1 .. Evaluations, LastBegun(g)'
              PROVE  Progress(g)'
          BY <1>2, <2>2, <3>2, <4>1, OthersProgress, OwnProgress
        <4> QED BY <3>1, <4>1 DEF GaugeInv
      <3> QED BY <1>2, <3>2, GaugeBegin
    <2>3. CASE UNCHANGED vars
      BY <1>2, <2>3 DEF vars, storageVars, metricVars, historyVars, GaugeInv,
                        NoneBegun, LastBegun, Progress, TurnSet, At
    <2> QED BY <1>2, <2>1, <2>2, <2>3 DEF Next
  <1>3. ASSUME EvalInv, GaugeInv
        PROVE  GaugesSettle
    <2> DEFINE Right ==
          /\ "turn" \notin late =>
               turnUsage = <<Cardinality(Users(here)), Cardinality(Client \intersect here)>>
          /\ "streams" \notin late => rtpStreams = Cardinality(Pad \intersect here)
    <2> SUFFICES ASSUME Running = {}, still
                 PROVE  Right
      BY DEF GaugesSettle, Users
    <2>1. CASE NoneBegun
      <3>1. here = {} /\ turnUsage = <<0, 0>> /\ rtpStreams = 0
        BY <1>3, <2>1 DEF GaugeInv
      <3>2. Users(here) = {} /\ Client \intersect here = {} /\ Pad \intersect here = {}
        BY <3>1 DEF Users
      <3> QED BY <3>1, <3>2, FS_EmptySet
    <2>2. ASSUME NEW e \in 1 .. Evaluations, LastBegun(e)
          PROVE  Right
      <3>1. eval[e].pc = "done"
        BY <2>2 DEF Running, LastBegun, At
      <3>2. Progress(e)
        BY <1>3, <2>2 DEF GaugeInv
      <3> QED BY <3>1, <3>2 DEF Progress, At, TurnSet
    <2> QED BY <1>3, <2>1, <2>2, LastExists
  <1> QED BY <1>1, <1>2, <1>3, Invariance, Steps, PTL DEF Spec
=============================================================================
