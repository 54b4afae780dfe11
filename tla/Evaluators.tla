----------------------------- MODULE Evaluators -----------------------------
(***************************************************************************)
(* The observer's evaluators (observer/src/evaluators), which turn what    *)
(* observer-js knows into Prometheus metrics and call summaries.           *)
(*                                                                         *)
(* observer-js is external.  Its storages hold what exists now, its        *)
(* context lists what came and went since the context before, and for each *)
(* context it runs the evaluators in the order of main.ts.  Nothing in the *)
(* code keeps two evaluations apart, nor the storages still while one      *)
(* awaits them: an evaluation is a process that takes one step per await.  *)
(***************************************************************************)
EXTENDS Naturals, FiniteSets, Sequences

CONSTANTS
  Client, Call, Connection, Pad,  \* what comes and goes, each once
  CallOf,      \* CallOf[c]: the call of client c
  ClientOf,    \* ClientOf[p]: the client of peer connection p
  Relayed,     \* connections with a candidate pair to a relay candidate
  Inbound,     \* the pads that are inbound
  Others,      \* the kinds that are only counted: tracks by direction and media,
               \* SCTP channels and transports
  Evaluations, \* bound: evaluations, numbered from 1
  Overlap,     \* bound: evaluations that run at a time
  MaxChanges   \* bound: how many objects come and go, calls apart

Kinds == <<Client, Call, Connection, Pad \intersect Inbound, Pad \ Inbound>> \o Others
Kind == DOMAIN Kinds
Other == UNION {Others[k] : k \in DOMAIN Others}

ASSUME EvaluatorsAssumption ==
  /\ Client \intersect (Call \union Connection \union Pad) = {}
  /\ Call \intersect (Connection \union Pad) = {}
  /\ Other \intersect (Client \union Call \union Connection \union Pad) = {}
  /\ Connection \intersect Pad = {}
  /\ CallOf \in [Client -> Call]
  /\ ClientOf \in [Connection -> Client]
  /\ Relayed \subseteq Connection
  /\ Inbound \subseteq Pad
  /\ Evaluations \in Nat
  /\ Overlap \in Nat
  /\ MaxChanges \in Nat

VARIABLES
  here,        \* what exists
  past,        \* what existed and is gone
  listed,      \* the keys of callStorage
  added, removed,  \* what the next context will list
  eval,        \* eval[e]: where evaluation e is, and its local variables
  opened, closed,  \* the counters of commonEvaluator by kind
  summaries,   \* the Map callSummaries: call -> maxParticipants
  reports,     \* the summaries reported, <<call, maxParticipants>>
  turnUsage,   \* gauge: <<clients using TURN, clients>>
  rtpStreams,  \* gauge
  seen,        \* the most participants an iteration fetched of a call (history)
  revisited,   \* calls an iteration fetched after their end was evaluated (history)
  crossed,     \* calls whose end was evaluated while a loop held them (history)
  still,       \* the last evaluation began after the last change (history)
  late         \* gauges an evaluation set after one that began later (history)

storageVars == <<here, past, listed, added, removed>>
metricVars  == <<opened, closed, summaries, reports, turnUsage, rtpStreams>>
historyVars == <<seen, revisited, crossed, still, late>>
vars == <<storageVars, eval, metricVars, historyVars>>

\* visited: keys an iteration has been through; call: the value the loop over
\* callStorage was given and has not recorded yet; count: a length or size read
NotBegun == [pc |-> "none", visited |-> {}, call |-> {}, users |-> {}, count |-> 0]

Init ==
  /\ here = {}
  /\ past = {}
  /\ listed = {}
  /\ added = {}
  /\ removed = {}
  /\ eval = [e \in 1 .. Evaluations |-> NotBegun]
  /\ opened = [k \in Kind |-> 0]
  /\ closed = [k \in Kind |-> 0]
  /\ summaries = <<>>
  /\ reports = <<>>
  /\ turnUsage = <<0, 0>>
  /\ rtpStreams = 0
  /\ seen = [x \in Call |-> 0]
  /\ revisited = {}
  /\ crossed = {}
  /\ still = TRUE
  /\ late = {}

Participants(x) == {c \in Client \intersect here : CallOf[c] = x}

-----------------------------------------------------------------------------
(* observer-js: its storages and contexts change with the samples.         *)

Changes(come, go) ==
  /\ come \intersect (here \union past) = {}
  /\ here' = (here \union come) \ go
  /\ past' = past \union go
  /\ Cardinality(here' \ Call) + 2 * Cardinality(past' \ Call) <= MaxChanges
  /\ added' = added \union come
  /\ removed' = removed \union go
  /\ still' = FALSE
  /\ UNCHANGED <<eval, metricVars, seen, revisited, crossed, late>>

\* A client appears, with the call if it is the first.
Joins(c) ==
  /\ Changes({c} \union ({CallOf[c]} \ here), {})
  /\ listed' = listed \union {CallOf[c]}

\* A connection of a client, a pad of an SFU, or an object that is only counted
Opens(p) ==
  /\ p \in Connection => ClientOf[p] \in here
  /\ Changes({p}, {})
  /\ UNCHANGED listed

\* A client goes with its connections.  The call ends with the last one, and
\* callStorage drops it then or later.
Detaches(c) ==
  LET conns == {p \in Connection \intersect here : ClientOf[p] = c}
      ends  == {x \in {CallOf[c]} : Participants(x) = {c}}
  IN /\ c \in here
     /\ Changes({}, {c} \union conns \union ends)
     /\ listed' \in {listed, listed \ ends}

Closes(p) ==
  /\ p \in here
  /\ Changes({}, {p})
  /\ UNCHANGED listed

Drops(x) ==
  /\ x \in listed \intersect past
  /\ listed' = listed \ {x}
  /\ UNCHANGED <<here, past, added, removed, eval, metricVars, historyVars>>

-----------------------------------------------------------------------------
(* One evaluation.                                                         *)

At(e, pc) == eval[e].pc = pc

Running == {e \in 1 .. Evaluations : eval[e].pc \notin {"none", "done"}}

\* counter.inc(ids.length) for every kind of object
IncOnce(counter, ids) ==  \* mutant: counter.inc()
  [k \in Kind |-> counter[k] + IF ids \intersect Kinds[k] = {} THEN 0 ELSE 1]
Inc(counter, ids) == [k \in Kind |-> counter[k] + Cardinality(ids \intersect Kinds[k])]

\* One report for each ended call that has a summary
Reported == (Call \intersect removed) \intersect DOMAIN summaries

\* The calls that the loop of some evaluation holds
Held == UNION {eval[f].call : f \in 1 .. Evaluations}

\* A context is ready: commonEvaluator and the part of callsEvaluator before its
\* first await.
Begin(e) ==
  /\ At(e, "none")
  /\ \A f \in 1 .. e - 1 : ~At(f, "none")
  /\ Cardinality(Running) < Overlap
  /\ added \union removed # {}
  /\ opened' = Inc(opened, added)
  /\ closed' = Inc(closed, removed)
  /\ \E order \in [1 .. Cardinality(Reported) -> Reported] :
       /\ {order[i] : i \in DOMAIN order} = Reported
       /\ reports' = reports \o [i \in DOMAIN order |-> <<order[i], summaries[order[i]]>>]
  /\ summaries' = [x \in DOMAIN summaries \ Reported |-> summaries[x]]
  /\ added' = {}
  /\ removed' = {}
  /\ eval' = [eval EXCEPT ![e].pc = "calls"]
  /\ crossed' = crossed \union (removed \intersect Held)
  /\ still' = TRUE
  /\ UNCHANGED <<here, past, listed, turnUsage, rtpStreams, seen, revisited, late>>

Larger(m, n) == IF m < n THEN n ELSE m

\* The iteration over callStorage has fetched one more call: it hands the loop
\* the participants of now.
FetchCall(e, x) ==
  LET n == Cardinality(Participants(x))
  IN /\ At(e, "calls")
     /\ eval[e].call = {}
     /\ x \in listed \ eval[e].visited
     /\ eval' = [eval EXCEPT ![e].visited = @ \union {x}, ![e].call = {x}, ![e].count = n]
     /\ seen' = [seen EXCEPT ![x] = Larger(@, n)]
     /\ revisited' = IF x \in past \ removed THEN revisited \union {x} ELSE revisited
     /\ UNCHANGED <<storageVars, metricVars, crossed, still, late>>

Latest(x, n) == n  \* mutant: without Math.max
MaxParticipants(x, n) == Larger(IF x \in DOMAIN summaries THEN summaries[x] ELSE 0, n)

\* ... and the loop goes on with it when the await resumes: changes, and other
\* evaluations, may have come in between.
RecordCall(e, x) ==
  /\ x \in eval[e].call
  /\ summaries' = [y \in DOMAIN summaries \union {x} |->
                     IF y = x THEN MaxParticipants(x, eval[e].count) ELSE summaries[y]]
  /\ eval' = [eval EXCEPT ![e].call = {}, ![e].count = 0]
  /\ UNCHANGED <<storageVars, opened, closed, reports, turnUsage, rtpStreams, historyVars>>

\* The iteration is through: turnEvaluator begins.
CallsRead(e) ==
  /\ At(e, "calls")
  /\ eval[e].call = {}
  /\ listed \subseteq eval[e].visited
  /\ eval' = [eval EXCEPT ![e].pc = "turn", ![e].visited = {}]
  /\ UNCHANGED <<storageVars, metricVars, historyVars>>

UserById(p) == p            \* mutant: the id of the connection
User(p) == ClientOf[p]

\* The iteration over peerConnectionStorage reads one more connection.  The body
\* of this loop touches only the set of this evaluation, so that it is no matter
\* when the await resumes.
ReadConnection(e, p) ==
  /\ At(e, "turn")
  /\ p \in (Connection \intersect here) \ eval[e].visited
  /\ eval' = [eval EXCEPT ![e].visited = @ \union {p},
                          ![e].users = IF p \in Relayed THEN @ \union {User(p)} ELSE @]
  /\ UNCHANGED <<storageVars, metricVars, historyVars>>

ConnectionsRead(e) ==
  /\ At(e, "turn")
  /\ (Connection \intersect here) \subseteq eval[e].visited
  /\ eval' = [eval EXCEPT ![e].pc = "size", ![e].visited = {}]
  /\ UNCHANGED <<storageVars, metricVars, historyVars>>

\* clientStorage.size() reads how many there are,
CountClients(e) ==
  /\ At(e, "size")
  /\ eval' = [eval EXCEPT ![e].pc = "sized", ![e].count = Cardinality(Client \intersect here)]
  /\ UNCHANGED <<storageVars, metricVars, historyVars>>

\* The gauge is late when an evaluation that began after e has set it already.
SetLate(e, gauge, after) ==
  late' = IF \E f \in e + 1 .. Evaluations : eval[f].pc \in after
          THEN late \union {gauge} ELSE late \ {gauge}

\* ... and when the await resumes the gauge is set, to a percentage of
\* 100 * users / size: more than 100 when clients left in between, and NaN when
\* none was there.
TurnObserved(e) ==
  /\ At(e, "sized")
  /\ turnUsage' = <<Cardinality(eval[e].users), eval[e].count>>
  /\ eval' = [eval EXCEPT ![e].pc = "sfu", ![e].users = {}, ![e].count = 0]
  /\ SetLate(e, "turn", {"sfu", "second", "sum", "done"})
  /\ UNCHANGED <<storageVars, opened, closed, summaries, reports, rtpStreams, seen,
                 revisited, crossed, still>>

\* sfuEvaluator asks two storages for their size; one answers before the other,
Sides == {Pad \intersect Inbound, Pad \ Inbound}

FirstSize(e) ==
  /\ At(e, "sfu")
  /\ \E s \in Sides :
       eval' = [eval EXCEPT ![e].pc = "second", ![e].visited = s,
                            ![e].count = Cardinality(s \intersect here)]
  /\ UNCHANGED <<storageVars, metricVars, historyVars>>

SecondSize(e) ==
  /\ At(e, "second")
  /\ eval' = [eval EXCEPT
                ![e].pc = "sum",
                ![e].count = @ + Cardinality((Pad \ eval[e].visited) \intersect here)]
  /\ UNCHANGED <<storageVars, metricVars, historyVars>>

\* ... and Promise.all resumes with both.
StreamsObserved(e) ==
  /\ At(e, "sum")
  /\ rtpStreams' = eval[e].count
  /\ eval' = [eval EXCEPT ![e] = [NotBegun EXCEPT !.pc = "done"]]
  /\ SetLate(e, "streams", {"done"})
  /\ UNCHANGED <<storageVars, opened, closed, summaries, reports, turnUsage, seen,
                 revisited, crossed, still>>

ObserverJs ==
  \/ \E c \in Client : Joins(c) \/ Detaches(c)
  \/ \E p \in Connection \union Pad \union Other : Opens(p) \/ Closes(p)
  \/ \E x \in Call : Drops(x)

Evaluation(e) ==
  \/ Begin(e)
  \/ \E x \in Call : FetchCall(e, x) \/ RecordCall(e, x)
  \/ CallsRead(e)
  \/ \E p \in Connection : ReadConnection(e, p)
  \/ ConnectionsRead(e)
  \/ CountClients(e)
  \/ TurnObserved(e)
  \/ FirstSize(e)
  \/ SecondSize(e)
  \/ StreamsObserved(e)

Next == ObserverJs \/ \E e \in 1 .. Evaluations : Evaluation(e)

Spec == Init /\ [][Next]_vars

-----------------------------------------------------------------------------
(* Properties.                                                             *)

\* Whatever overlaps, the counters miss and repeat nothing: with what the next
\* context will add, their difference is what exists.
CountersBalance ==
  \A k \in Kind :
    LET of(S) == Cardinality(S \intersect Kinds[k])
    IN opened[k] + of(added) = closed[k] + of(removed) + of(here)

\* A call is reported at most once, after its end, with the most participants
\* any evaluation has fetched; and once its end was evaluated no summary stays.
\* Two things break this: a loop that holds the call while its end is evaluated
\* (crossed) records a count the report missed, and the summary then stays; and
\* so does the one recorded when callStorage still lists the call (revisited).
Summaries ==
  /\ \A i \in 1 .. Len(reports) :
       /\ reports[i][1] \in past
       /\ reports[i][2] <= seen[reports[i][1]]
       /\ reports[i][2] < seen[reports[i][1]] => reports[i][1] \in crossed
       /\ \A j \in 1 .. Len(reports) : reports[i][1] = reports[j][1] => i = j
  /\ \A x \in DOMAIN summaries : x \in past \ removed => x \in revisited \union crossed

\* When no evaluation runs and nothing changed since the last one began, a gauge
\* shows what exists, unless an earlier evaluation was the last to set it: what
\* disturbed an evaluation does not outlast the next one that is not disturbed.
GaugesSettle ==
  LET users == {ClientOf[p] : p \in Relayed \intersect here}
  IN Running = {} /\ still =>
       /\ "turn" \notin late =>
            turnUsage = <<Cardinality(users), Cardinality(Client \intersect here)>>
       /\ "streams" \notin late => rtpStreams = Cardinality(Pad \intersect here)
=============================================================================
