# TLA+ models of the ObserveRTC demo application

The repository holds three programs that talk over websockets: a **webapp** (React), an
**SFU** (node, mediasoup) and an **observer** (node, observer-js). This directory holds
TLA+ modules that model their control, configurations that check the modules with TLC, and
theorems about them that TLAPS checks. The machine-readable index is `PROJECT.json`: for
every definition that models code it names the source lines, for every property a mutation of
the model that breaks it.

## 1. The system

| Component | State it keeps | Operations | Interacts with |
|---|---|---|---|
| SFU room (`sfu/src/media/Room.ts`, `ClientEvents.ts`) | Map of clients by clientId; per client the capabilities, two transports, Maps of producers and consumers; the router | one handler per message, `add`, the close of a websocket, `close` | awaits the mediasoup worker; notifies other clients |
| Room directory (`Rooms.ts`, `sfu/src/main.ts`) | Maps of rooms and of promised rooms | `getOrCreateRoom`, `onClosed` | awaits `createRouter`; calls `room.add` |
| Message protocol (`MessageProtocol.ts`, `MessageProtocol.tsx`) | none | which message types exist, who listens for which, what answers what | webapp and SFU |
| Server (`Server.ts`, the same in sfu and observer) | a state `idle/started/run/stopped`, http and websocket server | `start`, `stop`, SIGINT, requests | middlewares, controllers |
| Observer client of the SFU (`sfu/src/common/ObserverServiceClient.ts`) | websocket, buffer | `connect`, `disconnect`, `close`, `send` | observer |
| Observer sources (`ObservedClients.ts`, `ObservedSfus.ts`) | Map of sources by id, time of disconnection | `accept`, close of a websocket, `check`, `clear` | observer-js |
| Connection to the SFU (`webapp/.../ServerConnection.tsx`) | websocket, promise of one, buffer with a timer, table of requests | `connect`, `sendMessage`, `request` | SFU |
| Media service and remote clients (`MediasoupService.tsx`, `MediaServiceContext.tsx`, `RemoteClients.tsx`, `remoteClientsSlice.tsx`) | transports, consumers, streams, store | `connect`, two notifications, two component listeners, reducers | SFU through ServerConnection |
| Local media (`LocalClientMediaBox.tsx`, `MediasoupService.tsx`) | tracks, producers, button states | `getMedia`, `produceMedia`, pause and play | SFU |
| Observer client of the webapp (`webapp/src/utils/ObserverServiceClient.ts`) | websocket, attempts, buffer | `connect`, `disconnect`, `close`, `send` | observer |
| Evaluators (`observer/src/evaluators`) | Prometheus counters and gauges, Map of call summaries | four evaluators per context, one after the other | observer-js: its storages and contexts |
| Observer main (`observer/src/main.ts`) | server, registries, observer | a new websocket goes to a registry by its protocol, SIGINT | Server, sources, evaluators |
| Sink, statistics views, layout, store wiring, configuration, loggers | see section 8 | | |

Every program is single-threaded and event-driven: a handler runs until it awaits, and what
happens in between is decided by the network, the worker and the user. What is hard here is
therefore the same everywhere: values tested before an await and used after it (the room's
consumers and transports, the directory's promise), messages and closes in orders nobody wrote
a test for (a consumer closed while the browser sets it up), listeners put on too late or not
at all, a worker or a websocket that dies in the middle, and retries and timers. The list, with
lines, is `hazards` in `PROJECT.json`.

What makes the parts correct:

* room: whoever joined consumes every other client's producers; clients are told exactly what
  the room holds for them; a transport goes with its client; no dead entry stays in the Map;
* call: who is in the call comes to be seen, and who left disappears from the screen;
* directory: one room per id, those who ask for it meet there, and it goes with the last of them;
* sources: one open source per id, and a client that is back is not removed;
* connections: one websocket at a time; a message leaves at most once, and only one that still waits
  in the buffer is overtaken; a request reaches the SFU, and its answer the caller; closed is closed;
* evaluators: counters miss and repeat nothing, a summary reports the peak once and is freed, gauges
  settle on what exists;
* browser: the screen shows what the SFU sends, the buttons say what is sent.

## 2. Modules

| Module | Models | Instance for TLC | Proofs |
|---|---|---|---|
| `MessageProtocol` | message types, listeners and responses; no state | used by `Room` and `ServerConnection` | |
| `Room` | SFU room | `MCRoom` | `RoomProofs` |
| `MediaClient` | MediasoupService, RemoteClients and store of one browser, beside the SFU's side of its websocket | `MCMediaClient` | `MediaClientProofs` |
| `Call` | composition: `Room` and one browser, joined by both directions of its websocket; implements `MediaClient` | `MCCall` | `RoomProofs`, second half |
| `Rooms` | directory of rooms | `MCRooms` | `RoomsProofs` |
| `ObservedSources` | ObservedClients and ObservedSfus | through `Observer` | `ObserverProofs` |
| `Server` | http and websocket server, middlewares, SIGINT | through `Observer` | `ObserverProofs` |
| `Observer` | composition: `Server` feeding `ObservedSources`, as `observer/src/main.ts` does | `MCObserver` | `ObserverProofs` |
| `Evaluators` | the four evaluators beside observer-js | `MCEvaluators` | `EvaluatorsProofs` |
| `ServerConnection` | connection of the webapp to the SFU | `MCServerConnection` | `ServerConnectionProofs` |
| `SampleChannel` | abstract: an ordered, lossy channel for samples | | |
| `ObserverClient` | the webapp's client of the observer, implements `SampleChannel` | itself | `ObserverClientProofs` |
| `SfuObserverClient` | the SFU's client of the observer, implements `SampleChannel` | itself | `ObserverClientProofs` |
| `LocalMedia` | what one browser sends, up to the SFU's producers | itself | `LocalMediaProofs` |

**Compositions.** In `Call` the room's steps are those of `Room` and the browser's those of
`MediaClient`; what `MediaClient` keeps about the SFU (`srv`, `added`, `announcing`, `outbox`) is not a
variable there but a function of the room's state, the substitution of `INSTANCE MediaClient WITH`.
`ImplementsMediaClient` then says that the SFU `MediaClient` was checked against is the one `Room`
describes; TLC checks it on the instance of `Call`, and `RoomProofs` proves it for all of them.
`Observer` conjoins a step of `Server` with the step of the registry that the same event
causes (a websocket that is accepted, a websocket that goes), so that the end of the server is seen by
the registry too. `Server` stands for both copies of the file; `StopOnce` says whether a second SIGINT
calls `stop` again (the SFU) or not (the observer).

**Evaluators.** observer-js is external: its storages say what exists, its context what came and went
since the last context. The evaluators read the storages through asynchronous iterators, and nothing
keeps a second evaluation from starting meanwhile, so an evaluation is a process that takes a step for
what an await reads and another for what the code does with it when it resumes: `FetchCall` and
`RecordCall` for a turn of the loop over calls, `CountClients` and `TurnObserved` for the number of
clients, `FirstSize`, `SecondSize` and `StreamsObserved` for the two sizes of `Promise.all`. The loop over
connections is the exception: its body only adds to a set of its own evaluation, so that nothing can tell
when it resumes, and `ReadConnection` is one step. A counter is incremented by the length of the list; a
percentage is kept as its numerator and denominator. Of the eleven kinds of objects `commonEvaluator`
counts, six (four kinds of tracks, SCTP channels, transports) are only counted (`Others`).

**One step is one stretch of code between awaits.** In `Room` the variable `pc[r]` says where the
handler of message `r` waits. The locals that survive an await are variables too: `seen` (which
keys the loop has visited), `cur`, `to`, `via`, `tried` (the consume that is awaited). Promise
callbacks that follow an event without another event in between belong to the same step, which is
why `RouterCreated` of `Rooms` lists the room, forgets the promise and adds every waiting client.

**Mediasoup** is external. Its channel to the worker is FIFO, so a request takes effect when it is
issued and its answer comes later; a request for something that is closed by then is refused, and
the handlers without a `catch` then end the process (`UnhandledRejection`; variable `up`). Closing a
transport closes what was made on it and fires the listeners of `Room.ts:178` and `:280`
(`CloseTransports`); the close of a producer reaches consumers on other transports as an event of
its own (`ConsumerClosed`).

**Names.** A transport and a producer are named by the message that asked for them, a room and a
source by the connection that created it, a chain of attempts by the number of the call. Contents of
messages, capabilities, RTP parameters, tokens and logs are left out.

**History variables** (`ready`, `told`, `overlapped`, `forgotten`, `early`, `leaving`, `crossed`, `dropped`,
`lost`, `hurried`, `missed`, `ghosts`, `failed`, and `seen`, `revisited`, `crossed`, `still`, `late` of `Evaluators`)
record what happened for the properties and guard nothing. Those that also keep an event from happening
twice to one message (`asked`, `answered`, `unanswered` of `ServerConnection`) stand for the uuid every message has.

Operators marked `mutant` are plausible mistakes; no specification uses them. They are the
mutations listed in `PROJECT.json`.

## 3. Runs

All of them are complete searches of the instance. Deadlock is not checked in any: every program
may come to rest when no client sends anything and all bounds are reached.

| Run | Instance | States | Shows |
|---|---|---|---|
| Room | three scenarios of `MCRoom`, each in every order: one publisher of audio and video and a client that joins; a publisher that can also receive, a client that joins, and a second connection with the publisher's clientId; every other message, with a transport asked for twice | 304,127 | `ClientViewExact`, `OrphanedWhileCreating`, `SoleConnectionIsRegistered`, `EmptyRoomIsClosed`, `NoSelfConsume`, `MeshWhenQuiet` |
| Call | a publisher of one track and the participant whose browser is modelled | 7,192 | `ImplementsMediaClient`, `Connects`, `TracksShown`, `TracksVanish` |
| Rooms | six connections, two rooms, a shared clientId, one without roomId | 117,724 | `OneRoomPerId`, `ListedIsOpen`, `MembersMeet`, `RoomsEmptyOut`, `EveryoneJoins` |
| Observer | two websockets of one client, one of another and one refused; two http requests, one of which nothing answers; clock to 3, limit 1; `check` and `clear` at any time; two starts | 716,517 | `OneOpenSource`, `UndisturbedIsObserved`, `StoppedIsStamped`, `IdleHoldsNothing`, `SigintExits` |
| Evaluators | one call with two clients, one of them with two relayed connections, an inbound and an outbound pad, and one track; three evaluations, two at a time | 2,405,568 | `CountersBalance`, `Summaries`, `GaugesSettle` |
| ServerConnection | a request that is answered with another request's response class, a notification, a request nobody listens for; buffer of two, age 1, `maxRetry` 1, two calls of connect | 12,909 | `OneChain`, `Accounted`, `RetryLimit`, `OnlyBufferedOvertaken`, `RequestsResolve` |
| ObserverClient | three websocket slots, reconnect on, two calls of connect | 42,084 | `ImplementsChannel`, `OneSocket`, `Reconnects`, `CloseIsFinal` |
| SfuObserverClient | as in the code | 134 | `ImplementsChannel`, `CloseIsFinal` |
| MediaClient | three consumers of two participants | 40,601 | `NothingAnnouncedTooEarly`, `StoreMatchesStreams`, `ShownExact` |
| LocalMedia | audio and video, the websocket and the worker may go | 316 | `MutedIsSilent`, `MutableIsSent`, `GetMediaEnds` |

Two runs are expected to fail: the code does not do what a line of the repository says.

| Run | What happens | Line |
|---|---|---|
| RoomDuplicate | a producer is consumed twice by one client: two handlers pass the check ("is already consumed", `Room.ts:255`) before either records its consumer | `Room.ts:274` |
| SfuObserverClientMain | the SFU never reconnects to the observer, although `sfu/src/main.ts:46` asks for it | `sfu/src/common/ObserverServiceClient.ts:85` |

Several properties name exactly the cases in which the code falls short, so that they say how far it
can be wrong. `ShownExact` (`MediaClient`): apart from consumers that were ready before anyone listened
(`missed`), were retracted while they were being set up (`ghosts`) or could not be consumed (`failed`), the
screen shows what the SFU holds. `TracksShown` and `TracksVanish` (`Call`) except the same. `UndisturbedIsObserved`
excepts websockets that overlapped with another of their clientId, `RoomsEmptyOut` clients that closed
before they were added, `OneSocket` a `connect` that overtakes the end of the last websocket,
`RequestsResolve` a broken websocket, retries that were given up and a request the SFU does not answer,
`OnlyBufferedOvertaken` what is sent while the buffer waits for its timer, `OrphanedWhileCreating` the await
of `createWebRtcTransport`, `Connects` a request before `room.add` and a device that does not load, `Summaries` a
call that a loop held while another evaluation reported it (`crossed`) or that callStorage lists after its
report (`revisited`), `GaugesSettle` a gauge that an earlier evaluation set last (`late`), `MutableIsSent` a track
whose partner failed, `GetMediaEnds` a request without an answer. A hazard that such an exception lets
through is listed in `PROJECT.json` without that property and with a note.

## 4. Bounds

* `Room`: the set of messages. Each may arrive once, at any time while its connection is open. The
  state constraint `OneScenario` keeps a behaviour to the messages and connections of one of the
  scenarios of `MCRoom` (all messages at once are out of reach); within it every order is explored.
  Two clients are enough for the loops to overlap in both roles, two tracks for the inner loop to be
  suspended between two producers, a third connection for a key that changes hands. More than two
  keys are left to the theorems, which have no such bound.
* `Call`: one track of one other participant, who may publish before, during or after the participant's
  `connect()`, leave, or never come. Several tracks and clients are the matter of `Room` and `MediaClient`,
  each with more of them.
* `MaxNow`, `MaxDisconnectingTime` (`ObservedSources`): the limit is crossed several times.
* `MaxCalls`, `MaxFailures`, `MaxNow` (`ServerConnection`): a second call of connect, more failures
  than retries.
* `MaxAttempt` (`ObserverClient`) stands for the constant 10 of the code; with two `MaxConnects`
  `disconnect` can be followed by `connect` before the old websocket is gone; `MaxSamples` lets samples
  be kept and sent over two connections; `Socket` has more slots than are used at a time.
* `MaxStarts` (`Server`): a server that is stopped and started again.
* `Evaluations`, `Overlap`, `MaxChanges` (`Evaluators`): two evaluations overlap and a third comes after
  them. Three are needed for a report of too low a peak: one reads a call with one client and records it,
  the next is given the call with two and is still to record that, and the last reports its end. A coming
  counts one and a going two, calls apart, so that two clients with two connections come, or one client
  with a connection comes and goes, within the bound of 4. The two connections are alike (symmetry); each
  object comes and goes once, since its id is new every time.

## 5. Fairness

Weak fairness only, and only for what the platform promises: a promise that was settled runs its
callbacks, a timer that was set fires, the worker answers or dies, an attempt to connect ends, a message
on an open websocket arrives. No fairness is assumed for users (the browser's question for the devices
may stay open), clients, failures or departures.

* `Call`: the directory adds the participant, the worker answers, messages arrive, the browser's event loop
  runs; `device.load` is settled, one way or the other. Publishing and leaving of others are not fair.
* `Rooms`: the router is created or refused.
* `ServerConnection`: the webapp calls `connect` when it starts, the SFU accepts after at most `MaxFailures` attempts of a chain (an SFU that never comes
  up leaves the buffer as it is, by design), and a request that reached it is handled, which need not mean
  answered: `Response(m)` or `NoResponse(m)`, the second for a type nobody listens for, for a message before
  `room.add`, and for the early returns of `Room.ts:91-96`, `163-166`, `175-177`, `195-197` and `207-209`.
* `ObserverClient`, `SfuObserverClient`: attempts end, closing websockets close, the pause before a reconnection ends.
* `Observer`: only the timer that SIGINT sets (`Exit`). Clients need not leave, so `stop` need not return.
* `LocalMedia`: mediasoup-client runs its queue, and the SFU handles a request that reaches it; it may
  leave it without an answer. Nothing makes the participant grant or refuse the devices: `GetMediaEnds` begins
  where they are granted.

## 6. Proofs

Every safety invariant that a run checks is also a theorem, and so are the refinements, for every
value of the constants under the named assumptions. The provers are Z3, Zenon and, for the temporal
steps, LS4. Most assumptions only give the constants their types. Three say more: the ids of clients,
calls, connections and pads are disjoint (`EvaluatorsAssumption`; each object gets a uuid of its own);
the websockets that reach the registry and all other connections are different (`ObserverAssumption`); and nobody shares
the clientId of the participant of a call, which has one message of each type `connect()` sends
(`CallAssumption`; the browser makes up its clientId with `uuid()` in `localClientSlice.tsx:13`, and nothing
calls `connect()` twice).

* **RoomProofs, the room**: the invariants of `Room`, among them `MeshWhenQuiet`, and its action property
  `OrphanedWhileCreating` (with `TransportType`: transports are made by one type of message). "No handler waits" says
  nothing about the states in between, so the invariant that carries the proof is `MeshInv`: for a
  client that joined and a producer, both registered, the consumer is there, or some handler waits for
  it, or the loop of the join or of the producer has still to come to the other client (`OnTheWay`).
  It needs `LiveInv` (a registered client's producers are live, so that a waiting handler is not
  refused), `OwnerInv` (what belongs to which connection), `HandlerInv` (where a handler can be), `RouterInv`
  (what mediasoup closes with a transport or the router) and `RegisteredIsOpen`. The idea behind it is that whichever of the join and the producer is recorded
  later sees the earlier one in the Map.
* **RoomProofs, the call**: `CallImplementsMediaClient`, step by step. What the browser keeps about the SFU is
  a function of the room's state, so each step of the room has to be matched with what the browser sees
  of it: an answer at the front of its queue (`SeesAnswer`), one announcement, some retractions
  (`SeesView`), or nothing (`Unseen`). The invariant `CallInv` says why this fits: where `connect()` stands
  determines what is on the wire and which of its handlers have run (`Progress`, `ReadInv`, `SelfInv`),
  answers on their way are unread and occur once (`AnswerInv`), and a consumer is told of once
  (`ToldInv`). The last is the hard one: nothing in `Room.ts` remembers a consumer that is gone, and
  what keeps a handler from making the same one again is that its loop is past that producer (`Met`,
  `Past`, `Fresh`). That needs `CallAssumption`: a second connection under the participant's clientId
  would let the loops meet it twice. `CallImplementsRoom` carries the theorems on `Room` over to a call.
  With `MediaClientProofs`, instantiated for the call, they give `CallParticipantSees`: at rest the
  screen shows exactly the consumers that the room holds for the participant, but for the three
  exceptions of `ShownExact`.
* **RoomsProofs**: `OneRoomPerId`, `ListedIsOpen`, `MembersMeet`, from `PendingInv` (a promised room is
  the one in `_creatingRooms`, and nothing is listed under its id), `MemberInv` and `SoleInv`; and
  `RoomsEmptyOut`, from `PresentInv` (whatever key a listed room holds belongs to a client that is open or
  came too early) and `WaitInv` (a client that waits for its room is not in one).
* **ObserverProofs**: on the registry, `OneOpenSource` and `UndisturbedIsObserved`, inductive together once
  the open connections that share an id are known to be in `overlapped` (`OverlapInv`); `forgotten` holds
  what `clear` let go of. On the server, `ServerInv`: where `start` and `stop` are, by the state, and that
  connections exist only between `listen` and the callback of the http server's `close`. `Observer` implements
  both `ObservedSources` and `Server`, so their theorems hold in it, `IdleHoldsNothing` among them. `StoppedIsStamped` relates the
  two: by `HeldInv` a source that passes for connected has a websocket that the server holds, and a
  stopped server holds none.
* **EvaluatorsProofs**: `CountersBalance`, by counting: a context lists a part of what exists or is gone
  (`StorageInv`), and Begin adds the cardinalities of its lists. `Summaries`, from `PeakInv` (until the end
  of a call was evaluated, its summary is the most participants a loop was given, or some loop still holds
  that number; a loop that holds, or a summary of, a call that is over makes it `revisited` or `crossed`) and
  `ReportInv` (what was reported is over, at most the peak, and once). `GaugesSettle`, from `EvalInv` (where
  each evaluation is, and its locals) and `GaugeInv`: while nothing changes, the last evaluation that began
  has visited a part of what exists and counted that.
* **ServerConnectionProofs**: `OneChain` and `TimerCoversBuffer`. The latter rests on `_ws` never being
  reset: with a websocket in place nothing is buffered, and the timer only ends when there is one.
  `RetryLimit`, from `RetryInv` (a chain that is not through is the one of `_connecting`, and nothing is sent
  before). `Accounted`, from `PlaceInv`: buffer, wire, dropped and lost have no message in common and hold
  each once. `OnlyBufferedOvertaken`, from `OrderInv`: the buffer holds messages in the order of `asked`, and one
  that left before a buffered one was either asked earlier or is in `hurried`. That the flushed part of the buffer can be put in order
  is shown with a least counterexample, on the well-founded order of the naturals.
* **ObserverClientProofs**: both clients implement `SampleChannel`, with the number of samples that left the
  client as `offered - Len(buffer)`. The invariant `BufferInv` says that the buffer is the block of the last
  samples offered. `OneSocket` of the webapp's client, from `SocketInv`: an attempt is under way only while
  `_connecting` says so, and the websocket that comes of it stays in `_ws` until its close event.
* **MediaClientProofs**: `StoreMatchesStreams` is inductive with the types. `NothingAnnouncedTooEarly` needs
  `EarlyInv`: before an announcement, in the inbox, there are the answers for both transports, because
  the requests went out and are answered in order; and `AddedInv`, since what comes before `room.add` is
  lost. `ShownExact` follows a consumer on its way to the screen: the stations (announced, being set up, shown,
  lost) are disjoint (`StationInv`), every live consumer is at one of them (`WayInv`), the inbox
  holds each message once and a retraction behind its announcement (`QueueInv`), and a track is in its
  owner's stream (`OwnerInv`).
* **LocalMediaProofs**: `MutedIsSilent` and `MutableIsSent` (while the websocket is open and the worker lives), from `ReadyInv` (both tracks are set together,
  after both calls of `produceMedia` have returned) and `SfuInv` (the SFU's producers are those it answered for).

The type invariants, `RegisteredIsOpen` and `TimerCoversBuffer` are steps of these proofs; they hold for every
instance and are not repeated in the runs.

Only model-checked, because the provers do not handle fairness and `ENABLED`: the liveness properties
`Connects`, `TracksShown`, `TracksVanish`, `EveryoneJoins`, `SigintExits`, `RequestsResolve`, `Reconnects`, `CloseIsFinal`
and `GetMediaEnds`.

## 7. Observations without a run

Read off the code while modelling; the models have these behaviours.

* `Room.ts:103`: a second create-transport-request that arrives while the first is awaited passes the
  check; the first transport stays in the worker until the room closes. So does a transport whose client
  left before it was stored. `OrphanedWhileCreating` says that these are the only two ways.
* `Room.ts:221` deletes by clientId: when a client with a clientId that is in use leaves, the newer
  connection under that id is forgotten by the room (`SoleConnectionIsRegistered` excepts it).
* `ServerConnection.tsx:144`: a message sent after the websocket has opened and before the timer fires
  overtakes the buffered ones (`hurried`). The webapp keeps out of this: `connect()` of `MediasoupService`
  sends its next message after the answer to the first.
* When the worker dies, or the SFU closes the transports, with the websocket open, the browser is not
  told: its buttons go on working on producers that are gone (`dead` in `LocalMedia`).
* `MediasoupService.tsx:120`: when the device does not load, `connect()` is rejected, nobody catches it, and the page stays as
  it is (`phase = "failed"`).
* `ObservedClients.ts:131`: the late close of an old websocket stamps a client that has reconnected
  already; `UndisturbedIsObserved` therefore excepts websockets that overlapped.
* `observer/src/main.ts:44` configures the time after which a disconnected client is removed, and nothing
  calls `check`. The model has `check` and `clear` as operations of the class, at any time.
* `ServerConnection.tsx:76` makes `maxRetry + 1` retries, and the rejection of a repeated attempt (`:81`)
  reaches nobody: `_connecting` stays pending. The webapp sets no limit.
* `MediaServiceContext.tsx:76`: consumers ready before `connect()` returns are not shown (`missed`);
  `MediasoupService.tsx:67`: a consumer closed while it is set up stays on the screen (`ghosts`).
* `LocalClientMediaBox.tsx:40`: when one of the two tracks cannot be produced, the other is sent and its
  button does nothing (`phase = "failed"` with a track in `sfu`).
* `Room.ts:213` answers resume-producer-request with a `PauseProducerResponse`. It is the class the webapp
  has a listener for: a resume-producer-response would resolve nothing (the mutant of `RequestsResolve`).
* The webapp never sends pause-producer-request, resume-producer-request or get-client-stats-request.
* `MediaServiceContext.tsx:61` makes an observer client it may never connect; `send` then buffers for ever.
* `consume` on a transport that its client closed during the loop rejects without a catch and ends the
  SFU; so does `createRouter` after the worker died, and an observer that is not up when the SFU starts.
* A room whose worker died stays listed, since `close` returns before `onClosed`.
* A websocket that closes before `room.add` leaves a client that never goes away, and the room with it
  (`early` in `RoomsEmptyOut`).
* `turnEvaluator.ts:37` divides what it counted while connections came and went by the number of clients
  afterwards: more than 100 %, or NaN when all have left. An evaluation that is overtaken by a later one
  sets a gauge back (`late`).
* `callsEvaluator.ts:61` makes a new summary for an ended call that callStorage still lists; nothing
  deletes it (`revisited`). The same happens when the loop was given the call, and another evaluation
  reports its end before the loop resumes (`crossed`); the report then misses what the loop was given.
* The SFU calls `stop` again with every SIGINT, the observer once.
* `get-client-stats-request` has no handler; a create-producer-request that the worker refuses gets no
  answer, and the browser waits for ever. So does an http request no middleware processes.
* `disconnect` of the webapp's observer client followed at once by `connect` lets the close listener of
  the old websocket clear `_ws` of the new one, and reconnect beside it (`crossed`).

## 8. Not modelled

The sink (an empty loop), statistics views and layout (rendering of what the monitor library holds), the
wiring of the store, configuration (read once), loggers. Of the message protocol the fields are left to
the modules that use them. The visitor of the middlewares is reduced to which controller answers. The
contents of the samples, and what observer-js computes from them, are external.

## 9. Plan

Modelled, in this order: `Room`, `Rooms`, `ObservedSources`, `ServerConnection`, the two observer clients with
`SampleChannel`, `MediaClient`, `LocalMedia`, `Server`; then `MessageProtocol`, `Call`, `Observer`, `Evaluators`. What is
left of the code is listed in section 8. The safety properties of the runs and the refinements are
proved (section 6). What could still be added:

1. The safety part of the liveness properties: invariants that say a step which would make progress is
   possible as long as the goal is not reached (for `RequestsResolve` and `EveryoneJoins`, say).
2. `Rooms` with rooms that are those of `Room`, as `Call` does it for the browser.
