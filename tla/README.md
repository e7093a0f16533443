# ges-client in TLA+

A verification development of ges-client, a Node.js client for Event Store. It
keeps TLA+ models of the client's TCP side beside the code, checks them with TLC
on small instances and proves what matters most with TLAPS for all of them.

## 1. The system

| Component | Source (under `src/`) | State | Operations | Interacts with |
|---|---|---|---|---|
| Connection API | `tcp/connection.js` | none of its own | connect, close, ten operations, metadata calls, four kinds of subscription | puts messages into the handler's queue |
| Connection logic handler | `tcp/connectionLogicHandler.js` | `_state`, `_connectingPhase`, `_queuedMessages`, `_connection` | one handler per message and state | its queue is filled by the API, by itself and by the package connection |
| Operations manager, operation items | `tcp/operationsManager.js`, `tcp/operations.js` | `_activeOperations`, `_waitingOperations` | schedule, enqueue, complete, finish | writes to the socket, calls the program back |
| Volatile subscriptions | `tcp/subscriptionsManager.js`, `tcp/subscriptionOperation.js`, `tcp/subscription.js` | `_activeSubscriptions`, `_waitingSubscriptions` | schedule, enqueue, finish, unsubscribe | emits events to the program |
| Package connection | `tcp/tcpPackageConnection.js` | the socket, `_closeCallbacks` | connect, data, error, close, `enqueueSend`, `close` | Node's `net.Socket` |
| Message receiver | `tcp/messageReceiver.js` | `_incompletePacket` | `processData` | called for every chunk, emits a message per packet |
| Framing and parsing | `tcp/lengthPrefixMessageFramer.js`, `tcp/messageParser.js`, `tcp/eventPayloads.js` | none | frame, unframe, parse, serialize, map | |
| Stream catch-up subscription | `tcp/catchUpSubscription.js` | `lastProcessedEventNumber`, `_liveSub`, `_isDropped`, `_shouldStop`, `_liveQueue`, `_allowProcessing` | start, stop, read a page, go live, process | reads through the connection, wraps a volatile subscription |
| All-streams catch-up subscription | same file, `tcp/position.js` | the same with positions, `_nextReadPosition` | the same | the same |
| Transaction | `tcp/transaction.js` | `_isCommitted`, `_isRolledBack` | write, commit | forwards to the connection |
| Stream metadata | `tcp/streamMetadata.js`, `tcp/streamMetadataResult.js`, `tcp/systemMetadata.js` | a record | read from an object or JSON, `toJSON` | used by the metadata calls |
| Constants and event data | `ges-client.js`, `eventData.js`, `tcp/system*.js`, `tcp/eventNumber.js` | none | | |
| HTTP feed reader | `http/*.js` | none | walks an Atom feed page by page | an example; the public API does not reach it |
| Payload parser | `tcp/tcpPayloadParser.js` | | | dead code, nothing requires it |

What is hard here. Node runs one callback at a time, so there are no data races;
what can go wrong is the *order* of callbacks. Everything the program asks for
becomes a message in a queue, and every message, every event of a catch-up
subscription and every `unsubscribe()` waits for a `setImmediate` of its own.
Socket events, server packages, closes and calls of the program fall anywhere in
between. The server may answer late or twice, refuse, reset or close; the program
may call anything at any time, including from the callbacks it is given.
`PROJECT.json` lists these hazards one by one, each at its line.

## 2. The modules

| Module | What it is |
|---|---|
| `ConnectionLogicHandler` | the connection: API, message queue, state machine, managers, operation and subscription items, socket; program and server as the environment |
| `ConnectionLogicHandlerProofs` | theorems about its types, its event loop, the lives of the connection and of its operations, and the order of answers and pushes |
| `CatchUpSubscription` | what the two catch-up subscriptions share, over a connected connection and a server |
| `CatchUpSubscriptionProofs` | lemmas about the shared part, for any extension's messages |
| `StreamCatchUpSubscription`, `StreamCatchUpSubscriptionProofs` | extends it for one stream; theorems about it, the refinement included |
| `AllCatchUpSubscription`, `AllCatchUpSubscriptionProofs` | extends it for all streams; theorems about it and about positions |
| `OrderedDelivery` | the abstract specification of what such a subscription promises; both implement it |
| `Position` | positions in the log and `compare` |
| `Transaction`, `TransactionProofs` | an explicit transaction, from `startTransaction` to the stream; theorems about it |
| `StreamMetadata`, `StreamMetadataProofs` | conversion of metadata, and programs that get and set them; theorems about it |
| `Framing` | the layout of a message as bytes |
| `MessageReceiver`, `MessageReceiverProofs` | chunks into packets; theorems about it |
| `FramedStream`, `FramedStreamProofs` | composes the two: messages framed at one end, chunks, messages unframed at the other; theorems about it |
| `MC...` | the constants TLC needs |

`CatchUpSubscription` is extended; `OrderedDelivery` is instantiated with a
refinement mapping; `AllCatchUpSubscription` extends `Position`; `FramedStream`
extends `MessageReceiver`, which extends `Framing`. `ConnectionLogicHandler`,
`Transaction` and `StreamMetadata` stand alone: the last two take the connection
for what `ConnectionLogicHandler` shows of it, a queue that answers each operation
at most once.

### ConnectionLogicHandler

Each handler of `connectionLogicHandler.js` is one action with the name of its
message; its disjuncts are the states of the `states` table. `handlePackage` is
split into `AnswerHeartbeat`, `FinishOperation`, `FinishSubscription` and
`IgnorePackage`, its four ways to end. The API calls are the actions `Connect`,
`Close`, `IssueOperation`, `IssueInvalid`, `Subscribe` and `Unsubscribe`; the
socket's events are `SocketConnect`, `SocketError`, `SocketData`, `SocketEnd` and
`SocketClose`.

*Immediates.* Node runs `setImmediate` callbacks first-in first-out. Those that run
`_processNextMessage` are all alike, so `ticks` counts them; the model needs no
list. The only other immediates whose place matters are the emissions of
`unsubscribe requested`, and `unsub[s]` counts the ticks that are ahead of one.
`Enqueue` is `enqueueMessage`; `Returns` and `Throws` are the two ways a handler
ends: a handler that throws does not reach the `setImmediate` at the end of
`_processNextMessage`, and the process dies of the uncaught exception (`crash`).
The argument errors of the read calls are immediates that touch nothing else,
so `ReportBadArgument` takes any time it likes.

*Calls from callbacks.* While a handler runs, its tick has been taken off and the
next is not scheduled yet. Whatever the program schedules then comes behind the
ticks that were pending and before the next one, as it does when the call is
made just before the handler's tick. So a call from a callback leads to a state
the model reaches by making the call first, and the model needs no nested calls.

*Ids.* Correlation ids are version 4 uuids; the model takes them for unique and
uses the request itself.

*The socket.* `None` is `_connection === null`. `Open` is the one state in which
`writable` is true. The remote end's FIN makes it `Closing` (no `allowHalfOpen`),
as `destroy()` does. A write on a socket that is not writable and a failed
connection emit `error`, which `tcpPackageConnection.js` emits again and nobody
listens to: the model's `crash`. Payloads are left out: an answer is the one
thing `OperationItem.finish` looks at (`ReplyTypes`).

*Closing.* `close()` may be called with a callback or without (`CloseTypes`). In the
Closed state `noOp` looks whether there is one; elsewhere `performCloseConnection`
calls it unseen, at once when nothing was connected and from the socket's `close`
event otherwise. So a `close()` without a callback ends the process
(`MissesCallback`, crash `NoCloseCallback`), and of the callbacks kept for the socket
those behind the missing one are not called. Once the server has closed the socket,
`destroy()` emits no second `close`: a callback kept then is never called.

*Packages for subscriptions.* `SubscriptionOperation.finish` tells the subscription an
`error` when it has no handler for the package, or the payload does not parse, and
then reads a property of undefined: the crash `UnreadablePackage`. The `error` itself
throws when the program does not listen to it, hence the choice in
`FinishSubscription`.

### CatchUpSubscription and its two extensions

Here the immediates are a real sequence, since each event of a page has one of
its own and their order among the connection's ticks is the question. Of
`ConnectionLogicHandler` only the queue, the listener for `unsubscribe requested`
and the states Connected and Closed remain; a close lets reads fail with
`raiseClosed`, drops the packages still queued, and makes a subscription that is
started then throw (`ThrowClosed`). `pass` is the call of `_readEventsUntil` under
way; `FirstPassDone` and `SecondPassDone` are its two callbacks, and run inside the
handler of the page, or the error, that ends the pass. `_processLiveQueue` empties
the queue into one immediate per event in one go, and `Schedules` keeps the order
in which the code calls `setImmediate`. Only calls of `stop()` from the `live`
listener are nested (in `SecondPassDone`), because there the code goes on
scheduling after the listener; others reduce to calls just before, as above.

Parts that differ are given by the extensions: how events are compared (`IsNew`),
when a pass is done (`IsDone`), where it starts to read. The all-streams
subscription keeps `_nextReadPosition` between the passes, and builds the position
at which its second pass ends from the confirmation's commit position alone.

The server answers a page of at most `PageSize` events. For a stream, a page that
reaches the end has `NextEventNumber` one past the last event and `IsEndOfStream`
set. For all streams, a page starts at the first event not before the position
asked for; `NextPosition` is past the commit of its last event, or inside that
commit when the page cuts a transaction; the client itself takes an empty page for
the end (`AllPage`). A subscription is confirmed with the last event's number or
commit position, events written from then on are pushed, whole transactions at a
time, and `SubscriptionDropped` comes last. A read can fail in either pass
(`Faults`).

`PosAssumption` is what is asked of the positions in the log: they grow, an event
is not behind its commit record, and only an event that is its commit's only one
may have the position of the record itself. The last part matters: the second
pass ends at the position made of the commit position alone, so with two events in
a commit, the last of them at that very position, a page that stopped short of it
would already count as the end.

`OrderedDelivery` knows the stream, the listener and whether the subscription has
ended: events from `From` on, each once, in order, no gap. The refinement maps
`delivered` to what was delivered while the promise stood (`Promised`) and `ended`
to the promise being over: with the first `dropped`, or with a read of the second
pass that failed. That what follows breaks the promise is what the runs
`after_dropped` and `gap` show.

### Transaction

`requests` and `answers` are what `ConnectionLogicHandler` does with operations, in
order. `write`, `commit` and their variants may be called at any moment: neither
flag of the transaction is ever read. `Outcome` is what is left of an answer after
`OperationItem.finish`: a bad request, a denied access, a wrong version and, for a
commit, a deleted stream are errors (`IsRefusal`); a payload that cannot be parsed is
an exception, whatever the server did; a timeout or an invalid transaction is a
result. The server keeps the writes it accepts until the commit, refuses what comes
after it or takes it without effect, and may time out having done its work or not.
`Close` loses answers and any number of the last requests; here and in
`CatchUpSubscription` it is a `close()` with a callback.

### StreamMetadata

`FromObj`, `FromBytes` and `ToJSON` follow `streamMetadata.js` key by key, with
documents as records; custom properties are one, since they are copied alike. Bytes
that hold no JSON object, set by whichever client, make `_fromJSON` throw: `NotJson` in
`JSON.parse`, `NotObject` at the lookup of the acl (`null`) or in `Object.keys`, which in
node 0.10 takes no number or string. A JSON array is an object with other keys. The
calls are two operations each program has pending one at a time. The server is the
metastream: versions, guarded appends, a hard delete. `Documents` says what a
document may hold, and `Custom` what its custom property may be.

### Framing, MessageReceiver, FramedStream

`Framing` is the layout, byte for byte, with the tables of commands and flags.
`MessageReceiver` deals with the stream: a byte is its position in it, so an
emitted packet shows exactly which bytes it is made of. A chunk has any length.
`processData` runs to its end before the next chunk: `data` is what it has yet to
look at, and the recursive call for the bytes behind a packet is the next step. A
length prefix read anywhere but at the start of a packet may be any number, so an
error in putting the bytes together cannot go unnoticed by luck. `FramedStream`
gives the positions their bytes, those of the frames one after another, and says
that the packets emitted unframe to the messages sent. Only one thing differs: the
credentials of an authenticated message stay in front of its payload, as `unframe`
does not look at the flag it returns.

## 3. The runs

| Run | Checks | What it shows |
|---|---|---|
| `operations` | `EveryMessageHasTick`, `OneHomePerOperation`, `AnswerIsFirstReply`, `QuietAfterClose` | two operations with up to two answers each, connect and close in any order, every socket fault: no message is stranded, no operation lost or called back twice, late answers change nothing, a closed connection is quiet |
| `subscriptions` | `TypeOK`, `UnsubscribeNeverOvertakes`, `PushesInOrder`, `QuietAfterClose`, `UnsubscribeServed` | a subscription with up to four packages (two events, or one that cannot be read) beside an operation, the server's FIN, an unsubscription at any time: it is heard, and ends in `dropped` unless the connection went first |
| `closing` | `ConnectedMeansEstablished`, `OperationAnswered`, `CloseAnswered`, `HeartbeatAnswered` | two connects and two closes, with a callback or without, race with the socket, an operation, a heartbeat and the server's FIN |
| `catch_up` | `TypeOK`, `LiveMeansCaughtUp`, `LiveQueueDrained`, `OnlyEarlyCloseThrows`, `ImplementsPromise`, `EveryEventDelivered`, `LastProcessedAtDrop`, `StopDrops` | two events, pages of one, every fault in either pass, a `stop()` and a close at any point: the promise is kept while it stands, every event comes in the end, `stop()` ends in `dropped` |
| `all_catch_up` | `TypeOK`, `LiveMeansCaughtUp`, `NothingBehindReadPosition`, `ImplementsPromise`, `EveryEventDelivered` | two transactions of two events between single events, pages of one that cut them, a start behind the first event of a transaction, failing reads and drops |
| `chunks` | `PacketsIntact`, `NothingHeldBack`, `CrashOnlyInsidePrefix`, `MessagesReceived` | an event, an empty heartbeat and an authenticated request, framed and cut in every way |
| `transaction` | `TypeOK`, `CommitsCallsInOrder`, `AcknowledgedWritesCommitted`, `RefusedMeansNotCommitted` | three calls in every order and timing, every kind of refusal, timeouts, answers that cannot be parsed, a forgotten callback, a close, another writer and an expected version |
| `metadata` | `TypeOK`, `NoLostUpdate`, `SettingBackKeepsAll`, `ResultsAreVersions`, `ThrowsOnlyOnNoObject` | two programs, three versions, documents with zeros, single roles, lists, no bytes, bytes that are no JSON and JSON that is no object |

Four more runs each show a statement of the repository that the code does not
keep (expected violations):

| Run | Statement | What happens |
|---|---|---|
| `server_end` | the README's callbacks get connection errors | the server closes the connection and the callback is never called |
| `after_dropped` | the tests take `dropped` for the end | a `stop()` during the first pass is followed by more events |
| `start_after_zero` | `startProcessingAfter` | `0` counts as absent |
| `gap` | a test expects the whole stream, in order | a read of the second pass fails, and the live events come without those it should have read |

Further departures found while modelling, each a single step that needs no run:

- A refused or reset connection emits `error` twice over, and the second time
  nobody listens (`tcpPackageConnection.js:31`, the pending test `connect.js:22`): the
  model's crash `SocketError`.
- A subscription request is written without looking at the socket
  (`subscriptionsManager.js:31`), unlike `CHANGELOG.md:11` says: `SubscriptionWrite`.
- `close(cb)` after the server has closed the connection never calls back
  (`tcpPackageConnection.js:34-57`), and `close()` without a callback throws
  (`connectionLogicHandler.js:136`).
- The `error` listener of `createConnection`'s callback (`connection.js:31`) hears nothing:
  no code emits `error` on the connection.
- Whatever credentials are given, `admin` and `changeit` are sent
  (`lengthPrefixMessageFramer.js:40-43`).
- `NotAuthenticated` is `0xF40` (`tcp_commands.js:64`): the byte the server sends has
  no name on arrival.
- The `Status` of a read of all streams is never looked at
  (`catchUpSubscription.js:216`): an error counts as an empty page.
- `eventNumber.invalid` is `NaN`: the minus in front of its digits is U+2212.

### Bounds

The instances hold one or two of everything that can meet: two operations (one of
them with validated arguments, and of different deletion behaviour), one
subscription, one heartbeat, two answers per operation (the answer and a
duplicate), four packages per subscription (confirmation, two events, drop), two
connects and closes where they race, one otherwise. Operations do not touch each
other's entries, so a third would add no new pair. For a catch-up subscription
the cases are: stream empty, within a page, exactly a page, over a page, and
events arriving in each of the phases; two events with pages of one give them
all (`IsDone` and `IsNew` compare neighbours only), and for all streams six events
in four commits give every page that cuts a transaction at every phase. The code's
page is 500. The all-streams run leaves out `stop()` and the close, which take the
shared actions checked by `catch_up`; it has every failure of the server. Three
calls give a transaction each pair of neighbours around its commit. Three versions
let a program set back over another's change of what it read, from none on.
`MaxEvents`, `MaxStops`, `MaxConnects`, `MaxCloses`, `MaxAnswers`, `MaxPushes`,
`MaxCalls`, `MaxOthers` and `MaxVersions` bound what the environment
does; nothing in the client is bounded. Where the system has nothing left to do it
may stop, so `CHECK_DEADLOCK` is `FALSE`.

### Fairness

`FairSpec` assumes that Node runs what is scheduled (`WF` on the immediates), that
the network delivers (`WF` on the socket's events other than failures), and that
the server answers each request once, confirms a subscription and honours an
unsubscription. The program owes nothing: no fairness on its calls. Neither
failures, duplicates nor pushes ever have to happen. Liveness properties name
what they do not cover: operations issued before the connection is there stay in
the waiting list, which the code never drains; operations cut off by `close()`, or by
the server's end of the connection, are not called back; a dead process does nothing.
`CloseAnswered` is about the behaviours in which no socket is found closed by the
server before `close()` is handled (`[](socket = "Closed" => state = "Closed")`): with
a socket that is closed already the code never calls back.

## 4. The proofs

Every safety invariant and every action property a passing run checks is proved,
for all values of the constants, and so are both refinements.

### The connection

`ConnectionLogicHandlerProofs` proves, for every set of requests, every choice of
faults and every bound, from `ConstantsAssumption` alone:

- `TypeCorrect`: `Spec => []TypeOK`. `TypeOK` is inductive. Its core is that a
  message's name determines the kind of its id, which `MessageFacts` and
  `MessageShapes` state once.
- `NoMessageStranded`: `Spec => []EveryMessageHasTick`.
- `UnsubscribeHeard`: `Spec => []UnsubscribeNeverOvertakes`.

The last is not inductive: a message enqueued could land behind an emission that
is already pending for its subscription, and an emission could be scheduled
too early. `LoopInv` adds `EveryMessageHasTick` (a new emission comes behind every
queued message), `EmissionsScheduled` (no emission is later than the ticks there
are) and `SubscriptionsIssued` (no emission is pending for a subscription that was
not handed in). `EnqueueSafe` and `ShiftSafe` show that the two things that
happen to the queue keep them; `LoopSafeStep` goes through the actions.

About the lives of the connection and of its operations, on top of `TypeCorrect`:

- `ClosedIsQuiet`: `Spec => QuietAfterClose`. An action property: it needs
  `ClosedMeansShut`, that the socket of a closed handler is never open, without
  which a pending unsubscription could still be written.
- `ConnectTold`: `Spec => []ConnectedMeansEstablished`. `LinkInv` adds that there is
  no socket before the end point is known, and that the news of a connected
  socket is queued only once the socket has been open: a close between the two
  makes it stale, and it then changes nothing.
- `OperationsAtHome`: `Spec => []OneHomePerOperation`. `QueuedOnce` is added: an
  operation whose message were queued twice would be in two homes as soon as the
  first is shifted. The proof is about one operation `o` at a time; `OtherMessage`,
  `OwnMessage` and `OwnShift` say what happens to it in the queue, `SameHome` deals
  with every step that moves another request.

About the order of answers and pushes:

- `FirstReplyAnswers`: `Spec => []AnswerIsFirstReply`,
- `PushesArriveInOrder`: `Spec => []PushesInOrder`.

What the server sent is a sequence per request, `replied`. `Way` is what is still on
its way to the handler: the queue, and behind it the socket. `Placed` says that the
packages on their way under an id are the rest of that sequence, in its order, as an
order-preserving map from the places of the sequence to those of `Way`. `Channel`
says so of a request as long as it is in the active map or has not been written,
and that nothing is sent before it is written; `Heard` is how much of the sequence
has been handled, all that a subscription was told, and nothing for an operation
that is still active. `ChannelInv` adds that requests are active on a connected
handler only, so that none of their packages is dropped before the close. The
lemmas about `Moves` deal with what can happen to `Way`: the socket's front goes to
the end of the queue, something is put in front or behind, something is taken. The
step uses `HomeInv`: an operation whose message came up a second time would be
written again, behind an answer that is for the first.

### Receiving and framing

`MessageReceiverProofs` proves, for every sequence of packets and every way to cut
it, from `BoundaryAssumption` (packets follow each other and each holds at least
its 22-byte header):

- `PacketsReassembled`: `Spec => []PacketsIntact`,
- `PacketsPrompt`: `Spec => []NothingHeldBack`,
- `OnlyPrefixesThrow`: `Spec => []CrashOnlyInsidePrefix`.

The inductive invariant adds `Kept`: the bytes behind the packets emitted are
exactly those kept, in `data` or in `incomplete`. `PrefixRead` shows that the
prefix at their front is then that of the next packet.

`FramedStreamProofs` puts the bytes in, for every sequence of messages whose frames
fit into a buffer and every way to cut them:

- `FrameRoundTrip`: a frame unframes to the message it was made of, and its prefix
  is the length of the rest. `RestLayout` says what is at which offset,
  `LengthRoundTrip` that four bytes hold the length, `NameOfCommand` that no two
  commands share a code.
- `MessagesArrive`: `Spec => []MessagesReceived`, from `PacketsReassembled` and the
  round trip. `SentPacket` also shows that `ContentLengths`, which stands for the
  prefix in `MessageReceiver`, is what `getContentLength` reads from the bytes.

### Catch-up subscriptions

`CatchUpSubscriptionProofs` holds lemmas only: what each shared action keeps, for
any set of messages that contains the shared ones (`Vocabulary`). The two other
modules add the extension's actions and prove the theorems, for every start, page
size, log and choice of faults, from `ConstantsAssumption` (and `PosAssumption`):

- `TypeCorrect`: `Spec => []TypeOK`.
- `LiveQueueIsDrained`: `Spec => []LiveQueueDrained`.
- `OnlyEarlyClosesThrow`: `Spec => []OnlyEarlyCloseThrows`.
- `CaughtUp`: `Spec => []LiveMeansCaughtUp`.
- `DroppedAfterLast` (stream): `Spec => LastProcessedAtDrop`.
- `NothingBehind` (all streams): `Spec => []NothingBehindReadPosition`.
- `DeliversAsPromised`: `Spec => ImplementsPromise`, the refinement of
  `OrderedDelivery`, each step being a step of it or a stutter.

The inductive invariant has these parts:

- `Protocol`: of all reads, subscription requests and answers to them there is one
  at most, wherever it is (`OneControl`), it belongs to the pass under way
  (`InPhase`), and the flags (`Flags`) and what a close finds (`Closing`) go with it.
  This gives `LiveQueueDrained` and `OnlyEarlyCloseThrows`.
- `Processed`: `_lastProcessed...` is the number, or position, of the last event
  handed on.
- `Reads`: a read, and the page that answers it, starts where what has been handed
  on, or waits in an immediate, ends. For all streams `Behind` says the same of
  `_nextReadPosition`: each event before it is delivered or due whatever happens
  (`Assured`).
- `Gapless`: as long as no read of the second pass failed, the events in the
  immediates, in the live queue and on their way continue each other: no event
  comes up before those owed before it have. Overlaps are allowed, since the filter
  drops what has been processed; that is why it is about numbers reached
  (`ReachedIn`), and not about the sequence of events.
- `Log` (all streams): transactions are written whole, and the second pass ends with
  one.

`AllCatchUpSubscriptionProofs` also has `TotalOrder`, that `compare` is a total order,
and `CommitBound`, that the position with the commit position in both parts is past
all of that commit's events and no later one's. Positions are exact integers there;
`parseInt` loses precision above 2^53.

### Transactions

`TransactionProofs` proves, for every number of calls and events and every choice of
faults, from `ConstantsAssumption`:

- `TypeCorrect`: `Spec => []TypeOK`,
- `CommitInOrder`: `Spec => []CommitsCallsInOrder`: what is in the stream of the
  transaction are the events of the writes called before the commit that was done,
  standing together, in the order of the calls,
- `SuccessMeansCommitted`: `Spec => []AcknowledgedWritesCommitted`,
- `RefusedNotCommitted`: `Spec => []RefusedMeansNotCommitted`: an error made of the
  server's word, or of a closed connection, is that of a commit that was not done. It
  does not hold of every error: when the answer to a done commit does not parse, the
  callback gets the parser's exception (`CommitterTold` lists what the commit that was
  done may be told).

The core of the inductive invariant is that what is on its way is in the order of the
calls, answers before requests (`InOrder`): the server has prepared only writes
called before anything it has still to serve (`PreparedInOrder`), and a program that
hears a result has heard those of all earlier calls (`HeardInOrder`). `CommitTold`
and `WriteTold` tie what is told to what was done, `StartFirst`, `UnderwayPending`
and `PendingUnderway` say that each callback is called once and which are still to
be, and `InStream` what the stream holds. The events a commit puts there are
flattened from those of its writes, by a recursion over a sequence: `Induction` states
induction over the numbers for sets, from the well-foundedness of `<`, and
`FlattenSeqProperties` follows from it.

### Metadata

`StreamMetadataProofs` proves, for every set of programs, documents and roles, from
`ConstantsAssumption`: `TypeCorrect`, `NoUpdateLost` (`Spec => []NoLostUpdate`),
`SetBackIsKept` (`SettingBackKeepsAll`), `ResultsOfVersions` (`ResultsAreVersions`) and
`OnlyNoObjectThrows` (`ThrowsOnlyOnNoObject`). The inductive invariant says that each result,
wherever it is, is `FromBytes` of one version of the metastream (`OfOneVersion`), that
each pending write carries the version its metadata were read at
(`CallOfVersion`), and that a version made from metadata set back was made from those
of the version before it (`MadeFromBefore`). `SetBackIsKept` rests on lemmas about the
conversion: what `ToJSON` and `FromBytes` do to each key.

### Only model-checked

Liveness: `OperationAnswered`, `CloseAnswered`, `HeartbeatAnswered`, `UnsubscribeServed`,
`EveryEventDelivered` and `StopDrops`, since neither fairness nor ENABLED is within the
provers' reach. The counterexamples of section 3 are TLC's too.

## 5. Not modelled

Payloads and their conversion (`messageParser.js`, `eventPayloads.js`): stateless,
and what matters of them, whether an answer parses and what its result is, is
the server's choice. The strings protocol buffers give for 64-bit positions: a
position here has the numbers `compare` parses from them. A read of all streams
that the server answers with an error, since the position it then gives is not
known from the repository. In the catch-up modules, packages the subscription
cannot read, which end the process as `ConnectionLogicHandler` has it. The callback
of `createConnection`, a listener of `connect`. The HTTP feed reader prints a feed
and exports nothing the API uses; `tcpPayloadParser.js` is dead code. Event data and
the remaining constants have no behaviour to check. A program whose callback throws
ends the process by its own doing, which the models leave out.

## 6. Plan

Done: `ConnectionLogicHandler`, both catch-up subscriptions implementing
`OrderedDelivery` with a close of the connection under them, `Transaction`,
`StreamMetadata`, framing and receiving composed; all their safety properties
proved.

What is left:

1. `LastProcessedAtDrop` for all streams, where it is a position: `Processed` says
   what is needed.
2. A queue of operations as an abstract specification: `Transaction` and
   `StreamMetadata` take the connection for one that calls each operation back once at
   most, and `ConnectionLogicHandler` could be shown to implement it, step by step.
