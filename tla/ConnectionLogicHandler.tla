----------------------- MODULE ConnectionLogicHandler -----------------------
(***************************************************************************)
(* The TCP client behind createConnection(): the message queue and state   *)
(* machine of connectionLogicHandler.js, the two managers it routes        *)
(* packages to, the operation and subscription items they keep, and the    *)
(* socket of tcpPackageConnection.js.  The program that calls the API, the *)
(* socket's events and the server are the environment.                     *)
(*                                                                         *)
(* Node runs one callback at a time and runs setImmediate callbacks in the *)
(* order they were scheduled.  Two kinds of immediates matter here: those  *)
(* that run _processNextMessage, all alike and counted by `ticks', and the *)
(* one that emits 'unsubscribe requested' for a subscription s, for which  *)
(* unsub[s] is the number of ticks still ahead of it.                      *)
(*                                                                         *)
(* A correlation id is the request it was drawn for: uuids do not collide. *)
(***************************************************************************)
EXTENDS Integers, Sequences, FiniteSets

CONSTANTS
    Ops,          \* operations the program may issue, each once
    Subs,         \* volatile subscriptions the program may start, each once
    Beats,        \* heartbeat requests the server may send
    NoId,         \* the id of a message about no request
    Kind,         \* Kind[o]: the name of operation o
    Replies,      \* the answers to an operation the server chooses from
    Faults,       \* what may go wrong outside the client; "noCallback": the
                  \* program may call close() without one
    AwaitConnect, \* TRUE: the program issues requests from 'connect' on only
    MaxConnects,  \* bound: calls of connect()
    MaxCloses,    \* bound: calls of close()
    MaxAnswers,   \* bound: packages the server sends for one operation
    MaxPushes     \* bound: packages the server sends for one subscription

RequestIds == Ops \cup Subs
Ids        == RequestIds \cup Beats

\* The request each operation is sent as.
RequestType ==
    [ AppendToStream           |-> "WriteEvents",
      StartTransaction         |-> "TransactionStart",
      TransactionalWrite       |-> "TransactionWrite",
      CommitTransaction        |-> "TransactionCommit",
      DeleteStream             |-> "DeleteStream",
      ReadEvent                |-> "ReadEvent",
      ReadAllEventsForward     |-> "ReadAllEventsForward",
      ReadAllEventsBackward    |-> "ReadAllEventsBackward",
      ReadStreamEventsForward  |-> "ReadStreamEventsForward",
      ReadStreamEventsBackward |-> "ReadStreamEventsBackward" ]

\* The operations whose arguments the API looks at before enqueueing them.
ValidatedOperations ==
    {"ReadEvent", "ReadStreamEventsForward", "ReadStreamEventsBackward"}

\* An answer to an operation: a BadRequest package, a payload that cannot be
\* parsed as the operation's response, or the `result' field of one that can.
ReplyTypes == {"BadRequest", "Unparsable", "Success", "PrepareTimeout",
               "AccessDenied", "StreamDeleted", "WrongExpectedVersion"}

\* Mutation: a package is emitted under its own name.
EmitsPackageNames ==
    [t \in {"SubscriptionConfirmation", "StreamEventAppeared", "SubscriptionDropped"} |-> t]

\* What a subscription's responseHandlers emit for a package.
Emits == [ SubscriptionConfirmation |-> "confirmed",
           StreamEventAppeared      |-> "event",
           SubscriptionDropped      |-> "dropped" ]

\* Packages under a subscription's id: NotHandled has no response handler, the
\* payload of Unparsable is not the one its handler expects.
PushTypes == DOMAIN Emits \cup {"NotHandled", "Unparsable"}

\* What a package announces: what SubscriptionOperation.finish cannot read is an error.
Announced(type) == IF type \in DOMAIN Emits THEN Emits[type] ELSE "error"

ErrorIfDeleted == {"WriteEvents", "DeleteStream", "TransactionCommit"}

\* Whether OperationItem.finish calls back with an error or with a result.
Outcome(kind, reply) ==
    IF \/ reply \in {"BadRequest", "Unparsable", "AccessDenied", "WrongExpectedVersion"}
       \/ reply = "StreamDeleted" /\ RequestType[kind] \in ErrorIfDeleted
    THEN "error" ELSE "result"

ASSUME ConstantsAssumption ==
    /\ Ops \cap Subs = {} /\ Ops \cap Beats = {} /\ Subs \cap Beats = {}
    /\ NoId \notin Ids
    /\ Kind \in [Ops -> DOMAIN RequestType]
    /\ Replies \subseteq ReplyTypes
    /\ Faults \subseteq {"refuse", "reset", "fin", "nothandled", "unparsable", "noCallback"}
    /\ AwaitConnect \in BOOLEAN
    /\ {MaxConnects, MaxCloses, MaxAnswers, MaxPushes} \subseteq Nat

VARIABLES
    \* EsConnectionLogicHandler
    state,          \* _state
    phase,          \* _connectingPhase
    queue,          \* _queuedMessages
    ticks,          \* pending immediates that run _processNextMessage
    unsub,          \* per subscription, ticks ahead of its emission, or Idle
    \* OperationsManager and SubscriptionsManager
    active,         \* keys of _activeOperations and _activeSubscriptions
    waiting,        \* _waitingOperations and _waitingSubscriptions
    \* TcpPackageConnection
    socket,         \* the socket's life
    closeCallbacks, \* _closeCallbacks not run yet: whether there is a cb to call
    inbound,        \* packages on their way from the server
    written,        \* ids under which a package has been written
    unsubscribed,   \* ids for which UnsubscribeFromStream has been written
    replied,        \* per id, what the server has sent
    \* the program
    issued,         \* requests handed to the API
    rejected,       \* operations with an argument error about to be reported
    stopped,        \* subscriptions unsubscribe() was called on
    callbacks,      \* per request, what the program has been told
    connectCalls, connectEvents,
    closeCalls,     \* calls of close(), with a callback and without
    closeAnswers,   \* callbacks of close() that have been called
    crash           \* why the process died of an uncaught exception

loop     == <<queue, ticks, unsub>>
machine  == <<state, phase>>
managers == <<active, waiting>>
wire     == <<socket, closeCallbacks, inbound, written, unsubscribed, replied>>
calls    == <<issued, rejected, stopped, connectCalls, closeCalls>>
told     == <<callbacks, connectEvents, closeAnswers>>
vars     == <<loop, machine, managers, wire, calls, told, crash>>

Idle == -1

Message(name, id, type) == [name |-> name, id |-> id, type |-> type]

PackageTypes == ReplyTypes \cup PushTypes \cup {"HeartbeatRequestCommand"}

Packages == [id : Ids, type : PackageTypes]

ControlNames == {"StartConnection", "EstablishTcpConnection", "TcpConnectionEstablished"}

\* What close() may be given.
CloseTypes == {"callback", "noCallback"}

Messages == [name : ControlNames, id : {NoId}, type : {"none"}]
       \cup [name : {"CloseConnection"}, id : {NoId}, type : CloseTypes]
       \cup [name : {"StartOperation"}, id : Ops, type : {"none"}]
       \cup [name : {"StartSubscription"}, id : Subs, type : {"none"}]
       \cup [name : {"HandleTcpPackage"}, id : Ids, type : PackageTypes]

Fin == [id |-> NoId, type |-> "FIN"]

\* What a request's callback or listeners can be told.
Notices == {"error", "result", "confirmed", "event", "dropped",
            "closed", "notActive", "badArgument"}

LoopTypeOK ==
    /\ queue \in Seq(Messages)
    /\ ticks \in Nat
    /\ unsub \in [Subs -> Nat \cup {Idle}]

HandlerTypeOK ==
    /\ state \in {"Init", "Connecting", "Connected", "Closed"}
    /\ phase \in {"Invalid", "EndPointDiscovery", "ConnectionEstablishing", "Connected"}
    /\ active \subseteq RequestIds
    /\ waiting \subseteq RequestIds

WireTypeOK ==
    /\ socket \in {"None", "Opening", "Open", "Closing", "Closed"}
    /\ closeCallbacks \in Seq(BOOLEAN)
    /\ inbound \in Seq(Packages \cup {Fin})
    /\ written \subseteq Ids
    /\ unsubscribed \subseteq Subs
    /\ replied \in [Ids -> Seq(PackageTypes)]

ProgramTypeOK ==
    /\ issued \subseteq RequestIds
    /\ rejected \subseteq Ops
    /\ stopped \subseteq Subs
    /\ callbacks \in [RequestIds -> Seq(Notices)]
    /\ connectCalls \in Nat /\ connectEvents \in Nat
    /\ closeCalls \in [CloseTypes -> Nat] /\ closeAnswers \in Nat
    /\ crash \in {"none", "NoCallback", "SocketError", "Write",
                  "SubscriptionWrite", "UnreadablePackage", "NoCloseCallback"}

\* Every variable keeps the kind of value the code gives it; in particular every
\* queued message is one of the shapes its handler expects.
TypeOK == LoopTypeOK /\ HandlerTypeOK /\ WireTypeOK /\ ProgramTypeOK

Init ==
    /\ state = "Init" /\ phase = "Invalid"
    /\ queue = <<>> /\ ticks = 0
    /\ unsub = [s \in Subs |-> Idle]
    /\ active = {} /\ waiting = {}
    /\ socket = "None" /\ closeCallbacks = <<>> /\ inbound = <<>>
    /\ written = {} /\ unsubscribed = {}
    /\ replied = [i \in Ids |-> <<>>]
    /\ issued = {} /\ rejected = {} /\ stopped = {}
    /\ callbacks = [r \in RequestIds |-> <<>>]
    /\ connectCalls = 0 /\ connectEvents = 0
    /\ closeCalls = [t \in CloseTypes |-> 0] /\ closeAnswers = 0
    /\ crash = "none"

-----------------------------------------------------------------------------
(* The event loop *)

Running == crash = "none"

\* socket.writable: cleared by the remote end's FIN and by destroy().
Writable == socket = "Open"

\* Mutations of enqueueMessage: schedule only when the queue was empty; unshift.
EnqueueLazily(message) ==
    /\ queue' = Append(queue, message)
    /\ ticks' = IF queue = <<>> THEN ticks + 1 ELSE ticks
    /\ UNCHANGED unsub

EnqueueInFront(message) ==
    /\ queue' = <<message>> \o queue
    /\ ticks' = ticks + 1
    /\ UNCHANGED unsub

\* enqueueMessage outside a handler: push, then setImmediate.
Enqueue(message) ==
    /\ queue' = Append(queue, message)
    /\ ticks' = ticks + 1
    /\ UNCHANGED unsub

\* _processNextMessage is the next immediate and finds a message of this name.
Dispatch(name) ==
    /\ Running
    /\ ticks > 0
    /\ \A s \in Subs : unsub[s] # 0
    /\ queue # <<>>
    /\ Head(queue).name = name

\* The emissions that were behind the tick that has just run.
OneTickLess == [s \in Subs |-> IF unsub[s] > 0 THEN unsub[s] - 1 ELSE unsub[s]]

\* The handler returned, having enqueued `more': its message is shifted, and
\* _processNextMessage schedules itself again.
Returns(more) ==
    /\ queue' = Tail(queue) \o more
    /\ ticks' = ticks + Len(more)
    /\ unsub' = OneTickLess
    /\ UNCHANGED crash

\* The handler threw: nothing is rescheduled, and nothing catches it.
Throws(why) ==
    /\ queue' = Tail(queue)
    /\ ticks' = ticks - 1
    /\ unsub' = OneTickLess
    /\ crash' = why

Tell(id, what) == callbacks' = [callbacks EXCEPT ![id] = Append(@, what)]

\* _processNextMessage with nothing queued.
IdleTick ==
    /\ Running
    /\ ticks > 0
    /\ \A s \in Subs : unsub[s] # 0
    /\ queue = <<>>
    /\ ticks' = ticks - 1
    /\ unsub' = OneTickLess
    /\ UNCHANGED <<queue, machine, managers, wire, calls, told, crash>>

-----------------------------------------------------------------------------
(* The program: connection.js and subscription.js.  A call it makes in a       *)
(* callback or listener, while a tick is running, schedules its immediates     *)
(* before that tick schedules the next one: the state it leads to is that of   *)
(* the same call made just before the tick.                                    *)

Connect ==
    /\ Running
    /\ connectCalls < MaxConnects
    /\ connectCalls' = connectCalls + 1
    /\ Enqueue(Message("StartConnection", NoId, "none"))
    /\ UNCHANGED <<machine, managers, wire, issued, rejected, stopped, closeCalls, told, crash>>

\* close(cb) or close().
Close(type) ==
    /\ Running
    /\ type = "noCallback" => "noCallback" \in Faults
    /\ closeCalls["callback"] + closeCalls["noCallback"] < MaxCloses
    /\ closeCalls' = [closeCalls EXCEPT ![type] = @ + 1]
    /\ Enqueue(Message("CloseConnection", NoId, type))
    /\ UNCHANGED <<machine, managers, wire, issued, rejected, stopped, connectCalls, told, crash>>

MayIssue(r) ==
    /\ Running
    /\ r \notin issued
    /\ AwaitConnect => connectEvents > 0

IssueOperation(o) ==
    /\ MayIssue(o)
    /\ issued' = issued \cup {o}
    /\ Enqueue(Message("StartOperation", o, "none"))
    /\ UNCHANGED <<machine, managers, wire, rejected, stopped, connectCalls, closeCalls, told, crash>>

\* An argument out of range: the error is reported by an immediate of its own.
IssueInvalid(o) ==
    /\ MayIssue(o)
    /\ Kind[o] \in ValidatedOperations
    /\ issued' = issued \cup {o}
    /\ rejected' = rejected \cup {o}
    /\ UNCHANGED <<loop, machine, managers, wire, stopped, connectCalls, closeCalls, told, crash>>

ReportBadArgument(o) ==
    /\ Running
    /\ o \in rejected
    /\ rejected' = rejected \ {o}
    /\ Tell(o, "badArgument")
    /\ UNCHANGED <<loop, machine, managers, wire, issued, stopped, connectCalls, closeCalls,
                   connectEvents, closeAnswers, crash>>

Subscribe(s) ==
    /\ MayIssue(s)
    /\ issued' = issued \cup {s}
    /\ Enqueue(Message("StartSubscription", s, "none"))
    /\ UNCHANGED <<machine, managers, wire, rejected, stopped, connectCalls, closeCalls, told, crash>>

\* Mutation: unsubscribe() emits through process.nextTick.
AheadOfTicks == 0

\* unsubscribe(): setImmediate puts the emission behind every pending tick.
BehindTicks == ticks

Unsubscribe(s) ==
    /\ Running
    /\ s \in issued \ stopped
    /\ stopped' = stopped \cup {s}
    /\ unsub' = [unsub EXCEPT ![s] = BehindTicks]
    /\ UNCHANGED <<queue, ticks, machine, managers, wire, issued, rejected, connectCalls,
                   closeCalls, told, crash>>

\* Mutation: the request is written whatever the socket's state.
ListenerAlwaysWrites(s) == s \in active

\* The listener a SubscriptionOperation installs, if there is one by now, writes
\* unless the socket is no longer writable.
ListenerWrites(s) == s \in active /\ Writable

\* 'unsubscribe requested' is emitted.
EmitUnsubscribe(s) ==
    /\ Running
    /\ unsub[s] = 0
    /\ unsub' = [unsub EXCEPT ![s] = Idle]
    /\ unsubscribed' = IF ListenerWrites(s) THEN unsubscribed \cup {s} ELSE unsubscribed
    /\ UNCHANGED <<queue, ticks, machine, managers, socket, closeCallbacks, inbound, written,
                   replied, calls, told, crash>>

-----------------------------------------------------------------------------
(* The handlers of connectionLogicHandler.js, one action per message *)

\* Mutation: connect() starts over in every state but Closed.
StartsAgain == state # "Closed"

Starts == state = "Init"

\* Init: discovers the end point at once and enqueues EstablishTcpConnection.
StartConnection ==
    /\ Dispatch("StartConnection")
    /\ \/ /\ Starts
          /\ state' = "Connecting"
          /\ phase' = "EndPointDiscovery"
          /\ Returns(<<Message("EstablishTcpConnection", NoId, "none")>>)
       \/ /\ ~Starts
          /\ Returns(<<>>)
          /\ UNCHANGED machine
    /\ UNCHANGED <<managers, wire, calls, told>>

EstablishTcpConnection ==
    /\ Dispatch("EstablishTcpConnection")
    /\ \/ /\ state = "Connecting" /\ phase = "EndPointDiscovery"
          /\ phase' = "ConnectionEstablishing"
          /\ socket' = "Opening"
       \/ /\ ~(state = "Connecting" /\ phase = "EndPointDiscovery")
          /\ UNCHANGED <<phase, socket>>
    /\ Returns(<<>>)
    /\ UNCHANGED <<state, managers, closeCallbacks, inbound, written, unsubscribed, replied,
                   calls, told>>

\* Connecting: goToConnectedState emits 'connect'.
TcpConnectionEstablished ==
    /\ Dispatch("TcpConnectionEstablished")
    /\ \/ /\ state = "Connecting"
          /\ state' = "Connected"
          /\ phase' = "Connected"
          /\ connectEvents' = connectEvents + 1
       \/ /\ state # "Connecting"
          /\ UNCHANGED <<machine, connectEvents>>
    /\ Returns(<<>>)
    /\ UNCHANGED <<managers, wire, calls, callbacks, closeAnswers>>

\* scheduleOperation and scheduleSubscription: the request is entered in the
\* active map, then written; a write on a socket that is not writable emits
\* 'error', which nobody listens to.
Schedule(id, why) ==
    /\ active' = active \cup {id}
    /\ \/ /\ Writable
          /\ written' = written \cup {id}
          /\ Returns(<<>>)
       \/ /\ ~Writable
          /\ Throws(why)
          /\ UNCHANGED written

\* Mutation: a closed connection ignores operations.
IgnoreClosed(o) == callbacks' = [callbacks EXCEPT ![o] = @]

RaiseClosed(o)    == Tell(o, "closed")
RaiseNotActive(o) == Tell(o, "notActive")

StartOperation ==
    /\ Dispatch("StartOperation")
    /\ LET o == Head(queue).id IN
       \/ /\ state = "Init"
          /\ RaiseNotActive(o)
          /\ Returns(<<>>)
          /\ UNCHANGED <<managers, written>>
       \/ /\ state = "Connecting"
          /\ waiting' = waiting \cup {o}
          /\ Returns(<<>>)
          /\ UNCHANGED <<active, written, callbacks>>
       \/ /\ state = "Connected"
          /\ Schedule(o, "Write")
          /\ UNCHANGED <<waiting, callbacks>>
       \/ /\ state = "Closed"
          /\ RaiseClosed(o)
          /\ Returns(<<>>)
          /\ UNCHANGED <<managers, written>>
    /\ UNCHANGED <<machine, socket, closeCallbacks, inbound, unsubscribed, replied, calls,
                   connectEvents, closeAnswers>>

\* raiseNotActive and raiseClosed call the message's cb: a subscription has none.
StartSubscription ==
    /\ Dispatch("StartSubscription")
    /\ LET s == Head(queue).id IN
       \/ /\ state \in {"Init", "Closed"}
          /\ Throws("NoCallback")
          /\ UNCHANGED <<managers, written>>
       \/ /\ state = "Connecting"
          /\ waiting' = waiting \cup {s}
          /\ Returns(<<>>)
          /\ UNCHANGED <<active, written>>
       \/ /\ state = "Connected"
          /\ Schedule(s, "SubscriptionWrite")
          /\ UNCHANGED waiting
    /\ UNCHANGED <<machine, socket, closeCallbacks, inbound, unsubscribed, replied, calls, told>>

\* Mutation: a second close() waits for the socket again.
AnswersUnconnected == socket = "None"

\* noOp calls back, and so does _closeTcpConnection when nothing was connected.
AnswersAtOnce == state = "Closed" \/ socket = "None"

\* Only noOp looks whether there is a callback.
MissesCallback == Head(queue).type = "noCallback" /\ state # "Closed"

\* performCloseConnection: destroy() leads to one 'close' event, which runs the
\* callbacks, unless the socket has had it already.
CloseConnection ==
    /\ Dispatch("CloseConnection")
    /\ state' = "Closed"
    /\ \/ /\ AnswersAtOnce /\ ~MissesCallback
          /\ closeAnswers' = IF Head(queue).type = "callback" THEN closeAnswers + 1
                             ELSE closeAnswers
          /\ Returns(<<>>)
          /\ UNCHANGED <<socket, closeCallbacks, inbound>>
       \/ /\ AnswersAtOnce /\ MissesCallback
          /\ Throws("NoCloseCallback")
          /\ UNCHANGED <<socket, closeCallbacks, inbound, closeAnswers>>
       \/ /\ ~AnswersAtOnce
          /\ closeCallbacks' = Append(closeCallbacks, Head(queue).type = "callback")
          /\ socket' = IF socket = "Closed" THEN socket ELSE "Closing"
          /\ inbound' = <<>>
          /\ Returns(<<>>)
          /\ UNCHANGED closeAnswers
    /\ UNCHANGED <<phase, managers, written, unsubscribed, replied, calls, callbacks, connectEvents>>

\* Mutations: a closed handler keeps handling packages; a connected one does not.
HandlesOnceStarted == state # "Init"
HandlesConnecting  == state = "Connecting"

HandlesPackages == state \in {"Connecting", "Connected"}

AnswerHeartbeat ==
    /\ Dispatch("HandleTcpPackage")
    /\ HandlesPackages
    /\ Head(queue).type = "HeartbeatRequestCommand"
    /\ \/ /\ Writable
          /\ written' = written \cup {Head(queue).id}
          /\ Returns(<<>>)
       \/ /\ ~Writable
          /\ Throws("Write")
          /\ UNCHANGED written
    /\ UNCHANGED <<machine, managers, socket, closeCallbacks, inbound, unsubscribed, replied,
                   calls, told>>

\* Mutation: the operation stays in the map.
KeepActive(o) == active' = active \cup {o}

CompleteActive(o) == active' = active \ {o}

\* OperationItem.finish: out of the active map first, then one callback.
FinishOperation ==
    /\ Dispatch("HandleTcpPackage")
    /\ HandlesPackages
    /\ LET o == Head(queue).id IN
       /\ o \in active \cap Ops
       /\ CompleteActive(o)
       /\ Tell(o, Outcome(Kind[o], Head(queue).type))
    /\ Returns(<<>>)
    /\ UNCHANGED <<machine, waiting, wire, calls, connectEvents, closeAnswers>>

\* SubscriptionOperation.finish: a package it has no responseHandler for, and one
\* that does not parse, is emitted as an error - which throws when nobody listens -
\* and then a property of undefined is read.
FinishSubscription ==
    /\ Dispatch("HandleTcpPackage")
    /\ HandlesPackages
    /\ LET s == Head(queue).id
           t == Head(queue).type IN
       /\ s \in active \cap Subs
       /\ \/ /\ t \in DOMAIN Emits
             /\ Tell(s, Announced(t))
             /\ Returns(<<>>)
          \/ /\ t \notin DOMAIN Emits
             /\ Tell(s, Announced(t)) \/ UNCHANGED callbacks
             /\ Throws("UnreadablePackage")
    /\ UNCHANGED <<machine, managers, wire, calls, connectEvents, closeAnswers>>

\* No active item has the correlation id, or the state ignores packages.
IgnorePackage ==
    /\ Dispatch("HandleTcpPackage")
    /\ \/ ~HandlesPackages
       \/ /\ Head(queue).type # "HeartbeatRequestCommand"
          /\ Head(queue).id \notin active
    /\ Returns(<<>>)
    /\ UNCHANGED <<machine, managers, wire, calls, told>>

Handler == \/ StartConnection \/ EstablishTcpConnection \/ TcpConnectionEstablished
           \/ StartOperation \/ StartSubscription \/ CloseConnection
           \/ AnswerHeartbeat \/ FinishOperation \/ FinishSubscription \/ IgnorePackage

-----------------------------------------------------------------------------
(* The socket's events: tcpPackageConnection.js *)

SocketConnect ==
    /\ Running
    /\ socket = "Opening"
    /\ socket' = "Open"
    /\ Enqueue(Message("TcpConnectionEstablished", NoId, "none"))
    /\ UNCHANGED <<machine, managers, closeCallbacks, inbound, written, unsubscribed, replied,
                   calls, told, crash>>

\* Refused or reset: 'error' is emitted again without a listener.
SocketError ==
    /\ Running
    /\ \/ socket = "Opening" /\ "refuse" \in Faults
       \/ socket = "Open" /\ "reset" \in Faults
    /\ crash' = "SocketError"
    /\ UNCHANGED <<loop, machine, managers, wire, calls, told>>

SocketData ==
    /\ Running
    /\ socket = "Open"
    /\ inbound # <<>> /\ Head(inbound) # Fin
    /\ inbound' = Tail(inbound)
    /\ Enqueue(Message("HandleTcpPackage", Head(inbound).id, Head(inbound).type))
    /\ UNCHANGED <<machine, managers, socket, closeCallbacks, written, unsubscribed, replied,
                   calls, told, crash>>

\* The remote end's FIN: nobody listens, and node closes the socket by itself.
SocketEnd ==
    /\ Running
    /\ socket = "Open"
    /\ inbound # <<>> /\ Head(inbound) = Fin
    /\ inbound' = Tail(inbound)
    /\ socket' = "Closing"
    /\ UNCHANGED <<loop, machine, managers, closeCallbacks, written, unsubscribed, replied,
                   calls, told, crash>>

\* The callbacks are called in turn; the first that is missing ends the process.
SocketClose ==
    /\ Running
    /\ socket = "Closing"
    /\ socket' = "Closed"
    /\ closeCallbacks' = <<>>
    /\ \E n \in 0..Len(closeCallbacks) :
          /\ \A i \in 1..n : closeCallbacks[i]
          /\ closeAnswers' = closeAnswers + n
          /\ \/ n = Len(closeCallbacks) /\ UNCHANGED crash
             \/ /\ n < Len(closeCallbacks) /\ ~closeCallbacks[n + 1]
                /\ crash' = "NoCloseCallback"
    /\ UNCHANGED <<loop, machine, managers, inbound, written, unsubscribed, replied,
                   calls, callbacks, connectEvents>>

SocketEvent == SocketConnect \/ SocketError \/ SocketData \/ SocketEnd \/ SocketClose

-----------------------------------------------------------------------------
(* The server *)

\* The server sends packages in order, and none behind its FIN.
Send(package) ==
    /\ Running
    /\ socket = "Open"
    /\ \A i \in DOMAIN inbound : inbound[i] # Fin
    /\ inbound' = Append(inbound, package)
    /\ UNCHANGED <<loop, machine, managers, socket, closeCallbacks, written, unsubscribed,
                   calls, told, crash>>

SendUnder(id, type, bound) ==
    /\ Len(replied[id]) < bound
    /\ replied' = [replied EXCEPT ![id] = Append(@, type)]
    /\ Send([id |-> id, type |-> type])

\* An answer; a second one under the same id is a late duplicate.
Reply(o) ==
    /\ o \in written
    /\ \E r \in Replies : SendUnder(o, r, MaxAnswers)

Beat(b) == SendUnder(b, "HeartbeatRequestCommand", 1)

Sent(s, type) == \E i \in DOMAIN replied[s] : replied[s][i] = type

\* The server confirms first, pushes events, and drops last; any of these may be one
\* the client cannot parse, and nothing behind that one would be handled.
Push(s, type) ==
    /\ s \in written
    /\ \A last \in {"SubscriptionDropped", "NotHandled", "Unparsable"} : ~Sent(s, last)
    /\ CASE type \in {"SubscriptionConfirmation", "NotHandled"} -> replied[s] = <<>>
         [] type = "StreamEventAppeared" -> replied[s] # <<>> /\ Len(replied[s]) + 1 < MaxPushes
         [] type \in {"SubscriptionDropped", "Unparsable"} -> TRUE
    /\ type = "NotHandled" => "nothandled" \in Faults
    /\ type = "Unparsable" => "unparsable" \in Faults
    /\ SendUnder(s, type, MaxPushes)

ServerEnd ==
    /\ "fin" \in Faults
    /\ Send(Fin)
    /\ UNCHANGED replied

Server == \/ \E o \in Ops : Reply(o)
          \/ \E b \in Beats : Beat(b)
          \/ \E s \in Subs, t \in PushTypes : Push(s, t)
          \/ ServerEnd

-----------------------------------------------------------------------------
(* The system *)

Immediate == \/ Handler \/ IdleTick
             \/ \E s \in Subs : EmitUnsubscribe(s)

Program == \/ Connect
           \/ \E t \in CloseTypes : Close(t)
           \/ \E o \in Ops : IssueOperation(o) \/ IssueInvalid(o)
           \/ \E s \in Subs : Subscribe(s) \/ Unsubscribe(s)

Next == \/ Immediate
        \/ \E o \in Ops : ReportBadArgument(o)
        \/ SocketEvent \/ Server \/ Program

\* The event loop runs what is scheduled, the network delivers, the server
\* answers a request once and honours an unsubscription; the program owes
\* nothing, and neither faults nor events need ever come.
Fairness ==
    /\ WF_vars(Immediate)
    /\ \A o \in Ops : WF_vars(ReportBadArgument(o))
    /\ WF_vars(SocketConnect) /\ WF_vars(SocketData)
    /\ WF_vars(SocketEnd) /\ WF_vars(SocketClose)
    /\ \A o \in Ops : WF_vars(replied[o] = <<>> /\ Reply(o))
    /\ \A s \in Subs : /\ WF_vars(Push(s, "SubscriptionConfirmation"))
                       /\ WF_vars(s \in unsubscribed /\ Push(s, "SubscriptionDropped"))

Spec     == Init /\ [][Next]_vars
FairSpec == Spec /\ Fairness
-----------------------------------------------------------------------------
(* Safety *)

\* Every queued message has an immediate that will shift it, even after a handler
\* threw and _processNextMessage did not schedule itself again: enqueueMessage and
\* _processNextMessage between them never strand a message.
EveryMessageHasTick == Len(queue) <= ticks

\* An 'unsubscribe requested' emission never overtakes the StartSubscription
\* message it follows: the listener that turns it into a request is installed by
\* then, however soon after subscribing the program calls unsubscribe().
UnsubscribeNeverOvertakes ==
    \A s \in Subs, i \in DOMAIN queue :
        /\ queue[i].name = "StartSubscription" /\ queue[i].id = s
        /\ unsub[s] # Idle
        => i <= unsub[s]

Queued(o)   == \E i \in DOMAIN queue : queue[i].name = "StartOperation" /\ queue[i].id = o
Answered(o) == callbacks[o] # <<>>

\* Each operation handed to the API is in one place only: about to be rejected,
\* queued, waiting for a connection, active, or answered - and nothing else is
\* in any of them.  No operation is lost on the way, and none is called back
\* while it could still be called back again.
OneHomePerOperation ==
    \A o \in Ops :
        /\ o \in issued <=>
              (o \in rejected \/ Queued(o) \/ o \in waiting \/ o \in active \/ Answered(o))
        /\ o \in rejected => ~(Queued(o) \/ o \in waiting \/ o \in active \/ Answered(o))
        /\ Queued(o)      => ~(o \in waiting \/ o \in active \/ Answered(o))
        /\ o \in waiting  => ~(o \in active \/ Answered(o))
        /\ o \in active   => ~Answered(o)

\* An operation is called back once, and when it is with the server's word then
\* with the first answer the server gave: a late duplicate changes nothing.
AnswerIsFirstReply ==
    \A o \in Ops :
        /\ Len(callbacks[o]) <= 1
        /\ callbacks[o] \in {<<"error">>, <<"result">>} =>
              /\ replied[o] # <<>>
              /\ callbacks[o] = <<Outcome(Kind[o], replied[o][1])>>

\* A subscription is told what the server pushed, in the order it was pushed, and of
\* a package that cannot be read an error at its place.
PushesInOrder ==
    \A s \in Subs :
        /\ Len(callbacks[s]) <= Len(replied[s])
        /\ \A i \in DOMAIN callbacks[s] : callbacks[s][i] = Announced(replied[s][i])

\* The program is told 'connect' at most once, and is told so - like the state
\* is Connected - only when the socket got connected.
ConnectedMeansEstablished ==
    /\ connectEvents <= 1
    /\ connectEvents = 1 => state \in {"Connected", "Closed"}
    /\ state = "Connected" => /\ connectEvents = 1
                              /\ phase = "Connected"
                              /\ socket \notin {"None", "Opening"}

\* After a close nothing is written and no request is told anything but that
\* the connection is closed (or that its arguments were wrong): packages,
\* answers and unsubscriptions still queued or pending have no effect.
QuietAfterClose ==
    [][state = "Closed" =>
          /\ state' = "Closed"
          /\ UNCHANGED <<written, unsubscribed, active>>
          /\ \A r \in RequestIds :
                callbacks'[r] \in {callbacks[r]}
                    \cup {Append(callbacks[r], w) : w \in {"closed", "badArgument"}}]_vars

-----------------------------------------------------------------------------
(* Liveness, under FairSpec *)

\* Either side has closed the socket.
SocketOver == socket \in {"Closing", "Closed"}

\* Every operation issued is called back, unless it waits for a connection that
\* was not there yet (the waiting list is never drained), the client or the server
\* closed the connection while it was active, or the process died.
OperationAnswered ==
    \A o \in Ops : o \in issued ~>
        \/ Answered(o) \/ o \in waiting
        \/ o \in active /\ (state = "Closed" \/ SocketOver)
        \/ crash # "none"

\* README.md: a connection error is reported to the operation's callback.
EveryOperationAnswered ==
    \A o \in Ops : o \in issued ~> Answered(o)

\* Every close(cb) is answered, in whatever state it is handled and also when the
\* server is closing the connection at the same moment, unless the process died.
\* The exception is a socket that had closed before: where the server has closed
\* the connection and close() comes later, destroy() emits no second 'close'.
CloseAnswered ==
    [](socket = "Closed" => state = "Closed") =>
        \A n \in 1..MaxCloses :
            closeCalls["callback"] >= n ~> (closeAnswers >= n \/ crash # "none")

\* A heartbeat request is answered unless either side closed the connection or the
\* process died.
HeartbeatAnswered ==
    \A b \in Beats : replied[b] # <<>> ~>
        (b \in written \/ state = "Closed" \/ SocketOver \/ crash # "none")

\* unsubscribe() ends in 'dropped', unless the subscription waits for a
\* connection, either side closed it first, or the process died.
UnsubscribeServed ==
    \A s \in Subs : s \in stopped ~>
        \/ \E i \in DOMAIN callbacks[s] : callbacks[s][i] = "dropped"
        \/ s \in waiting \/ state = "Closed" \/ SocketOver \/ crash # "none"
=============================================================================
