------------------------- MODULE CatchUpSubscription -------------------------
(***************************************************************************)
(* What the two catch-up subscriptions share (EsCatchUpSubscription in     *)
(* catchUpSubscription.js): read to the end, subscribe, read again up to   *)
(* what the confirmation names while live events queue up, then hand on    *)
(* live events.  Every event goes through an immediate of its own.         *)
(* StreamCatchUpSubscription and AllCatchUpSubscription extend this module *)
(* with what they read and how they compare events.                        *)
(*                                                                         *)
(* Of the connection, which ConnectionLogicHandler models, there is its    *)
(* message queue, whose immediates share Node's first-in first-out order   *)
(* with the subscription's own, and its states Connected and Closed.       *)
(***************************************************************************)
EXTENDS Integers, Sequences

CONSTANTS
    StartAfter, \* the event startProcessingAfter names, -1 when not given
    PageSize,   \* events per read: 500 in the code
    MaxEvents,  \* bound: events ever written
    MaxStops,   \* bound: calls of stop()
    Faults      \* which pass may see a read fail, whether the server may drop the
                \* subscription by itself, whether the program closes the connection

ASSUME ConstantsAssumption ==
    /\ StartAfter \in Nat \cup {-1}
    /\ PageSize \in Nat \ {0}
    /\ MaxEvents \in Nat /\ MaxStops \in Nat
    /\ Faults \subseteq {"firstRead", "secondRead", "drop", "close"}

VARIABLES
    \* EsCatchUpSubscription
    lastProcessed,   \* lastProcessedEventNumber, lastProcessedPosition
    liveSub,         \* _liveSub is set
    isDropped,       \* _isDropped
    shouldStop,      \* _shouldStop
    liveQueue,       \* _liveQueue
    allowProcessing, \* _allowProcessing
    pass,            \* the call of _readEventsUntil that is reading, if any
    readUntil,       \* lastEventNumber, lastPosition: where the second pass ends
    \* the connection and Node's event loop
    connection,      \* its state, or "Crashed": an exception has ended the process
    queue,           \* _queuedMessages
    immediates,      \* pending setImmediate callbacks, in order
    listening,       \* the 'unsubscribe requested' listener is installed
    requests,        \* requests written to the server, not served yet
    inbound,         \* packages on their way from the server
    \* the server
    written,         \* events in the log: 0 .. written - 1
    subscribed,      \* the server pushes new events
    \* what the program did and saw
    stops,           \* calls of stop()
    stopsAtClose,    \* those before it called close(), -1 while it has not
    delivered,       \* 'event' emissions
    lives,           \* 'live' emissions
    drops,           \* 'dropped' emissions
    promised         \* events delivered when 'dropped' came or a second-pass read
                     \* failed, whichever was first; -1 before that

flags        == <<liveSub, isDropped, shouldStop, liveQueue, allowProcessing, pass>>
subscription == <<lastProcessed, readUntil, flags>>
node         == <<connection, queue, immediates, listening>>
wire         == <<requests, inbound>>
server       == <<written, subscribed>>
program      == <<stops, stopsAtClose>>
seen         == <<delivered, lives, drops, promised>>
vars         == <<subscription, node, wire, server, program, seen>>

Events == 0..(MaxEvents - 1)

\* What the connection's queue, the requests and the wire carry.  A page has the
\* numbers of its events, NextEventNumber or NextPosition, and IsEndOfStream.
Read(at)              == [type |-> "Read", at |-> at]
Subscribe             == [type |-> "Subscribe"]
Unsubscribe           == [type |-> "Unsubscribe"]
CloseConnection       == [type |-> "CloseConnection"]
Page(events, next, e) == [type |-> "Page", events |-> events, next |-> next, end |-> e]
Failure               == [type |-> "Failure"]
Confirmed(last)       == [type |-> "Confirmed", last |-> last]
Event(n)              == [type |-> "Event", evt |-> n]
Dropped               == [type |-> "Dropped"]

\* Immediates.
Process         == [task |-> "process", evt |-> -1]
Try(n)          == [task |-> "try", evt |-> n]
EmitDropped     == [task |-> "dropped", evt |-> -1]
EmitUnsubscribe == [task |-> "unsubscribe", evt |-> -1]

Tasks == {Process, EmitDropped, EmitUnsubscribe} \cup {Try(n) : n \in Events}

Tries(events) == [i \in DOMAIN events |-> Try(events[i])]

\* The events from one number up to before another, in order.
EventsFrom(n, m) == [i \in 1..(m - n) |-> n + i - 1]

\* What is known of the variables whatever events are compared by.
SharedTypeOK ==
    /\ liveSub \in BOOLEAN /\ isDropped \in BOOLEAN /\ shouldStop \in BOOLEAN
    /\ allowProcessing \in BOOLEAN /\ listening \in BOOLEAN /\ subscribed \in BOOLEAN
    /\ liveQueue \in Seq(Events)
    /\ pass \in {"first", "second", "none"}
    /\ connection \in {"Connected", "Closed", "Crashed"}
    /\ immediates \in Seq(Tasks)
    /\ written \in 0..MaxEvents
    /\ stops \in 0..MaxStops /\ stopsAtClose \in -1..stops
    /\ delivered \in Seq(Events)
    /\ lives \in Nat /\ drops \in Nat
    /\ promised \in -1..Len(delivered)

\* start() has enqueued the first read.
InitWith(last, firstRead) ==
    /\ lastProcessed = last
    /\ liveSub = FALSE /\ isDropped = FALSE /\ shouldStop = FALSE
    /\ liveQueue = <<>> /\ allowProcessing = FALSE
    /\ pass = "first"
    /\ connection = "Connected"
    /\ queue = <<firstRead>> /\ immediates = <<Process>>
    /\ listening = FALSE
    /\ requests = {} /\ inbound = <<>>
    /\ subscribed = FALSE
    /\ stops = 0 /\ stopsAtClose = -1
    /\ delivered = <<>> /\ lives = 0 /\ drops = 0 /\ promised = -1

-----------------------------------------------------------------------------
(* The program *)

\* Mutation: stop() always unsubscribes.
AlwaysUnsubscribe == EmitUnsubscribe

\* What stop() schedules: an unsubscription, or 'dropped' when nothing is live.
\* Its callback sets _isDropped on the immediate, not on the subscription.
StopTask == IF liveSub THEN EmitUnsubscribe ELSE EmitDropped

MayStop == stops < MaxStops /\ connection # "Crashed"

\* A call from the listener of 'event' or 'dropped', which is all its immediate
\* runs, leads where the same call just before that immediate does.
Stop ==
    /\ MayStop
    /\ stops' = stops + 1
    /\ shouldStop' = TRUE
    /\ immediates' = Append(immediates, StopTask)
    /\ UNCHANGED <<lastProcessed, liveSub, isDropped, liveQueue, allowProcessing, pass, readUntil,
                   connection, queue, listening, wire, server, stopsAtClose, seen>>

\* close(), once.
Close ==
    /\ "close" \in Faults
    /\ connection = "Connected" /\ stopsAtClose = -1
    /\ stopsAtClose' = stops
    /\ queue' = Append(queue, CloseConnection)
    /\ immediates' = Append(immediates, Process)
    /\ UNCHANGED <<subscription, connection, listening, wire, server, stops, seen>>

-----------------------------------------------------------------------------
(* Immediates *)

Runs(task) == connection # "Crashed" /\ immediates # <<>> /\ Head(immediates).task = task

\* What the listener is promised holds up to here.
EndPromise == promised' = IF promised = -1 THEN Len(delivered) ELSE promised

\* The subscription's 'dropped' event.
TellDropped == drops' = drops + 1 /\ EndPromise

\* _tryProcess: an event that is not past the last one processed is filtered out.
TryProcessIf(isNew, mark) ==
    /\ Runs("try")
    /\ \/ /\ isNew
          /\ delivered' = Append(delivered, Head(immediates).evt)
          /\ lastProcessed' = mark
       \/ /\ ~isNew
          /\ UNCHANGED <<delivered, lastProcessed>>
    /\ immediates' = Tail(immediates)
    /\ UNCHANGED <<readUntil, flags, connection, queue, listening, wire, server, program, lives,
                   drops, promised>>

RunEmitDropped ==
    /\ Runs("dropped")
    /\ immediates' = Tail(immediates)
    /\ TellDropped
    /\ UNCHANGED <<subscription, connection, queue, listening, wire, server, program, delivered,
                   lives>>

\* The listener looks whether the socket is still writable.
RunUnsubscribe ==
    /\ Runs("unsubscribe")
    /\ immediates' = Tail(immediates)
    /\ requests' = IF listening /\ connection = "Connected"
                   THEN requests \cup {Unsubscribe} ELSE requests
    /\ UNCHANGED <<subscription, connection, queue, listening, inbound, server, program, seen>>

IdleTick ==
    /\ Runs("process")
    /\ queue = <<>>
    /\ immediates' = Tail(immediates)
    /\ UNCHANGED <<subscription, connection, queue, listening, wire, server, program, seen>>

-----------------------------------------------------------------------------
(* The connection's messages *)

DispatchIn(state, type) ==
    /\ Runs("process")
    /\ queue # <<>>
    /\ connection = state
    /\ Head(queue).type = type

Dispatch(type) == DispatchIn("Connected", type)

\* The handler scheduled `tasks' and enqueued `more', each with an immediate of
\* its own, before _processNextMessage schedules itself again.
Schedules(tasks, more) ==
    /\ queue' = Tail(queue) \o more
    /\ immediates' = Tail(immediates) \o tasks \o [i \in DOMAIN more |-> Process] \o <<Process>>

\* A read or the subscription is written to the server; with the latter its
\* SubscriptionOperation starts to listen.
SendRequest ==
    /\ Dispatch("Read") \/ Dispatch("Subscribe")
    /\ requests' = requests \cup {Head(queue)}
    /\ listening' = (listening \/ Head(queue) = Subscribe)
    /\ Schedules(<<>>, <<>>)
    /\ UNCHANGED <<subscription, connection, inbound, server, program, seen>>

\* Mutation: the first pass does not look at _shouldStop when it is over.
FirstPassDoneAnyway(tasks) ==
    /\ pass = "first"
    /\ pass' = "none"
    /\ liveSub' = TRUE
    /\ Schedules(tasks, <<Subscribe>>)
    /\ UNCHANGED <<shouldStop, liveQueue, allowProcessing, stops, lives>>

\* The first pass is over: subscribe, unless stop() was called meanwhile.
FirstPassDone(tasks) ==
    /\ pass = "first"
    /\ pass' = "none"
    /\ \/ /\ shouldStop
          /\ Schedules(tasks, <<>>)
          /\ UNCHANGED liveSub
       \/ /\ ~shouldStop
          /\ liveSub' = TRUE
          /\ Schedules(tasks, <<Subscribe>>)
    /\ UNCHANGED <<shouldStop, liveQueue, allowProcessing, stops, lives>>

\* The second pass is over: 'live', whose listener may call stop(), then the live
\* queue.
SecondPassDone(tasks) ==
    /\ pass = "second"
    /\ pass' = "none"
    /\ lives' = lives + 1
    /\ allowProcessing' = TRUE
    /\ liveQueue' = <<>>
    /\ \/ /\ Schedules(tasks \o Tries(liveQueue), <<>>)
          /\ UNCHANGED <<stops, shouldStop>>
       \/ /\ MayStop
          /\ stops' = stops + 1
          /\ shouldStop' = TRUE
          /\ Schedules(tasks \o <<StopTask>> \o Tries(liveQueue), <<>>)
    /\ UNCHANGED liveSub

PassDone(tasks) == FirstPassDone(tasks) \/ SecondPassDone(tasks)

\* The callback of a read with a page of events.
HandlePageUntil(done) ==
    /\ Dispatch("Page")
    /\ LET p == Head(queue) IN
       \/ /\ isDropped
          /\ PassDone(<<>>)
       \/ /\ ~isDropped
          /\ done
          /\ PassDone(Tries(p.events))
       \/ /\ ~isDropped
          /\ ~done
          /\ Schedules(Tries(p.events), <<Read(p.next)>>)
          /\ UNCHANGED <<pass, liveSub, shouldStop, liveQueue, allowProcessing, stops, lives>>
    /\ UNCHANGED <<lastProcessed, isDropped, readUntil, connection, listening, wire, server,
                   stopsAtClose, delivered, drops, promised>>

\* Its callback with an error, from the server or because the connection has been
\* closed: the pass is over as if that had been its last page.
HandleFailure ==
    /\ Dispatch("Failure") \/ DispatchIn("Closed", "Read")
    /\ PassDone(<<>>)
    /\ IF pass = "second" THEN EndPromise ELSE UNCHANGED promised
    /\ UNCHANGED <<lastProcessed, isDropped, readUntil, connection, listening, wire, server,
                   stopsAtClose, delivered, drops>>

\* 'confirmed': the second pass starts to read.  It never comes after 'dropped', so
\* the code's look at _isDropped finds it unset.
HandleConfirmedBy(until, firstRead) ==
    /\ Dispatch("Confirmed")
    /\ readUntil' = until
    /\ pass' = "second"
    /\ Schedules(<<>>, <<firstRead>>)
    /\ UNCHANGED <<lastProcessed, liveSub, isDropped, shouldStop, liveQueue, allowProcessing,
                   connection, listening, wire, server, program, seen>>

\* Mutation: live events are never handed on.
NeverHandsOn == FALSE

HandsOn == allowProcessing

\* A live event: queued, and the queue is handed on once processing is allowed.
HandleEvent ==
    /\ Dispatch("Event")
    /\ LET events == Append(liveQueue, Head(queue).evt) IN
       \/ /\ HandsOn
          /\ liveQueue' = <<>>
          /\ Schedules(Tries(events), <<>>)
       \/ /\ ~HandsOn
          /\ liveQueue' = events
          /\ Schedules(<<>>, <<>>)
    /\ UNCHANGED <<lastProcessed, liveSub, isDropped, shouldStop, allowProcessing, pass, readUntil,
                   connection, listening, wire, server, program, seen>>

\* 'dropped' is passed on at once, whatever immediates are pending.
HandleDropped ==
    /\ Dispatch("Dropped")
    /\ isDropped' = TRUE
    /\ TellDropped
    /\ Schedules(<<>>, <<>>)
    /\ UNCHANGED <<lastProcessed, liveSub, shouldStop, liveQueue, allowProcessing, pass, readUntil,
                   connection, listening, wire, server, program, delivered, lives>>

\* The socket is destroyed: nothing more comes from the server, and what it does
\* from here on is of no consequence.
HandleClose ==
    /\ Dispatch("CloseConnection")
    /\ connection' = "Closed"
    /\ requests' = {} /\ inbound' = <<>> /\ subscribed' = FALSE
    /\ Schedules(<<>>, <<>>)
    /\ UNCHANGED <<subscription, listening, written, program, seen>>

\* raiseClosed calls the message's cb, and a subscription's message has none.
ThrowClosed ==
    /\ DispatchIn("Closed", "Subscribe")
    /\ connection' = "Crashed"
    /\ UNCHANGED <<subscription, queue, immediates, listening, wire, server, program, seen>>

\* Packages that were queued when the connection was closed.
IgnorePackage ==
    /\ \E type \in {"Page", "Failure", "NoStream", "Confirmed", "Event", "Dropped"} :
           DispatchIn("Closed", type)
    /\ Schedules(<<>>, <<>>)
    /\ UNCHANGED <<subscription, connection, listening, wire, server, program, seen>>

SharedImmediate ==
    \/ RunEmitDropped \/ RunUnsubscribe \/ IdleTick
    \/ SendRequest \/ HandleFailure \/ HandleEvent \/ HandleDropped
    \/ HandleClose \/ ThrowClosed \/ IgnorePackage

\* A package arrives and is enqueued.
Receive ==
    /\ inbound # <<>>
    /\ connection # "Crashed"
    /\ inbound' = Tail(inbound)
    /\ queue' = Append(queue, Head(inbound))
    /\ immediates' = Append(immediates, Process)
    /\ UNCHANGED <<subscription, connection, listening, requests, server, program, seen>>

-----------------------------------------------------------------------------
(* The server *)

Answer(request, package) ==
    /\ request \in requests
    /\ requests' = requests \ {request}
    /\ inbound' = Append(inbound, package)
    /\ UNCHANGED <<subscription, node, program, seen>>

\* Events are appended, and pushed to a subscriber.
WriteUpTo(n) ==
    /\ connection = "Connected"
    /\ written' = n
    /\ inbound' = IF subscribed
                  THEN inbound \o [i \in 1..(n - written) |-> Event(written + i - 1)]
                  ELSE inbound
    /\ UNCHANGED <<subscription, node, requests, subscribed, program, seen>>

FailRead ==
    /\ pass = "first" => "firstRead" \in Faults
    /\ pass = "second" => "secondRead" \in Faults
    /\ \E request \in requests : request.type = "Read" /\ Answer(request, Failure)
    /\ UNCHANGED server

ConfirmWith(last) ==
    /\ Answer(Subscribe, Confirmed(last))
    /\ subscribed' = TRUE
    /\ UNCHANGED written

\* Unsubscribing, or dropping or refusing by itself.
Drop ==
    /\ \/ subscribed /\ Answer(Unsubscribe, Dropped)
       \/ "drop" \in Faults /\ Answer(Subscribe, Dropped)
       \/ /\ "drop" \in Faults /\ subscribed
          /\ inbound' = Append(inbound, Dropped)
          /\ UNCHANGED <<subscription, node, requests, program, seen>>
    /\ subscribed' = FALSE
    /\ UNCHANGED written

\* What does not depend on what is read and how events are compared.
SharedNext == SharedImmediate \/ Receive \/ FailRead \/ Drop \/ Stop \/ Close

SharedFairness == WF_vars(Receive) /\ WF_vars(Unsubscribe \in requests /\ Drop)

-----------------------------------------------------------------------------
(* Properties *)

\* The events the listener saw while it was promised that none is missing.
Promised == IF promised = -1 THEN delivered ELSE SubSeq(delivered, 1, promised)

\* The event has been given to the listener or is about to be.
Handed(n) == (\E i \in DOMAIN delivered : delivered[i] = n) \/ (\E i \in DOMAIN immediates : immediates[i] = Try(n))

\* Live events wait only while the second pass is under way, and none is
\* forgotten: 'live' is emitted once, by the end of a second pass.
LiveQueueDrained == /\ lives <= 1
                    /\ liveQueue # <<>> => lives = 0
                    /\ allowProcessing => pass = "none"

\* stop() ends in 'dropped', at whatever point of catching up it is called, unless
\* the connection is closed when there is a subscription to cancel.
StopDrops == stops > 0 ~> drops > 0 \/ (liveSub /\ connection # "Connected")

\* Closing the connection ends the process only in the first pass of a
\* subscription that has not been stopped: after stop(), close() is safe.
OnlyEarlyCloseThrows ==
    connection = "Crashed" => stopsAtClose = 0 /\ ~listening /\ lives = 0

\* The tests take 'dropped' for the end: what was delivered by then is all.
DroppedIsLast == drops > 0 => Len(delivered) = promised

=============================================================================
