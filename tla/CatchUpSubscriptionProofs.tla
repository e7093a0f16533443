----------------------- MODULE CatchUpSubscriptionProofs -----------------------
(***************************************************************************)
(* What is proved once for both catch-up subscriptions: their shared       *)
(* actions keep the types, one request at a time under way, and the events *)
(* handed on without a gap.                                                *)
(***************************************************************************)
EXTENDS CatchUpSubscription, SequenceTheorems, WellFoundedInduction, TLAPS

-----------------------------------------------------------------------------
(* Types *)

\* What is asked of the messages of a subscription.
Vocabulary(M) ==
    /\ Subscribe \in M /\ Unsubscribe \in M /\ CloseConnection \in M
    /\ Failure \in M /\ Dropped \in M
    /\ \A n \in Events : Event(n) \in M
    /\ \A m \in M : /\ m.type = "Page" => m.events \in Seq(Events)
                    /\ m.type = "Event" => m.evt \in Events

\* All variables but lastProcessed and readUntil are well typed.
Typed(M) == SharedTypeOK /\ queue \in Seq(M) /\ inbound \in Seq(M) /\ requests \subseteq M

\* A function on 1..n is a sequence.
LEMMA IsSequence ==
    ASSUME NEW n \in Nat, NEW S, NEW f \in [1..n -> S]
    PROVE  f \in Seq(S) /\ Len(f) = n
BY SeqDef

\* The kinds of task.
LEMMA TaskKinds ==
    /\ Process \in Tasks /\ EmitDropped \in Tasks /\ EmitUnsubscribe \in Tasks /\ StopTask \in Tasks
    /\ \A n \in Events : Try(n) \in Tasks /\ Try(n).task = "try" /\ Try(n).evt = n
    /\ Process.task = "process" /\ EmitDropped.task = "dropped" /\ EmitUnsubscribe.task = "unsubscribe"
    /\ \A t \in Tasks : t.task = "try" => t.evt \in Events /\ t = Try(t.evt)
<1>1. Process \in Tasks /\ EmitDropped \in Tasks /\ EmitUnsubscribe \in Tasks
  BY DEF Tasks
<1>2. StopTask \in Tasks
  BY <1>1 DEF StopTask
<1>3. \A n \in Events : Try(n) \in Tasks /\ Try(n).task = "try" /\ Try(n).evt = n
  BY DEF Tasks, Try
<1>4. /\ Process.task = "process" /\ EmitDropped.task = "dropped"
      /\ EmitUnsubscribe.task = "unsubscribe"
  BY DEF Process, EmitDropped, EmitUnsubscribe
<1>5. \A t \in Tasks : t.task = "try" => t.evt \in Events /\ t = Try(t.evt)
  BY <1>3, <1>4 DEF Tasks
<1> QED
  BY <1>1, <1>2, <1>3, <1>4, <1>5

\* The immediates of a list of events.
LEMMA TriesType ==
    ASSUME NEW events \in Seq(Events)
    PROVE  /\ Tries(events) \in Seq(Tasks) /\ Len(Tries(events)) = Len(events)
           /\ \A i \in DOMAIN events : Tries(events)[i] = Try(events[i])
<1>1. Len(events) \in Nat /\ DOMAIN events = 1..Len(events)
  OBVIOUS
<1>2. Tries(events) \in [1..Len(events) -> Tasks]
  BY <1>1, TaskKinds DEF Tries
<1> QED
  BY <1>1, <1>2, IsSequence DEF Tries

\* The immediates of messages enqueued.
LEMMA ProcessesType ==
    ASSUME NEW M, NEW more \in Seq(M)
    PROVE  /\ [i \in DOMAIN more |-> Process] \in Seq({Process})
           /\ [i \in DOMAIN more |-> Process] \in Seq(Tasks)
<1>1. Len(more) \in Nat /\ DOMAIN more = 1..Len(more)
  OBVIOUS
<1>2. [i \in DOMAIN more |-> Process] \in [1..Len(more) -> {Process}]
  BY <1>1
<1>3. [i \in DOMAIN more |-> Process] \in [1..Len(more) -> Tasks]
  BY <1>1, TaskKinds
<1> QED
  BY <1>1, <1>2, <1>3, IsSequence

\* What a handler schedules is well typed.
LEMMA SchedulesType ==
    ASSUME NEW M, Typed(M), queue # <<>>, immediates # <<>>,
           NEW tasks \in Seq(Tasks), NEW more \in Seq(M), Schedules(tasks, more)
    PROVE  queue' \in Seq(M) /\ immediates' \in Seq(Tasks)
<1>1. queue \in Seq(M) /\ immediates \in Seq(Tasks)
  BY DEF Typed, SharedTypeOK
<1>2. queue' \in Seq(M)
  BY <1>1 DEF Schedules
<1> DEFINE procs == [i \in DOMAIN more |-> Process]
<1>3. procs \in Seq(Tasks) /\ <<Process>> \in Seq(Tasks)
  BY ProcessesType, TaskKinds
<1>4. immediates' = Tail(immediates) \o tasks \o procs \o <<Process>>
  BY DEF Schedules
<1> HIDE DEF procs
<1>5. immediates' \in Seq(Tasks)
  BY <1>1, <1>3, <1>4
<1> QED
  BY <1>2, <1>5

\* The flags and the program's record.
LEMMA TypedFacts ==
    ASSUME NEW M, Typed(M)
    PROVE  /\ queue \in Seq(M) /\ inbound \in Seq(M) /\ requests \subseteq M
           /\ immediates \in Seq(Tasks) /\ liveQueue \in Seq(Events) /\ delivered \in Seq(Events)
           /\ stops \in Nat /\ stops <= MaxStops /\ lives \in Nat /\ drops \in Nat
           /\ written \in Nat /\ written <= MaxEvents
           /\ stopsAtClose \in -1..stops /\ promised \in -1..Len(delivered)
BY ConstantsAssumption DEF Typed, SharedTypeOK

\* A step of the program that leaves the messages to the others.
LEMMA StopType ==
    ASSUME NEW M, Typed(M), Stop
    PROVE  Typed(M)'
<1>1. immediates' \in Seq(Tasks)
  BY TaskKinds DEF Typed, SharedTypeOK, Stop
<1>2. stops' \in 0..MaxStops /\ stopsAtClose' \in -1..stops'
  BY ConstantsAssumption DEF Typed, SharedTypeOK, Stop, MayStop
<1> QED
  BY <1>1, <1>2 DEF Typed, SharedTypeOK, Stop, wire, server, seen

\* close() enqueues CloseConnection.
LEMMA CloseType ==
    ASSUME NEW M, Vocabulary(M), Typed(M), Close
    PROVE  Typed(M)'
<1>1. immediates' \in Seq(Tasks) /\ queue' \in Seq(M)
  BY TaskKinds DEF Typed, SharedTypeOK, Close, Vocabulary
<1>2. stopsAtClose' \in -1..stops'
  BY ConstantsAssumption DEF Typed, SharedTypeOK, Close
<1> QED
  BY <1>1, <1>2 DEF Typed, SharedTypeOK, Close, wire, server, seen, subscription, flags

\* A package moves from the wire to the queue.
LEMMA ReceiveType ==
    ASSUME NEW M, Typed(M), Receive
    PROVE  Typed(M)'
<1>1. immediates' \in Seq(Tasks)
  BY TaskKinds DEF Typed, SharedTypeOK, Receive
<1>2. Head(inbound) \in M /\ queue' \in Seq(M) /\ inbound' \in Seq(M)
  BY DEF Typed, Receive
<1> QED
  BY <1>1, <1>2 DEF Typed, SharedTypeOK, Receive, program, server, seen, subscription, flags

\* The end of the promise.
LEMMA EndPromiseType ==
    ASSUME NEW M, Typed(M), EndPromise, UNCHANGED delivered
    PROVE  promised' \in -1..Len(delivered')
BY DEF Typed, SharedTypeOK, EndPromise

\* The pending 'dropped' is told.
LEMMA RunEmitDroppedType ==
    ASSUME NEW M, Typed(M), RunEmitDropped
    PROVE  Typed(M)'
<1>1. immediates' \in Seq(Tasks) /\ drops' \in Nat
  BY DEF Typed, SharedTypeOK, RunEmitDropped, Runs, TellDropped
<1>2. promised' \in -1..Len(delivered')
  BY EndPromiseType DEF RunEmitDropped, TellDropped
<1> QED
  BY <1>1, <1>2 DEF Typed, SharedTypeOK, RunEmitDropped, wire, program, server, subscription, flags

\* The pending unsubscribe is enqueued.
LEMMA RunUnsubscribeType ==
    ASSUME NEW M, Vocabulary(M), Typed(M), RunUnsubscribe
    PROVE  Typed(M)'
<1>1. immediates' \in Seq(Tasks)
  BY DEF Typed, SharedTypeOK, RunUnsubscribe, Runs
<1>2. requests' \subseteq M
  BY DEF Typed, Vocabulary, RunUnsubscribe
<1> QED
  BY <1>1, <1>2 DEF Typed, SharedTypeOK, RunUnsubscribe, program, server, seen, subscription, flags

\* A process call that finds nothing to do.
LEMMA IdleTickType ==
    ASSUME NEW M, Typed(M), IdleTick
    PROVE  Typed(M)'
<1>1. immediates' \in Seq(Tasks)
  BY DEF Typed, SharedTypeOK, IdleTick, Runs
<1> QED
  BY <1>1 DEF Typed, SharedTypeOK, IdleTick, wire, program, server, seen, subscription, flags

\* An event is handed on or filtered out, whichever way it is compared.
LEMMA TryProcessType ==
    ASSUME NEW M, Typed(M), NEW isNew, NEW mark, TryProcessIf(isNew, mark)
    PROVE  Typed(M)'
<1>1. immediates' \in Seq(Tasks)
  BY DEF Typed, SharedTypeOK, TryProcessIf, Runs
<1>2. Head(immediates).evt \in Events
  BY TaskKinds DEF Typed, SharedTypeOK, TryProcessIf, Runs
<1>3. delivered' \in Seq(Events) /\ promised' \in -1..Len(delivered')
  <2>1. /\ delivered' = Append(delivered, Head(immediates).evt) \/ delivered' = delivered
        /\ promised' = promised
    BY DEF TryProcessIf
  <2>2. delivered \in Seq(Events) /\ promised \in -1..Len(delivered)
    BY DEF Typed, SharedTypeOK
  <2> QED BY <1>2, <2>1, <2>2
<1> QED
  BY <1>1, <1>3 DEF Typed, SharedTypeOK, TryProcessIf, wire, program, server, flags

\* What a handler finds.
LEMMA DispatchFacts ==
    ASSUME NEW M, Typed(M), NEW state, NEW type, DispatchIn(state, type)
    PROVE  /\ queue # <<>> /\ immediates # <<>> /\ Head(queue) \in M /\ Head(queue).type = type
           /\ connection = state /\ connection # "Crashed"
           /\ Head(immediates).task = "process"
BY DEF Typed, DispatchIn, Runs

\* A request is sent.
LEMMA SendRequestType ==
    ASSUME NEW M, Typed(M), SendRequest
    PROVE  Typed(M)'
<1>1. queue # <<>> /\ immediates # <<>> /\ Head(queue) \in M
  BY DispatchFacts DEF SendRequest, Dispatch
<1>2. <<>> \in Seq(Tasks) /\ <<>> \in Seq(M)
  OBVIOUS
<1>3. queue' \in Seq(M) /\ immediates' \in Seq(Tasks)
  BY <1>1, <1>2, SchedulesType DEF SendRequest
<1>4. requests' \subseteq M /\ listening' \in BOOLEAN
  BY <1>1 DEF SendRequest, Typed, SharedTypeOK
<1> QED
  BY <1>3, <1>4 DEF Typed, SharedTypeOK, SendRequest, program, server, seen, subscription, flags

\* What the end of a pass changes.
LEMMA PassDoneType ==
    ASSUME NEW M, Vocabulary(M), Typed(M), queue # <<>>, immediates # <<>>,
           NEW tasks \in Seq(Tasks), PassDone(tasks), UNCHANGED stopsAtClose
    PROVE  /\ queue' \in Seq(M) /\ immediates' \in Seq(Tasks) /\ pass' = "none"
           /\ liveQueue' \in Seq(Events) /\ lives' \in Nat
           /\ liveSub' \in BOOLEAN /\ shouldStop' \in BOOLEAN /\ allowProcessing' \in BOOLEAN
           /\ stops' \in 0..MaxStops /\ stopsAtClose' \in -1..stops'
<1>1. <<>> \in Seq(M) /\ <<Subscribe>> \in Seq(M) /\ <<>> \in Seq(Events)
  BY DEF Vocabulary
<1>2. liveQueue \in Seq(Events) /\ Tries(liveQueue) \in Seq(Tasks)
  BY TypedFacts, TriesType
<1>3. /\ tasks \o Tries(liveQueue) \in Seq(Tasks)
      /\ tasks \o <<StopTask>> \o Tries(liveQueue) \in Seq(Tasks)
  BY <1>2, TaskKinds
<1>4. PICK newTasks \in Seq(Tasks), more \in Seq(M) : Schedules(newTasks, more)
  BY <1>1, <1>3 DEF PassDone, FirstPassDone, SecondPassDone
<1>5. queue' \in Seq(M) /\ immediates' \in Seq(Tasks)
  BY <1>4, SchedulesType
<1>6. stops' \in 0..MaxStops /\ stopsAtClose' \in -1..stops'
  BY ConstantsAssumption, SMTT(30) DEF Typed, SharedTypeOK, PassDone, FirstPassDone, SecondPassDone, MayStop
<1>7. /\ pass' = "none" /\ (liveQueue' = liveQueue \/ liveQueue' = <<>>)
      /\ lives' = lives \/ lives' = lives + 1
      /\ liveSub' = liveSub \/ liveSub' = TRUE
      /\ shouldStop' = shouldStop \/ shouldStop' = TRUE
      /\ allowProcessing' = allowProcessing \/ allowProcessing' = TRUE
  BY DEF PassDone, FirstPassDone, SecondPassDone
<1>8. /\ lives \in Nat /\ liveSub \in BOOLEAN /\ shouldStop \in BOOLEAN
      /\ allowProcessing \in BOOLEAN
  BY DEF Typed, SharedTypeOK
<1>9. lives' \in Nat
  BY <1>7, <1>8
<1>10. liveSub' \in BOOLEAN /\ shouldStop' \in BOOLEAN /\ allowProcessing' \in BOOLEAN
  BY <1>7, <1>8, Zenon
<1>11. liveQueue' \in Seq(Events)
  BY <1>1, <1>2, <1>7
<1> QED
  BY <1>5, <1>6, <1>7, <1>9, <1>10, <1>11

\* A page schedules its events, and the next read or the end of the pass.
LEMMA HandlePageType ==
    ASSUME NEW M, Vocabulary(M), Typed(M), \A m \in M : m.type = "Page" => Read(m.next) \in M,
           NEW done, HandlePageUntil(done)
    PROVE  Typed(M)'
<1>1. queue # <<>> /\ immediates # <<>> /\ Head(queue) \in M /\ Head(queue).type = "Page"
  BY DispatchFacts DEF HandlePageUntil, Dispatch
<1>2. Head(queue).events \in Seq(Events) /\ <<Read(Head(queue).next)>> \in Seq(M)
  BY <1>1 DEF Vocabulary
<1>3. Tries(Head(queue).events) \in Seq(Tasks) /\ <<>> \in Seq(Tasks)
  BY <1>2, TriesType
<1>4. CASE PassDone(<<>>) \/ PassDone(Tries(Head(queue).events))
  <2>1. /\ queue' \in Seq(M) /\ immediates' \in Seq(Tasks) /\ pass' = "none"
        /\ liveQueue' \in Seq(Events) /\ lives' \in Nat
        /\ liveSub' \in BOOLEAN /\ shouldStop' \in BOOLEAN /\ allowProcessing' \in BOOLEAN
        /\ stops' \in 0..MaxStops /\ stopsAtClose' \in -1..stops'
    BY <1>1, <1>3, <1>4, PassDoneType DEF HandlePageUntil
  <2> QED BY <2>1 DEF HandlePageUntil, Typed, SharedTypeOK, wire, server
<1>5. CASE /\ Schedules(Tries(Head(queue).events), <<Read(Head(queue).next)>>)
           /\ UNCHANGED <<pass, liveSub, shouldStop, liveQueue, allowProcessing, stops, lives>>
  <2>1. queue' \in Seq(M) /\ immediates' \in Seq(Tasks)
    BY <1>1, <1>2, <1>3, <1>5, SchedulesType
  <2> QED BY <1>5, <2>1 DEF HandlePageUntil, Typed, SharedTypeOK, wire, server
<1> QED
  BY <1>4, <1>5 DEF HandlePageUntil

\* A failed read ends the pass.
LEMMA HandleFailureType ==
    ASSUME NEW M, Vocabulary(M), Typed(M), HandleFailure
    PROVE  Typed(M)'
<1>1. queue # <<>> /\ immediates # <<>>
  BY DispatchFacts DEF HandleFailure, Dispatch
<1>2. <<>> \in Seq(Tasks)
  OBVIOUS
<1>3. /\ queue' \in Seq(M) /\ immediates' \in Seq(Tasks) /\ pass' = "none"
      /\ liveQueue' \in Seq(Events) /\ lives' \in Nat
      /\ liveSub' \in BOOLEAN /\ shouldStop' \in BOOLEAN /\ allowProcessing' \in BOOLEAN
      /\ stops' \in 0..MaxStops /\ stopsAtClose' \in -1..stops'
  BY <1>1, <1>2, PassDoneType DEF HandleFailure
<1>4. promised' \in -1..Len(delivered')
  BY EndPromiseType DEF HandleFailure, Typed, SharedTypeOK
<1> QED
  BY <1>3, <1>4 DEF HandleFailure, Typed, SharedTypeOK, wire, server

\* The confirmation enqueues the first read of the second pass.
LEMMA HandleConfirmedType ==
    ASSUME NEW M, Typed(M), NEW until, NEW firstRead \in M, HandleConfirmedBy(until, firstRead)
    PROVE  Typed(M)'
<1>1. queue # <<>> /\ immediates # <<>>
  BY DispatchFacts DEF HandleConfirmedBy, Dispatch
<1>2. <<>> \in Seq(Tasks) /\ <<firstRead>> \in Seq(M)
  OBVIOUS
<1>3. queue' \in Seq(M) /\ immediates' \in Seq(Tasks)
  BY <1>1, <1>2, SchedulesType DEF HandleConfirmedBy
<1> QED
  BY <1>3 DEF HandleConfirmedBy, Typed, SharedTypeOK, wire, server, program, seen

\* A live event is queued or handed on.
LEMMA HandleEventType ==
    ASSUME NEW M, Vocabulary(M), Typed(M), HandleEvent
    PROVE  Typed(M)'
<1>1. queue # <<>> /\ immediates # <<>> /\ Head(queue).evt \in Events
  BY DispatchFacts DEF HandleEvent, Dispatch, Vocabulary
<1> DEFINE events == Append(liveQueue, Head(queue).evt)
<1>2. events \in Seq(Events) /\ Tries(events) \in Seq(Tasks)
  <2>1. liveQueue \in Seq(Events)
    BY TypedFacts
  <2>2. events \in Seq(Events)
    BY <1>1, <2>1
  <2> QED BY <2>2, TriesType
<1>3. <<>> \in Seq(Tasks) /\ <<>> \in Seq(M) /\ <<>> \in Seq(Events)
  OBVIOUS
<1>4. \/ liveQueue' = <<>> /\ Schedules(Tries(events), <<>>)
      \/ liveQueue' = events /\ Schedules(<<>>, <<>>)
  BY DEF HandleEvent
<1> HIDE DEF events
<1>5. queue' \in Seq(M) /\ immediates' \in Seq(Tasks) /\ liveQueue' \in Seq(Events)
  BY <1>1, <1>2, <1>3, <1>4, SchedulesType
<1> QED
  BY <1>5 DEF HandleEvent, Typed, SharedTypeOK, wire, server, program, seen

\* 'dropped' of the server is told.
LEMMA HandleDroppedType ==
    ASSUME NEW M, Typed(M), HandleDropped
    PROVE  Typed(M)'
<1>1. queue # <<>> /\ immediates # <<>>
  BY DispatchFacts DEF HandleDropped, Dispatch
<1>2. <<>> \in Seq(Tasks) /\ <<>> \in Seq(M)
  OBVIOUS
<1>3. queue' \in Seq(M) /\ immediates' \in Seq(Tasks)
  BY <1>1, <1>2, SchedulesType DEF HandleDropped
<1>4. drops' \in Nat /\ promised' \in -1..Len(delivered')
  BY EndPromiseType DEF HandleDropped, TellDropped, Typed, SharedTypeOK
<1> QED
  BY <1>3, <1>4 DEF HandleDropped, Typed, SharedTypeOK, wire, server, program

\* The connection is closed.
LEMMA HandleCloseType ==
    ASSUME NEW M, Typed(M), HandleClose
    PROVE  Typed(M)'
<1>1. queue # <<>> /\ immediates # <<>>
  BY DispatchFacts DEF HandleClose, Dispatch
<1>2. <<>> \in Seq(Tasks) /\ <<>> \in Seq(M)
  OBVIOUS
<1>3. queue' \in Seq(M) /\ immediates' \in Seq(Tasks)
  BY <1>1, <1>2, SchedulesType DEF HandleClose
<1> QED
  BY <1>2, <1>3 DEF HandleClose, Typed, SharedTypeOK, subscription, flags, program, seen

\* The process ends.
LEMMA ThrowClosedType ==
    ASSUME NEW M, Typed(M), ThrowClosed
    PROVE  Typed(M)'
BY DEF ThrowClosed, Typed, SharedTypeOK, subscription, flags, wire, server, program, seen

\* A package comes after the connection was closed.
LEMMA IgnorePackageType ==
    ASSUME NEW M, Typed(M), IgnorePackage
    PROVE  Typed(M)'
<1>1. queue # <<>> /\ immediates # <<>>
  BY DispatchFacts DEF IgnorePackage
<1>2. <<>> \in Seq(Tasks) /\ <<>> \in Seq(M)
  OBVIOUS
<1>3. queue' \in Seq(M) /\ immediates' \in Seq(Tasks)
  BY <1>1, <1>2, SchedulesType DEF IgnorePackage
<1> QED
  BY <1>3 DEF IgnorePackage, Typed, SharedTypeOK, subscription, flags, wire, server, program, seen

\* The server answers,
LEMMA AnswerType ==
    ASSUME NEW M, Typed(M), NEW request, NEW package \in M, Answer(request, package),
           UNCHANGED written, subscribed' \in BOOLEAN
    PROVE  Typed(M)'
<1>1. inbound' \in Seq(M) /\ requests' \subseteq M
  BY DEF Answer, Typed
<1> QED
  BY <1>1 DEF Answer, Typed, SharedTypeOK, subscription, flags, node, program, seen

\* drops the subscription
LEMMA DropType ==
    ASSUME NEW M, Vocabulary(M), Typed(M), Drop
    PROVE  Typed(M)'
<1>1. subscribed' \in BOOLEAN /\ UNCHANGED written /\ Dropped \in M
  BY DEF Drop, Vocabulary
<1>2. CASE Answer(Unsubscribe, Dropped) \/ Answer(Subscribe, Dropped)
  BY <1>1, <1>2, AnswerType
<1>3. CASE /\ inbound' = Append(inbound, Dropped)
           /\ UNCHANGED <<subscription, node, requests, program, seen>>
  <2>1. inbound' \in Seq(M)
    BY <1>1, <1>3 DEF Typed
  <2> QED BY <1>1, <1>3, <2>1 DEF Typed, SharedTypeOK, subscription, flags, node, program, seen
<1> QED
  BY <1>2, <1>3 DEF Drop

\* and pushes events.
LEMMA WriteType ==
    ASSUME NEW M, Vocabulary(M), Typed(M), NEW n \in (written + 1)..MaxEvents, WriteUpTo(n)
    PROVE  Typed(M)'
<1> DEFINE pushed == [i \in 1..(n - written) |-> Event(written + i - 1)]
<1>1. written \in Nat /\ MaxEvents \in Nat /\ n \in Nat
  BY TypedFacts, ConstantsAssumption, SMTT(30)
<1>2. \A i \in 1..(n - written) : written + i - 1 \in Events
  BY <1>1 DEF Events
<1>3. pushed \in [1..(n - written) -> M] /\ n - written \in Nat
  <2>1. \A i \in 1..(n - written) : Event(written + i - 1) \in M
    BY <1>2 DEF Vocabulary
  <2>2. n - written \in Nat
    BY <1>1
  <2> QED BY <2>1, <2>2
<1>4. pushed \in Seq(M)
  BY <1>3, IsSequence
<1>5. inbound' = inbound \o pushed \/ inbound' = inbound
  BY DEF WriteUpTo
<1> HIDE DEF pushed
<1>6. inbound' \in Seq(M)
  <2>1. inbound \in Seq(M)
    BY TypedFacts
  <2>2. inbound \o pushed \in Seq(M)
    BY <1>4, <2>1, ConcatProperties
  <2> QED BY <1>5, <2>1, <2>2
<1>7. written' \in 0..MaxEvents
  BY <1>1 DEF WriteUpTo
<1> QED
  BY <1>6, <1>7 DEF WriteUpTo, Typed, SharedTypeOK, subscription, flags, node, program, seen

\* All that does not depend on what is read.
LEMMA SharedNextType ==
    ASSUME NEW M, Vocabulary(M), Typed(M), SharedNext
    PROVE  Typed(M)'
<1>1. CASE SharedImmediate
  BY <1>1, RunEmitDroppedType, RunUnsubscribeType, IdleTickType, SendRequestType, HandleFailureType,
     HandleEventType, HandleDroppedType, HandleCloseType, ThrowClosedType, IgnorePackageType
     DEF SharedImmediate
<1>2. CASE FailRead
  <2>1. PICK request : Answer(request, Failure)
    BY <1>2 DEF FailRead
  <2>2. Failure \in M /\ UNCHANGED written /\ subscribed' \in BOOLEAN
    BY <1>2 DEF FailRead, server, Vocabulary, Typed, SharedTypeOK
  <2> QED BY <2>1, <2>2, AnswerType
<1> QED
  BY <1>1, <1>2, ReceiveType, DropType, StopType, CloseType DEF SharedNext

\* Steps that change nothing.
LEMMA StutterType ==
    ASSUME NEW M, Typed(M), UNCHANGED vars
    PROVE  Typed(M)'
BY DEF Typed, SharedTypeOK, vars, subscription, flags, node, wire, server, program, seen

\* The beginning.
LEMMA InitTyped ==
    ASSUME NEW M, NEW last, NEW firstRead \in M, InitWith(last, firstRead), written \in 0..MaxEvents
    PROVE  Typed(M)
<1>1. <<firstRead>> \in Seq(M) /\ <<>> \in Seq(M) /\ <<>> \in Seq(Events)
  OBVIOUS
<1>2. <<Process>> \in Seq(Tasks)
  BY TaskKinds
<1>3. stops = 0 /\ stopsAtClose = -1 /\ promised = -1 /\ 0 \in 0..MaxStops /\ -1 \in -1..0
      /\ lives \in Nat /\ drops \in Nat
  BY ConstantsAssumption DEF InitWith
<1>4. delivered \in Seq(Events) /\ -1 \in -1..Len(delivered)
  BY <1>1 DEF InitWith
<1> QED
  BY <1>1, <1>2, <1>3, <1>4 DEF InitWith, Typed, SharedTypeOK

\* The numbers of events, in order.
LEMMA EventsFromFacts ==
    ASSUME NEW n \in Nat, NEW m \in Nat, n <= m, m <= MaxEvents
    PROVE  /\ EventsFrom(n, m) \in Seq(Events) /\ Len(EventsFrom(n, m)) = m - n
           /\ DOMAIN EventsFrom(n, m) = 1..(m - n)
           /\ \A i \in 1..(m - n) : EventsFrom(n, m)[i] = n + i - 1
<1>1. \A i \in 1..(m - n) : n + i - 1 \in Events
  BY ConstantsAssumption DEF Events
<1>2. EventsFrom(n, m) \in [1..(m - n) -> Events] /\ m - n \in Nat
  BY <1>1 DEF EventsFrom
<1> QED
  BY <1>2, IsSequence DEF EventsFrom

\* None, when they are past the end.
LEMMA NoEventsFrom ==
    ASSUME NEW n \in Nat, NEW m \in Nat, m < n
    PROVE  EventsFrom(n, m) \in Seq(Events)
<1>1. 1..(m - n) = {} /\ 1..0 = {}
  OBVIOUS
<1>2. EventsFrom(n, m) \in [1..0 -> Events]
  BY <1>1 DEF EventsFrom
<1> QED
  BY <1>2, IsSequence

-----------------------------------------------------------------------------
(* What the client has to handle *)

\* What the client has to handle, in order: Receive changes nothing of it.
Coming == queue \o inbound

\* Its places are those of the queue, then those of the wire.
LEMMA ComingFacts ==
    ASSUME NEW M, Typed(M)
    PROVE  /\ Coming \in Seq(M) /\ Len(Coming) = Len(queue) + Len(inbound) /\ Len(Coming) \in Nat
           /\ DOMAIN Coming = 1..Len(Coming)
           /\ Len(queue) \in Nat /\ Len(inbound) \in Nat
           /\ \A i \in 1..Len(queue) : Coming[i] = queue[i]
           /\ \A i \in 1..Len(inbound) : Coming[Len(queue) + i] = inbound[i]
<1>1. queue \in Seq(M) /\ inbound \in Seq(M)
  BY TypedFacts
<1> QED
  BY <1>1 DEF Coming

\* The first message has been handled.
LEMMA ComingTail ==
    ASSUME NEW M, Typed(M), queue # <<>>, queue' = Tail(queue), UNCHANGED inbound
    PROVE  /\ Len(Coming) >= 1 /\ Coming[1] = Head(queue)
           /\ Len(Coming)' = Len(Coming) - 1 /\ DOMAIN Coming' = 1..(Len(Coming) - 1)
           /\ \A i \in 1..(Len(Coming) - 1) : Coming'[i] = Coming[i + 1]
<1>1. queue \in Seq(M) /\ inbound \in Seq(M)
  BY TypedFacts
<1> QED
  BY <1>1 DEF Coming

\* It has, and another one has been enqueued.
LEMMA ComingNext ==
    ASSUME NEW M, Typed(M), queue # <<>>, NEW x \in M, queue' = Tail(queue) \o <<x>>, UNCHANGED inbound
    PROVE  /\ Len(queue) \in 1..Len(Coming) /\ Coming[1] = Head(queue)
           /\ Len(Coming)' = Len(Coming) /\ DOMAIN Coming' = 1..Len(Coming)
           /\ \A i \in 1..(Len(queue) - 1) : Coming'[i] = Coming[i + 1]
           /\ Coming'[Len(queue)] = x
           /\ \A i \in (Len(queue) + 1)..Len(Coming) : Coming'[i] = Coming[i]
<1>1. queue \in Seq(M) /\ inbound \in Seq(M)
  BY TypedFacts
<1> QED
  BY <1>1 DEF Coming

\* The socket has been destroyed.
LEMMA ComingCut ==
    ASSUME NEW M, Typed(M), queue # <<>>, queue' = Tail(queue), inbound' = <<>>
    PROVE  /\ Len(queue) \in 1..Len(Coming)
           /\ DOMAIN Coming' = 1..(Len(queue) - 1)
           /\ \A i \in 1..(Len(queue) - 1) : Coming'[i] = Coming[i + 1]
<1>1. queue \in Seq(M) /\ inbound \in Seq(M)
  BY TypedFacts
<1> QED
  BY <1>1 DEF Coming

\* Whatever comes of the rest, it moves up.
LEMMA ComingMovesUp ==
    ASSUME NEW M, Typed(M), queue # <<>>, queue' = Tail(queue), inbound' = inbound \/ inbound' = <<>>
    PROVE  \A i \in DOMAIN Coming' : /\ i \in Nat /\ i >= 1 /\ i + 1 \in DOMAIN Coming
                                     /\ Coming'[i] = Coming[i + 1]
<1>1. DOMAIN Coming = 1..Len(Coming) /\ Len(Coming) \in Nat /\ Len(queue) \in Nat
  BY ComingFacts
<1>2. CASE inbound' = inbound
  <2>1. /\ DOMAIN Coming' = 1..(Len(Coming) - 1)
        /\ \A i \in 1..(Len(Coming) - 1) : Coming'[i] = Coming[i + 1]
    BY <1>2, ComingTail
  <2> QED BY <1>1, <2>1
<1>3. CASE inbound' = <<>>
  <2>1. /\ DOMAIN Coming' = 1..(Len(queue) - 1) /\ Len(queue) \in 1..Len(Coming)
        /\ \A i \in 1..(Len(queue) - 1) : Coming'[i] = Coming[i + 1]
    BY <1>3, ComingCut
  <2> QED BY <1>1, <2>1
<1> QED
  BY <1>2, <1>3

\* A message has been enqueued.
LEMMA ComingEnqueued ==
    ASSUME NEW M, Typed(M), NEW x \in M, queue' = Append(queue, x), UNCHANGED inbound
    PROVE  /\ Len(queue) \in 0..Len(Coming)
           /\ Len(Coming)' = Len(Coming) + 1 /\ DOMAIN Coming' = 1..(Len(Coming) + 1)
           /\ \A i \in 1..Len(queue) : Coming'[i] = Coming[i]
           /\ Coming'[Len(queue) + 1] = x
           /\ \A i \in (Len(queue) + 2)..(Len(Coming) + 1) : Coming'[i] = Coming[i - 1]
<1>1. queue \in Seq(M) /\ inbound \in Seq(M)
  BY TypedFacts
<1> QED
  BY <1>1 DEF Coming

\* A package has arrived: it was coming.
LEMMA ComingReceived ==
    ASSUME NEW M, Typed(M), Receive
    PROVE  Coming' = Coming
<1>1. queue \in Seq(M) /\ inbound \in Seq(M) /\ inbound # <<>>
  BY TypedFacts DEF Receive
<1>2. queue' = Append(queue, Head(inbound)) /\ inbound' = Tail(inbound)
  BY DEF Receive
<1> QED
  BY <1>1, <1>2 DEF Coming

\* The server has sent more.
LEMMA ComingSent ==
    ASSUME NEW M, Typed(M), NEW s \in Seq(M), inbound' = inbound \o s, UNCHANGED queue
    PROVE  /\ Len(s) \in Nat /\ DOMAIN Coming' = 1..(Len(Coming) + Len(s))
           /\ Len(Coming)' = Len(Coming) + Len(s)
           /\ \A i \in 1..Len(Coming) : Coming'[i] = Coming[i]
           /\ \A i \in 1..Len(s) : Coming'[Len(Coming) + i] = s[i]
<1>1. queue \in Seq(M) /\ inbound \in Seq(M)
  BY TypedFacts
<1> QED
  BY <1>1 DEF Coming

\* An answer is put at the end of what is coming.
LEMMA ComingAnswered ==
    ASSUME NEW M, Typed(M), NEW x \in M, inbound' = Append(inbound, x), UNCHANGED queue
    PROVE  /\ DOMAIN Coming' = 1..(Len(Coming) + 1) /\ Len(Coming) \in Nat
           /\ \A i \in 1..Len(Coming) : Coming'[i] = Coming[i]
           /\ Coming'[Len(Coming) + 1] = x
<1>1. queue \in Seq(M) /\ inbound \in Seq(M)
  BY TypedFacts
<1> QED
  BY <1>1 DEF Coming

-----------------------------------------------------------------------------
(* One request at a time *)

\* Messages of a read, of the subscription, and either.
Reading(m)     == m.type \in {"Read", "Page", "Failure", "NoStream"}
Subscribing(m) == m.type \in {"Subscribe", "Confirmed"}
Control(m)     == Reading(m) \/ Subscribing(m)

\* Of all reads, subscription requests and answers to them there is one at most.
OneControl ==
    /\ \A i, j \in DOMAIN Coming : Control(Coming[i]) /\ Control(Coming[j]) => i = j
    /\ \A r \in requests : Control(r) => \A i \in DOMAIN Coming : ~Control(Coming[i])
    /\ \A r, q \in requests : Control(r) /\ Control(q) => r = q

\* It is of the pass that is under way.
OfPhase(m) ==
    /\ Reading(m) => pass # "none"
    /\ Subscribing(m) => pass = "none" /\ liveSub /\ lives = 0

\* All that is coming or asked belongs to the pass under way.
InPhase == /\ \A i \in DOMAIN Coming : OfPhase(Coming[i])
           /\ \A r \in requests : OfPhase(r)

\* Packages and requests of no pass.
LEMMA NoControl ==
    /\ ~Control(Unsubscribe) /\ ~Control(CloseConnection) /\ ~Control(Dropped)
    /\ \A n : ~Control(Event(n))
BY DEF Control, Reading, Subscribing, Unsubscribe, CloseConnection, Dropped, Event

\* Requests and answers that were there keep their phase.
LEMMA PhaseStays ==
    ASSUME UNCHANGED <<pass, liveSub, lives>>, NEW m, OfPhase(m) \/ ~Control(m)
    PROVE  OfPhase(m)'
BY DEF OfPhase, Control

\* Something else is handled, or the socket is destroyed.
LEMMA ControlStays ==
    ASSUME NEW M, Typed(M), OneControl, InPhase, UNCHANGED <<pass, liveSub, lives>>,
           queue # <<>>, queue' = Tail(queue), inbound' = inbound \/ inbound' = <<>>,
           \A r \in requests' : Control(r) => r \in requests
    PROVE  OneControl' /\ InPhase'
<1>1. \A i \in DOMAIN Coming' : i + 1 \in DOMAIN Coming /\ Coming'[i] = Coming[i + 1] /\ i \in Nat
  BY ComingMovesUp
<1>2. OneControl'
  BY <1>1 DEF OneControl
<1>3. \A i \in DOMAIN Coming' : OfPhase(Coming'[i])
  BY <1>1 DEF InPhase
<1> QED
  BY <1>2, <1>3 DEF InPhase, OfPhase, Control

\* Messages of no pass are added, or moved.
LEMMA NoControlAdded ==
    ASSUME NEW M, Typed(M), OneControl, InPhase, UNCHANGED <<pass, liveSub, lives>>,
           \/ Coming' = Coming
           \/ /\ UNCHANGED inbound
              /\ \E x \in M : ~Control(x) /\ queue' = Append(queue, x)
           \/ /\ UNCHANGED queue
              /\ \E s \in Seq(M) : /\ \A i \in DOMAIN s : ~Control(s[i])
                                   /\ inbound' = inbound \o s,
           \A r \in requests' : Control(r) => r \in requests
    PROVE  OneControl' /\ InPhase'
<1>1. CASE Coming' = Coming
  <2>1. OneControl'
    BY <1>1 DEF OneControl
  <2> QED BY <1>1, <2>1 DEF InPhase, OfPhase, Control
<1>2. CASE UNCHANGED inbound /\ \E x \in M : ~Control(x) /\ queue' = Append(queue, x)
  <2>1. PICK x \in M : ~Control(x) /\ queue' = Append(queue, x)
    BY <1>2
  <2>2. /\ Len(queue) \in 0..Len(Coming)
        /\ DOMAIN Coming' = 1..(Len(Coming) + 1)
        /\ \A i \in 1..Len(queue) : Coming'[i] = Coming[i]
        /\ Coming'[Len(queue) + 1] = x
        /\ \A i \in (Len(queue) + 2)..(Len(Coming) + 1) : Coming'[i] = Coming[i - 1]
    BY <1>2, <2>1, ComingEnqueued
  <2>3. DOMAIN Coming = 1..Len(Coming) /\ Len(Coming) \in Nat /\ Len(queue) \in Nat
    BY ComingFacts
  <2>7. \A i \in DOMAIN Coming' : Control(Coming'[i]) =>
            \/ i <= Len(queue) /\ i \in DOMAIN Coming /\ Coming'[i] = Coming[i]
            \/ i >= Len(queue) + 2 /\ i - 1 \in DOMAIN Coming /\ Coming'[i] = Coming[i - 1]
    BY <2>1, <2>2, <2>3
  <2>4. OneControl'
    <3>1. ASSUME NEW i \in DOMAIN Coming', NEW j \in DOMAIN Coming',
                 Control(Coming'[i]), Control(Coming'[j])
          PROVE  i = j
      <4>1. i \in Nat /\ j \in Nat
        BY <2>2, <2>3
      <4> QED BY <2>3, <2>7, <3>1, <4>1 DEF OneControl
    <3>2. \A r \in requests' : Control(r) => \A i \in DOMAIN Coming' : ~Control(Coming'[i])
      BY <2>7 DEF OneControl
    <3>3. \A r, q \in requests' : Control(r) /\ Control(q) => r = q
      BY DEF OneControl
    <3> QED BY <3>1, <3>2, <3>3 DEF OneControl
  <2>5. \A i \in DOMAIN Coming' :
            ~Control(Coming'[i]) \/ \E j \in DOMAIN Coming : Coming'[i] = Coming[j]
    BY <2>1, <2>2, <2>3
  <2>6. \A i \in DOMAIN Coming' : ~Control(Coming'[i]) \/ OfPhase(Coming'[i])
    BY <2>5 DEF InPhase
  <2> QED BY <2>4, <2>6 DEF InPhase, OfPhase, Control
<1>3. CASE UNCHANGED queue /\ \E s \in Seq(M) : /\ \A i \in DOMAIN s : ~Control(s[i])
                                                /\ inbound' = inbound \o s
  <2>1. PICK s \in Seq(M) : (\A i \in DOMAIN s : ~Control(s[i])) /\ inbound' = inbound \o s
    BY <1>3
  <2>2. /\ Len(s) \in Nat /\ DOMAIN Coming' = 1..(Len(Coming) + Len(s))
        /\ \A i \in 1..Len(Coming) : Coming'[i] = Coming[i]
        /\ \A i \in 1..Len(s) : Coming'[Len(Coming) + i] = s[i]
    BY <1>3, <2>1, ComingSent
  <2>3. DOMAIN Coming = 1..Len(Coming) /\ Len(Coming) \in Nat /\ DOMAIN s = 1..Len(s)
    BY ComingFacts
  <2>4. \A i \in DOMAIN Coming' :
            ~Control(Coming'[i]) \/ (i \in DOMAIN Coming /\ Coming'[i] = Coming[i])
    <3> SUFFICES ASSUME NEW i \in DOMAIN Coming'
                 PROVE  ~Control(Coming'[i]) \/ (i \in DOMAIN Coming /\ Coming'[i] = Coming[i])
      OBVIOUS
    <3>3. CASE i \in DOMAIN Coming
      BY <2>2, <2>3, <3>3
    <3>4. CASE i \notin DOMAIN Coming
      <4>1. PICK k \in 1..Len(s) : i = Len(Coming) + k
        <5>1. i - Len(Coming) \in 1..Len(s) /\ i = Len(Coming) + (i - Len(Coming))
          BY <2>2, <2>3, <3>4
        <5> QED BY <5>1
      <4>2. Coming'[i] = s[k]
        BY <2>2, <4>1
      <4>3. ~Control(s[k])
        BY <2>1, <2>3
      <4> QED BY <4>2, <4>3
    <3> QED BY <3>3, <3>4
  <2>5. OneControl'
    BY <2>4 DEF OneControl
  <2>6. \A i \in DOMAIN Coming' : ~Control(Coming'[i]) \/ OfPhase(Coming'[i])
    BY <2>4 DEF InPhase
  <2> QED BY <2>5, <2>6 DEF InPhase, OfPhase, Control
<1> QED
  BY <1>1, <1>2, <1>3

\* A read, a subscription request or an answer is handled, and another one may follow.
LEMMA ControlHandled ==
    ASSUME NEW M, Typed(M), OneControl, queue # <<>>, Control(Head(queue)),
           UNCHANGED <<inbound, requests>>,
           \/ queue' = Tail(queue)
           \/ \E x \in M : queue' = Tail(queue) \o <<x>> /\ OfPhase(x)'
    PROVE  OneControl' /\ InPhase'
<1>1. /\ Len(Coming) >= 1 /\ Coming[1] = Head(queue) /\ Len(Coming) \in Nat
      /\ DOMAIN Coming = 1..Len(Coming)
  <2>1. queue \in Seq(M) /\ Len(queue) >= 1 /\ queue[1] = Head(queue)
    BY TypedFacts
  <2> QED BY <2>1, ComingFacts
<1>2. /\ \A i \in DOMAIN Coming : i # 1 => ~Control(Coming[i])
      /\ \A r \in requests : ~Control(r)
  BY <1>1 DEF OneControl
<1>3. CASE queue' = Tail(queue)
  <2>1. \A i \in DOMAIN Coming' : i + 1 \in DOMAIN Coming /\ i + 1 # 1 /\ Coming'[i] = Coming[i + 1]
    BY <1>1, <1>3, ComingMovesUp
  <2>2. \A i \in DOMAIN Coming' : ~Control(Coming'[i])
    BY <1>2, <2>1
  <2> QED BY <1>2, <2>2 DEF OneControl, InPhase, OfPhase, Control
<1>4. CASE \E x \in M : queue' = Tail(queue) \o <<x>> /\ OfPhase(x)'
  <2>1. PICK x \in M : queue' = Tail(queue) \o <<x>> /\ OfPhase(x)'
    BY <1>4
  <2>2. /\ Len(queue) \in 1..Len(Coming)
        /\ DOMAIN Coming' = 1..Len(Coming)
        /\ \A i \in 1..(Len(queue) - 1) : Coming'[i] = Coming[i + 1]
        /\ Coming'[Len(queue)] = x
        /\ \A i \in (Len(queue) + 1)..Len(Coming) : Coming'[i] = Coming[i]
    BY <2>1, ComingNext
  <2>3. \A i \in DOMAIN Coming' : i # Len(queue) => ~Control(Coming'[i])
    BY <1>1, <1>2, <2>2, SMTT(30)
  <2> QED BY <1>2, <2>1, <2>2, <2>3 DEF OneControl, InPhase, OfPhase, Control
<1> QED
  BY <1>3, <1>4

\* A request is written to the server.
LEMMA ControlSent ==
    ASSUME NEW M, Typed(M), OneControl, InPhase, UNCHANGED <<pass, liveSub, lives>>,
           queue # <<>>, Control(Head(queue)),
           queue' = Tail(queue), UNCHANGED inbound, requests' = requests \cup {Head(queue)}
    PROVE  OneControl' /\ InPhase'
<1>1. /\ Len(Coming) >= 1 /\ Coming[1] = Head(queue) /\ Len(Coming) \in Nat
      /\ DOMAIN Coming = 1..Len(Coming)
  <2>1. queue \in Seq(M) /\ Len(queue) >= 1 /\ queue[1] = Head(queue)
    BY TypedFacts
  <2> QED BY <2>1, ComingFacts
<1>2. /\ \A i \in DOMAIN Coming : i # 1 => ~Control(Coming[i])
      /\ \A r \in requests : ~Control(r)
  BY <1>1 DEF OneControl
<1>3. \A i \in DOMAIN Coming' : i + 1 \in DOMAIN Coming /\ i + 1 # 1 /\ Coming'[i] = Coming[i + 1]
  BY <1>1, ComingMovesUp
<1>4. \A i \in DOMAIN Coming' : ~Control(Coming'[i])
  BY <1>2, <1>3
<1>5. OfPhase(Head(queue))
  BY <1>1 DEF InPhase
<1> QED
  BY <1>2, <1>4, <1>5 DEF OneControl, InPhase, OfPhase, Control

\* The server answers one.
LEMMA ControlAnswered ==
    ASSUME NEW M, Typed(M), OneControl, InPhase, UNCHANGED <<pass, liveSub, lives, queue>>,
           NEW request \in requests, Control(request), NEW package \in M,
           \/ ~Control(package)
           \/ Reading(package) /\ ~Subscribing(package) /\ Reading(request)
           \/ Subscribing(package) /\ ~Reading(package) /\ Subscribing(request),
           requests' = requests \ {request}, inbound' = Append(inbound, package)
    PROVE  OneControl' /\ InPhase'
<1>1. /\ \A i \in DOMAIN Coming : ~Control(Coming[i])
      /\ \A r \in requests' : ~Control(r)
  BY DEF OneControl
<1>3. /\ DOMAIN Coming' = 1..(Len(Coming) + 1)
      /\ \A i \in 1..Len(Coming) : Coming'[i] = Coming[i]
      /\ Coming'[Len(Coming) + 1] = package
  BY ComingAnswered
<1>4. \A i \in DOMAIN Coming' : i # Len(Coming) + 1 => ~Control(Coming'[i])
  <2>1. DOMAIN Coming = 1..Len(Coming) /\ Len(Coming) \in Nat
    BY ComingFacts
  <2>2. \A i \in DOMAIN Coming' : i # Len(Coming) + 1 => i \in 1..Len(Coming)
    BY <1>3, <2>1
  <2>3. \A i \in 1..Len(Coming) : ~Control(Coming'[i])
    BY <1>1, <1>3, <2>1
  <2> QED BY <2>2, <2>3
<1>5. OfPhase(package)'
  BY DEF InPhase, OfPhase, Control
<1> QED
  BY <1>1, <1>3, <1>4, <1>5 DEF OneControl, InPhase, OfPhase, Control

\* The flags go with the pass.
Flags ==
    /\ pass = "first" => ~liveSub /\ ~listening
    /\ pass = "second" => liveSub
    /\ lives = 1 => pass = "none" /\ liveQueue = <<>>
    /\ lives \in {0, 1} /\ (allowProcessing <=> lives = 1)
    /\ isDropped => promised # -1
    /\ promised # -1 => isDropped \/ lives = 1 \/ (~liveSub /\ shouldStop)
    /\ (\E i \in DOMAIN immediates : immediates[i] = EmitDropped) => ~liveSub /\ shouldStop

\* What the end of the connection finds, and leaves.
Closing ==
    /\ shouldStop <=> stops > 0
    /\ connection # "Connected" =>
           requests = {} /\ inbound = <<>> /\ ~subscribed /\ stopsAtClose # -1
    /\ \A i \in DOMAIN queue : queue[i].type = "CloseConnection" => stopsAtClose # -1
    /\ \A i \in DOMAIN queue : queue[i].type = "Subscribe" =>
           /\ ~listening
           /\ connection # "Connected" \/ (\E j \in 1..(i - 1) : queue[j].type = "CloseConnection") =>
                  stopsAtClose = 0
    /\ \A i \in DOMAIN inbound : inbound[i].type \notin {"Subscribe", "CloseConnection"}
    /\ OnlyEarlyCloseThrows

\* What holds of requests, answers and flags whatever happens to the events.
Protocol == OneControl /\ InPhase /\ Flags /\ Closing

\* A task that is in neither of two lists is not in both together.
LEMMA NoneJoined ==
    ASSUME NEW S, NEW s \in Seq(S), NEW t \in Seq(S), NEW x,
           \A i \in DOMAIN s : s[i] # x, \A i \in DOMAIN t : t[i] # x
    PROVE  s \o t \in Seq(S) /\ \A i \in DOMAIN (s \o t) : (s \o t)[i] # x
<1>1. /\ s \o t \in Seq(S) /\ DOMAIN (s \o t) = 1..(Len(s) + Len(t))
      /\ \A i \in 1..Len(s) : (s \o t)[i] = s[i]
      /\ \A i \in (Len(s) + 1)..(Len(s) + Len(t)) : i - Len(s) \in DOMAIN t /\ (s \o t)[i] = t[i - Len(s)]
  OBVIOUS
<1> QED
  BY <1>1

\* The immediates a handler leaves.
LEMMA ScheduledTasks ==
    ASSUME NEW M, Typed(M), immediates # <<>>, NEW tasks \in Seq(Tasks), NEW more \in Seq(M),
           Schedules(tasks, more), NEW t, t # Process
    PROVE  (\E i \in DOMAIN immediates' : immediates'[i] = t) =>
               \/ \E i \in DOMAIN immediates : immediates[i] = t
               \/ \E i \in DOMAIN tasks : tasks[i] = t
<1> DEFINE procs == [i \in DOMAIN more |-> Process]
           rest  == Tail(immediates)
<1>1. rest \in Seq(Tasks) /\ \A i \in DOMAIN rest : \E j \in DOMAIN immediates : rest[i] = immediates[j]
  <2>1. immediates \in Seq(Tasks)
    BY TypedFacts
  <2>2. \A i \in DOMAIN rest : i + 1 \in DOMAIN immediates /\ rest[i] = immediates[i + 1]
    BY <2>1
  <2> QED BY <2>1, <2>2
<1>2. procs \in Seq({Process}) /\ procs \in Seq(Tasks) /\ <<Process>> \in Seq(Tasks)
  BY ProcessesType, TaskKinds
<1>3. \A i \in DOMAIN procs : procs[i] = Process
  OBVIOUS
<1>4. immediates' = rest \o tasks \o procs \o <<Process>>
  BY DEF Schedules
<1> HIDE DEF procs, rest
<1> SUFFICES ASSUME NEW i \in DOMAIN immediates', immediates'[i] = t
             PROVE  \/ \E j \in DOMAIN rest : rest[j] = t
                    \/ \E j \in DOMAIN tasks : tasks[j] = t
  BY <1>1
<1> DEFINE a == rest \o tasks
           b == a \o procs
<1>5. a \in Seq(Tasks) /\ b \in Seq(Tasks)
  BY <1>1, <1>2
<1>6. \A j \in DOMAIN a : (\E k \in DOMAIN rest : rest[k] = a[j]) \/ (\E k \in DOMAIN tasks : tasks[k] = a[j])
  <2> SUFFICES ASSUME NEW j \in DOMAIN a
               PROVE  (\E k \in DOMAIN rest : rest[k] = a[j]) \/ (\E k \in DOMAIN tasks : tasks[k] = a[j])
    OBVIOUS
  <2>1. CASE j <= Len(rest)
    <3>1. j \in DOMAIN rest /\ rest[j] = a[j]
      BY <1>1, <2>1
    <3> QED BY <3>1
  <2>2. CASE j > Len(rest)
    <3>1. j - Len(rest) \in DOMAIN tasks /\ tasks[j - Len(rest)] = a[j]
      BY <1>1, <2>2
    <3> QED BY <3>1
  <2> QED BY <1>1, <1>5, <2>1, <2>2
<1> HIDE DEF a
<1>7. \A j \in DOMAIN b : (\E k \in DOMAIN a : a[k] = b[j]) \/ b[j] = Process
  BY <1>2, <1>3, <1>5
<1> HIDE DEF b
<1>8. immediates' = b \o <<Process>>
  BY <1>4 DEF a, b
<1>9. (\E k \in DOMAIN b : b[k] = immediates'[i]) \/ immediates'[i] = Process
  BY <1>5, <1>8
<1> QED
  BY <1>6, <1>7, <1>9

\* The immediate that has run is gone.
LEMMA RanTasks ==
    ASSUME NEW M, Typed(M), immediates # <<>>, NEW t,
           \/ immediates' = Tail(immediates)
           \/ immediates' = Append(immediates, Process) /\ t # Process
           \/ immediates' = immediates
    PROVE  (\E i \in DOMAIN immediates' : immediates'[i] = t) =>
               \E i \in DOMAIN immediates : immediates[i] = t
<1>1. immediates \in Seq(Tasks)
  BY TypedFacts
<1>2. CASE immediates' = Tail(immediates)
  <2>1. \A i \in DOMAIN immediates' : i + 1 \in DOMAIN immediates /\ immediates'[i] = immediates[i + 1]
    BY <1>1, <1>2
  <2> QED BY <2>1
<1>3. CASE immediates' = Append(immediates, Process) /\ t # Process
  BY <1>1, <1>3
<1> QED
  BY <1>2, <1>3

\* The kinds of message differ.
LEMMA Types ==
    /\ Subscribe.type = "Subscribe" /\ CloseConnection.type = "CloseConnection"
    /\ Unsubscribe.type = "Unsubscribe" /\ Failure.type = "Failure" /\ Dropped.type = "Dropped"
    /\ \A n : Read(n).type = "Read" /\ Event(n).type = "Event" /\ Confirmed(n).type = "Confirmed"
    /\ EmitDropped # Process /\ EmitDropped # EmitUnsubscribe
    /\ \A n \in Events : EmitDropped # Try(n)
BY DEF Subscribe, CloseConnection, Unsubscribe, Failure, Dropped, Read, Event, Confirmed,
       EmitDropped, Process, EmitUnsubscribe, Try

\* The flags hold whatever moves along the wire.
LEMMA FlagsStay ==
    ASSUME Flags, UNCHANGED <<pass, liveSub, listening, lives, liveQueue, allowProcessing, isDropped,
                              promised, shouldStop>>,
           (\E i \in DOMAIN immediates' : immediates'[i] = EmitDropped) =>
               \E i \in DOMAIN immediates : immediates[i] = EmitDropped
    PROVE  Flags'
BY DEF Flags

\* A message has been handled: what is still queued comes no earlier than it did.
LEMMA ClosingHandled ==
    ASSUME NEW M, Typed(M), Closing, queue # <<>>, queue' = Tail(queue),
           UNCHANGED <<stopsAtClose, subscribed, inbound, connection, shouldStop, stops>>,
           connection # "Crashed", connection = "Connected" \/ requests' = requests,
           (\E i \in DOMAIN queue' : queue'[i].type = "Subscribe") => listening' = listening
    PROVE  Closing'
<1>1. queue \in Seq(M) /\ inbound \in Seq(M)
  BY TypedFacts
<1>2. \A i \in DOMAIN queue' : i + 1 \in DOMAIN queue /\ queue'[i] = queue[i + 1] /\ i \in Nat /\ i >= 1
  BY <1>1
<1>3. ASSUME NEW i \in DOMAIN queue', queue'[i].type = "Subscribe"
      PROVE  /\ ~listening'
             /\ connection' # "Connected" \/ (\E j \in 1..(i - 1) : queue'[j].type = "CloseConnection") =>
                    stopsAtClose' = 0
  <2>1. /\ ~listening
        /\ connection # "Connected" \/ (\E j \in 1..i : queue[j].type = "CloseConnection") =>
               stopsAtClose = 0
    BY <1>2, <1>3 DEF Closing
  <2>2. ASSUME NEW j \in 1..(i - 1), queue'[j].type = "CloseConnection"
        PROVE  \E k \in 1..i : queue[k].type = "CloseConnection"
    BY <1>1, <1>2, <2>2
  <2> QED BY <1>3, <2>1, <2>2
<1>4. \A i \in DOMAIN queue' : queue'[i].type = "CloseConnection" => stopsAtClose' # -1
  BY <1>2 DEF Closing
<1>5. OnlyEarlyCloseThrows'
  BY DEF OnlyEarlyCloseThrows
<1>6. connection' # "Connected" =>
           requests' = {} /\ inbound' = <<>> /\ ~subscribed' /\ stopsAtClose' # -1
  BY DEF Closing
<1>7. shouldStop' <=> stops' > 0
  BY DEF Closing
<1>8. \A i \in DOMAIN inbound' : inbound'[i].type \notin {"Subscribe", "CloseConnection"}
  BY DEF Closing
<1> QED
  BY <1>3, <1>4, <1>5, <1>6, <1>7, <1>8 DEF Closing

\* One more message that is neither a subscription nor a close changes nothing either.
LEMMA ClosingAppended ==
    ASSUME NEW M, Typed(M), Closing, NEW q \in Seq(M), NEW x \in M,
           x.type # "CloseConnection",
           x.type = "Subscribe" => /\ ~listening'
                                   /\ connection' # "Connected" => stopsAtClose' = 0
                                   /\ (\E j \in DOMAIN q : q[j].type = "CloseConnection") => stopsAtClose' = 0,
           \A i \in DOMAIN q : q[i].type = "CloseConnection" => stopsAtClose' # -1,
           \A i \in DOMAIN q : q[i].type = "Subscribe" =>
               /\ ~listening'
               /\ connection' # "Connected" \/ (\E j \in 1..(i - 1) : q[j].type = "CloseConnection") =>
                      stopsAtClose' = 0,
           queue' = Append(q, x)
    PROVE  /\ \A i \in DOMAIN queue' : queue'[i].type = "CloseConnection" => stopsAtClose' # -1
           /\ \A i \in DOMAIN queue' : queue'[i].type = "Subscribe" =>
               /\ ~listening'
               /\ connection' # "Connected" \/ (\E j \in 1..(i - 1) : queue'[j].type = "CloseConnection") =>
                      stopsAtClose' = 0
<1>1. /\ DOMAIN queue' = 1..(Len(q) + 1) /\ Len(q) \in Nat /\ DOMAIN q = 1..Len(q)
      /\ \A i \in 1..Len(q) : queue'[i] = q[i]
      /\ queue'[Len(q) + 1] = x
  OBVIOUS
<1>2. \A i \in DOMAIN queue' : queue'[i].type = "CloseConnection" => stopsAtClose' # -1
  BY <1>1
<1>3. ASSUME NEW i \in DOMAIN queue', queue'[i].type = "Subscribe"
      PROVE  /\ ~listening'
             /\ connection' # "Connected" \/ (\E j \in 1..(i - 1) : queue'[j].type = "CloseConnection") =>
                    stopsAtClose' = 0
  <2>1. CASE i = Len(q) + 1
    <3>1. x.type = "Subscribe"
      BY <1>1, <1>3, <2>1
    <3>2. ASSUME NEW j \in 1..(i - 1), queue'[j].type = "CloseConnection"
          PROVE  \E k \in DOMAIN q : q[k].type = "CloseConnection"
      BY <1>1, <2>1, <3>2
    <3> QED BY <3>1, <3>2
  <2>2. CASE i # Len(q) + 1
    <3>1. i \in DOMAIN q /\ q[i].type = "Subscribe" /\ i \in 1..Len(q)
      BY <1>1, <1>3, <2>2
    <3>2. ASSUME NEW j \in 1..(i - 1), queue'[j].type = "CloseConnection"
          PROVE  \E k \in 1..(i - 1) : q[k].type = "CloseConnection"
      BY <1>1, <3>1, <3>2
    <3> QED BY <3>1, <3>2
  <2> QED BY <2>1, <2>2
<1> QED
  BY <1>2, <1>3

\* Immediates that concern nothing else.
LEMMA ImmediateProtocol ==
    ASSUME NEW M, Typed(M), Protocol, RunEmitDropped \/ RunUnsubscribe \/ IdleTick
    PROVE  Protocol'
<1>1. /\ immediates # <<>> /\ immediates' = Tail(immediates) /\ UNCHANGED <<queue, inbound>>
      /\ UNCHANGED <<pass, liveSub, lives, listening, liveQueue, allowProcessing, isDropped, shouldStop>>
      /\ UNCHANGED <<connection, subscribed, stops, stopsAtClose>>
  BY DEF RunEmitDropped, RunUnsubscribe, IdleTick, Runs, subscription, flags, wire, server, program,
         seen
<1>2. /\ \A r \in requests' : Control(r) => r \in requests
      /\ connection = "Connected" \/ requests' = requests
  BY NoControl DEF RunEmitDropped, RunUnsubscribe, IdleTick, wire
<1>3. OneControl' /\ InPhase'
  <2>1. Coming' = Coming
    BY <1>1 DEF Coming
  <2> QED BY <1>1, <1>2, <2>1, NoControlAdded DEF Protocol
<1>4. (\E i \in DOMAIN immediates' : immediates'[i] = EmitDropped) =>
          \E i \in DOMAIN immediates : immediates[i] = EmitDropped
  BY <1>1, RanTasks
<1>5. Flags'
  <2>1. CASE RunEmitDropped
    <3>1. immediates[1] = EmitDropped /\ 1 \in DOMAIN immediates
      <4>1. immediates \in Seq(Tasks) /\ immediates # <<>> /\ Head(immediates).task = "dropped"
        BY <2>1, TypedFacts DEF RunEmitDropped, Runs
      <4>2. Head(immediates) \in Tasks /\ Head(immediates) = immediates[1] /\ 1 \in DOMAIN immediates
        BY <4>1
      <4> QED BY <4>1, <4>2 DEF Tasks, Process, Try, EmitUnsubscribe
    <3>2. ~liveSub /\ shouldStop
      BY <3>1 DEF Protocol, Flags
    <3>3. promised' # -1
      BY <2>1, TypedFacts DEF RunEmitDropped, TellDropped, EndPromise
    <3> QED BY <1>1, <1>4, <3>2, <3>3 DEF Protocol, Flags
  <2>2. CASE RunUnsubscribe \/ IdleTick
    <3>1. promised' = promised
      BY <2>2 DEF RunUnsubscribe, IdleTick, seen
    <3> QED BY <1>1, <1>4, <3>1, FlagsStay DEF Protocol
  <2> QED BY <2>1, <2>2
<1>6. Closing'
  BY <1>1, <1>2 DEF Protocol, Closing, OnlyEarlyCloseThrows
<1> QED
  BY <1>3, <1>5, <1>6 DEF Protocol

\* An event is processed, or not.
LEMMA TryProcessProtocol ==
    ASSUME NEW M, Typed(M), Protocol, NEW isNew, NEW mark, TryProcessIf(isNew, mark)
    PROVE  Protocol'
<1>1. /\ immediates # <<>> /\ immediates' = Tail(immediates) /\ UNCHANGED <<queue, wire>>
      /\ UNCHANGED <<pass, liveSub, lives, listening, liveQueue, allowProcessing, isDropped, shouldStop>>
      /\ UNCHANGED <<connection, subscribed, stops, stopsAtClose, promised>>
  BY DEF TryProcessIf, Runs, flags, server, program
<1>2. Coming' = Coming /\ requests' = requests /\ inbound' = inbound
  BY <1>1 DEF Coming, wire
<1>3. OneControl' /\ InPhase'
  BY <1>1, <1>2, NoControlAdded DEF Protocol
<1>4. Flags'
  BY <1>1, RanTasks, FlagsStay DEF Protocol
<1>5. Closing'
  BY <1>1, <1>2 DEF Protocol, Closing, OnlyEarlyCloseThrows
<1> QED
  BY <1>3, <1>4, <1>5 DEF Protocol

\* What a handler without new messages does to the queue.
LEMMA OnlyHandled ==
    ASSUME NEW M, Typed(M), queue # <<>>, immediates # <<>>,
           NEW tasks \in Seq(Tasks), Schedules(tasks, <<>>)
    PROVE  /\ queue' = Tail(queue)
           /\ (\E i \in DOMAIN immediates' : immediates'[i] = EmitDropped) =>
                  \/ \E i \in DOMAIN immediates : immediates[i] = EmitDropped
                  \/ \E i \in DOMAIN tasks : tasks[i] = EmitDropped
<1>1. <<>> \in Seq(M)
  OBVIOUS
<1>2. queue' = Tail(queue)
  BY TypedFacts DEF Schedules
<1> QED
  BY <1>1, <1>2, ScheduledTasks, Types

\* Most handlers schedule nothing.
LEMMA NothingScheduled ==
    ASSUME NEW M, Typed(M), queue # <<>>, immediates # <<>>, Schedules(<<>>, <<>>)
    PROVE  /\ queue' = Tail(queue)
           /\ (\E i \in DOMAIN immediates' : immediates'[i] = EmitDropped) =>
                  \E i \in DOMAIN immediates : immediates[i] = EmitDropped
<1>1. <<>> \in Seq(Tasks) /\ DOMAIN <<>> = {}
  OBVIOUS
<1>2. /\ queue' = Tail(queue)
      /\ (\E i \in DOMAIN immediates' : immediates'[i] = EmitDropped) =>
             \/ \E i \in DOMAIN immediates : immediates[i] = EmitDropped
             \/ \E i \in DOMAIN <<>> : <<>>[i] = EmitDropped
  BY <1>1, OnlyHandled
<1> QED
  BY <1>1, <1>2

\* A request is written.
LEMMA SendRequestProtocol ==
    ASSUME NEW M, Vocabulary(M), Typed(M), Protocol, SendRequest
    PROVE  Protocol'
<1>1. /\ queue # <<>> /\ immediates # <<>> /\ connection = "Connected"
      /\ Head(queue).type \in {"Read", "Subscribe"}
  BY DispatchFacts DEF SendRequest, Dispatch
<1>3. /\ queue' = Tail(queue)
      /\ (\E i \in DOMAIN immediates' : immediates'[i] = EmitDropped) =>
             \E i \in DOMAIN immediates : immediates[i] = EmitDropped
  BY <1>1, NothingScheduled DEF SendRequest
<1>4. /\ UNCHANGED <<pass, liveSub, lives, liveQueue, allowProcessing, isDropped, shouldStop>>
      /\ UNCHANGED <<connection, subscribed, stops, stopsAtClose, promised, inbound>>
      /\ requests' = requests \cup {Head(queue)}
      /\ listening' = (listening \/ Head(queue) = Subscribe)
  BY DEF SendRequest, subscription, flags, server, program, seen
<1>5. Control(Head(queue))
  BY <1>1 DEF Control, Reading, Subscribing
<1>6. OneControl' /\ InPhase'
  BY <1>1, <1>3, <1>4, <1>5, ControlSent DEF Protocol
<1>7. OfPhase(Head(queue)) /\ \A i \in DOMAIN Coming' : ~Control(Coming'[i])
  <2>1. Coming[1] = Head(queue) /\ Len(Coming) >= 1 /\ 1 \in DOMAIN Coming
    BY <1>1, <1>3, <1>4, ComingTail, ComingFacts
  <2>2. \A i \in DOMAIN Coming' : i \in Nat /\ i >= 1 /\ i + 1 \in DOMAIN Coming /\ Coming'[i] = Coming[i + 1]
    BY <1>1, <1>3, <1>4, ComingMovesUp
  <2>3. \A i \in DOMAIN Coming : i # 1 => ~Control(Coming[i])
    BY <1>5, <2>1 DEF Protocol, OneControl
  <2> QED BY <2>1, <2>2, <2>3 DEF Protocol, InPhase
<1>8. \A i \in DOMAIN queue' : queue'[i].type # "Subscribe"
  <2>1. Typed(M)'
    BY SendRequestType
  <2>2. \A i \in DOMAIN queue' : i \in DOMAIN Coming' /\ Coming'[i] = queue'[i]
    <3>1. queue' \in Seq(M) /\ inbound' \in Seq(M)
      BY <2>1 DEF Typed
    <3> QED BY <3>1 DEF Coming
  <2> QED BY <1>7, <2>2 DEF Control, Subscribing
<1>9. Flags'
  <2>1. pass = "first" => ~listening'
    <3>1. CASE Head(queue) = Subscribe
      BY <1>7, <3>1, Types DEF OfPhase, Subscribing
    <3>2. CASE Head(queue) # Subscribe
      BY <1>4, <3>2 DEF Protocol, Flags
    <3> QED BY <3>1, <3>2
  <2> QED BY <1>3, <1>4, <2>1 DEF Protocol, Flags
<1>10. Closing'
  BY <1>1, <1>3, <1>4, <1>8, ClosingHandled DEF Protocol
<1> QED
  BY <1>6, <1>9, <1>10 DEF Protocol

\* A live event is handled.
LEMMA HandleEventProtocol ==
    ASSUME NEW M, Vocabulary(M), Typed(M), Protocol, HandleEvent
    PROVE  Protocol'
<1>1. /\ queue # <<>> /\ immediates # <<>> /\ connection = "Connected"
      /\ Head(queue).type = "Event" /\ Head(queue).evt \in Events
  BY DispatchFacts DEF HandleEvent, Dispatch, Vocabulary
<1> DEFINE events == Append(liveQueue, Head(queue).evt)
<1>2. /\ events \in Seq(Events) /\ Tries(events) \in Seq(Tasks)
      /\ DOMAIN Tries(events) = DOMAIN events
      /\ \A i \in DOMAIN events : Tries(events)[i] = Try(events[i])
  <2>1. liveQueue \in Seq(Events)
    BY TypedFacts
  <2>2. events \in Seq(Events)
    BY <1>1, <2>1
  <2> HIDE DEF events
  <2> QED BY <2>2, TriesType DEF Tries
<1>3. /\ UNCHANGED <<pass, liveSub, lives, allowProcessing, isDropped, shouldStop, listening>>
      /\ UNCHANGED <<connection, subscribed, stops, stopsAtClose, promised, inbound, requests>>
  BY DEF HandleEvent, wire, server, program, seen
<1>4. \/ allowProcessing /\ liveQueue' = <<>> /\ Schedules(Tries(events), <<>>)
      \/ ~allowProcessing /\ Schedules(<<>>, <<>>)
  BY DEF HandleEvent, HandsOn
<1> HIDE DEF events
<1>5. /\ queue' = Tail(queue)
      /\ (\E i \in DOMAIN immediates' : immediates'[i] = EmitDropped) =>
             \E i \in DOMAIN immediates : immediates[i] = EmitDropped
  <2>1. CASE Schedules(Tries(events), <<>>)
    <3>1. \A i \in DOMAIN Tries(events) : Tries(events)[i] # EmitDropped
      <4>1. \A i \in DOMAIN events : events[i] \in Events
        BY <1>2
      <4> QED BY <1>2, <4>1, Types
    <3> QED BY <1>1, <1>2, <2>1, <3>1, OnlyHandled
  <2>2. CASE Schedules(<<>>, <<>>)
    BY <1>1, <2>2, NothingScheduled
  <2> QED BY <1>4, <2>1, <2>2
<1>6. OneControl' /\ InPhase'
  BY <1>1, <1>3, <1>5, ControlStays DEF Protocol
<1>7. Flags'
  <2>1. lives' = 1 => liveQueue' = <<>>
    BY <1>3, <1>4 DEF Protocol, Flags
  <2> QED BY <1>3, <1>5, <2>1 DEF Protocol, Flags
<1>8. Closing'
  BY <1>1, <1>3, <1>5, ClosingHandled DEF Protocol
<1> QED
  BY <1>6, <1>7, <1>8 DEF Protocol

\* 'dropped' is passed on.
LEMMA HandleDroppedProtocol ==
    ASSUME NEW M, Typed(M), Protocol, HandleDropped
    PROVE  Protocol'
<1>1. queue # <<>> /\ immediates # <<>> /\ connection = "Connected"
  BY DispatchFacts DEF HandleDropped, Dispatch
<1>2. /\ UNCHANGED <<pass, liveSub, lives, liveQueue, allowProcessing, shouldStop, listening>>
      /\ UNCHANGED <<connection, subscribed, stops, stopsAtClose, inbound, requests>>
      /\ isDropped' = TRUE
  BY DEF HandleDropped, wire, server, program
<1>3. promised' # -1
  BY TypedFacts DEF HandleDropped, TellDropped, EndPromise
<1>4. /\ queue' = Tail(queue)
      /\ (\E i \in DOMAIN immediates' : immediates'[i] = EmitDropped) =>
             \E i \in DOMAIN immediates : immediates[i] = EmitDropped
  BY <1>1, NothingScheduled DEF HandleDropped
<1>5. OneControl' /\ InPhase'
  BY <1>1, <1>2, <1>4, ControlStays DEF Protocol
<1>6. Flags'
  BY <1>2, <1>3, <1>4 DEF Protocol, Flags
<1>7. Closing'
  BY <1>1, <1>2, <1>4, ClosingHandled DEF Protocol
<1> QED
  BY <1>5, <1>6, <1>7 DEF Protocol

\* The socket is destroyed.
LEMMA HandleCloseProtocol ==
    ASSUME NEW M, Typed(M), Protocol, HandleClose
    PROVE  Protocol'
<1>1. /\ queue # <<>> /\ immediates # <<>> /\ connection = "Connected"
      /\ Head(queue).type = "CloseConnection"
  BY DispatchFacts DEF HandleClose, Dispatch
<1>2. /\ UNCHANGED <<pass, liveSub, lives, liveQueue, allowProcessing, shouldStop, listening>>
      /\ UNCHANGED <<stops, stopsAtClose, isDropped, promised>>
      /\ connection' = "Closed" /\ requests' = {} /\ inbound' = <<>> /\ subscribed' = FALSE
  BY DEF HandleClose, subscription, flags, program, seen
<1>3. /\ queue' = Tail(queue)
      /\ (\E i \in DOMAIN immediates' : immediates'[i] = EmitDropped) =>
             \E i \in DOMAIN immediates : immediates[i] = EmitDropped
  BY <1>1, NothingScheduled DEF HandleClose
<1>4. OneControl' /\ InPhase'
  BY <1>1, <1>2, <1>3, ControlStays DEF Protocol
<1>5. Flags'
  BY <1>2, <1>3 DEF Protocol, Flags
<1>6. Closing'
  <2>1. queue \in Seq(M) /\ 1 \in DOMAIN queue /\ queue[1] = Head(queue)
    <3>1. queue \in Seq(M)
      BY TypedFacts
    <3> QED BY <1>1, <3>1
  <2>2. stopsAtClose # -1
    BY <1>1, <2>1 DEF Protocol, Closing
  <2>3. \A i \in DOMAIN queue' : /\ i + 1 \in DOMAIN queue /\ queue'[i] = queue[i + 1]
                                 /\ 1 \in 1..((i + 1) - 1)
    BY <1>1, <1>3, <2>1
  <2>4. \A i \in DOMAIN queue' : queue'[i].type = "Subscribe" => ~listening' /\ stopsAtClose' = 0
    BY <1>1, <1>2, <2>1, <2>3 DEF Protocol, Closing
  <2>5. shouldStop' <=> stops' > 0
    BY <1>2 DEF Protocol, Closing
  <2>6. \A i \in DOMAIN inbound' : inbound'[i].type \notin {"Subscribe", "CloseConnection"}
    <3>1. DOMAIN <<>> = {}
      OBVIOUS
    <3> QED BY <1>2, <3>1
  <2>7. OnlyEarlyCloseThrows'
    BY <1>2 DEF OnlyEarlyCloseThrows
  <2> QED BY <1>2, <2>2, <2>4, <2>5, <2>6, <2>7 DEF Closing
<1> QED
  BY <1>4, <1>5, <1>6 DEF Protocol

\* The process ends.
LEMMA ThrowClosedProtocol ==
    ASSUME NEW M, Typed(M), Protocol, ThrowClosed
    PROVE  Protocol'
<1>1. /\ queue # <<>> /\ connection = "Closed" /\ Head(queue).type = "Subscribe"
  BY DispatchFacts DEF ThrowClosed
<1>2. /\ UNCHANGED <<pass, liveSub, lives, liveQueue, allowProcessing, shouldStop, listening>>
      /\ UNCHANGED <<stops, stopsAtClose, isDropped, promised, requests, inbound, subscribed>>
      /\ UNCHANGED <<queue, immediates>>
      /\ connection' = "Crashed"
  BY DEF ThrowClosed, subscription, flags, wire, server, program, seen
<1>3. OneControl' /\ InPhase'
  <2>1. Coming' = Coming
    BY <1>2 DEF Coming
  <2> QED BY <1>2, <2>1, NoControlAdded DEF Protocol
<1>4. Flags'
  BY <1>2, FlagsStay DEF Protocol
<1>5. 1 \in DOMAIN queue /\ queue[1] = Head(queue) /\ 1 \in DOMAIN Coming /\ Coming[1] = Head(queue)
  <2>1. queue \in Seq(M) /\ inbound \in Seq(M)
    BY TypedFacts
  <2> QED BY <1>1, <2>1 DEF Coming
<1>6. ~listening /\ stopsAtClose = 0
  BY <1>1, <1>5 DEF Protocol, Closing
<1>7. lives = 0
  BY <1>1, <1>5 DEF Protocol, InPhase, OfPhase, Subscribing
<1>8. Closing'
  BY <1>1, <1>2, <1>6, <1>7 DEF Protocol, Closing, OnlyEarlyCloseThrows
<1> QED
  BY <1>3, <1>4, <1>8 DEF Protocol

\* A package that came before the connection was closed is ignored.
LEMMA IgnorePackageProtocol ==
    ASSUME NEW M, Typed(M), Protocol, IgnorePackage
    PROVE  Protocol'
<1>1. queue # <<>> /\ immediates # <<>> /\ connection = "Closed"
  BY DispatchFacts DEF IgnorePackage
<1>2. /\ UNCHANGED <<pass, liveSub, lives, liveQueue, allowProcessing, shouldStop, listening>>
      /\ UNCHANGED <<stops, stopsAtClose, isDropped, promised, requests, inbound, subscribed>>
      /\ UNCHANGED connection
  BY DEF IgnorePackage, subscription, flags, wire, server, program, seen
<1>3. /\ queue' = Tail(queue)
      /\ (\E i \in DOMAIN immediates' : immediates'[i] = EmitDropped) =>
             \E i \in DOMAIN immediates : immediates[i] = EmitDropped
  BY <1>1, NothingScheduled DEF IgnorePackage
<1>4. OneControl' /\ InPhase'
  BY <1>1, <1>2, <1>3, ControlStays DEF Protocol
<1>5. Flags'
  BY <1>2, <1>3, FlagsStay DEF Protocol
<1>6. Closing'
  BY <1>1, <1>2, <1>3, ClosingHandled DEF Protocol
<1> QED
  BY <1>4, <1>5, <1>6 DEF Protocol

\* A package is enqueued.
LEMMA ReceiveProtocol ==
    ASSUME NEW M, Typed(M), Protocol, Receive
    PROVE  Protocol'
<1>1. /\ UNCHANGED <<pass, liveSub, lives, liveQueue, allowProcessing, shouldStop, listening>>
      /\ UNCHANGED <<stops, stopsAtClose, isDropped, promised, requests, subscribed, connection>>
      /\ inbound # <<>> /\ inbound' = Tail(inbound) /\ queue' = Append(queue, Head(inbound))
      /\ immediates' = Append(immediates, Process)
  BY DEF Receive, subscription, flags, server, program, seen
<1>2. queue \in Seq(M) /\ inbound \in Seq(M) /\ immediates \in Seq(Tasks)
  BY TypedFacts
<1>3. OneControl' /\ InPhase'
  <2>1. Coming' = Coming
    BY ComingReceived
  <2> QED BY <1>1, <2>1, NoControlAdded DEF Protocol
<1>4. Flags'
  <2>1. ASSUME NEW i \in DOMAIN immediates', immediates'[i] = EmitDropped
        PROVE  \E j \in DOMAIN immediates : immediates[j] = EmitDropped
    BY <1>1, <1>2, <2>1, Types
  <2> QED BY <1>1, <2>1, FlagsStay DEF Protocol
<1>5. Closing'
  <2>1. /\ Head(inbound) \in M /\ Head(inbound).type \notin {"Subscribe", "CloseConnection"}
        /\ \A i \in DOMAIN inbound' : inbound'[i].type \notin {"Subscribe", "CloseConnection"}
    <3>1. 1 \in DOMAIN inbound /\ Head(inbound) = inbound[1] /\ Head(inbound) \in M
      BY <1>1, <1>2
    <3>2. \A i \in DOMAIN inbound' : i + 1 \in DOMAIN inbound /\ inbound'[i] = inbound[i + 1]
      BY <1>1, <1>2
    <3> QED BY <3>1, <3>2 DEF Protocol, Closing
  <2>2. connection = "Connected"
    BY <1>1 DEF Protocol, Closing
  <2>3. /\ \A i \in DOMAIN queue' : queue'[i].type = "CloseConnection" => stopsAtClose' # -1
        /\ \A i \in DOMAIN queue' : queue'[i].type = "Subscribe" =>
               /\ ~listening'
               /\ connection' # "Connected" \/ (\E j \in 1..(i - 1) : queue'[j].type = "CloseConnection") =>
                      stopsAtClose' = 0
    BY <1>1, <1>2, <2>1, <2>2, ClosingAppended, SMTT(30) DEF Protocol, Closing
  <2> QED BY <1>1, <2>1, <2>2, <2>3 DEF Protocol, Closing, OnlyEarlyCloseThrows
<1> QED
  BY <1>3, <1>4, <1>5 DEF Protocol

\* The program calls stop()
LEMMA StopProtocol ==
    ASSUME NEW M, Typed(M), Protocol, Stop
    PROVE  Protocol'
<1>1. /\ UNCHANGED <<pass, liveSub, lives, liveQueue, allowProcessing, listening, queue, inbound>>
      /\ UNCHANGED <<stopsAtClose, isDropped, promised, requests, subscribed, connection>>
      /\ shouldStop' = TRUE /\ stops' = stops + 1 /\ connection # "Crashed"
      /\ immediates' = Append(immediates, StopTask)
  BY DEF Stop, MayStop, wire, server, seen
<1>2. immediates \in Seq(Tasks) /\ stops \in Nat
  BY TypedFacts
<1>3. OneControl' /\ InPhase'
  <2>1. Coming' = Coming
    BY <1>1 DEF Coming
  <2> QED BY <1>1, <2>1, NoControlAdded DEF Protocol
<1>4. Flags'
  <2>1. ASSUME NEW i \in DOMAIN immediates', immediates'[i] = EmitDropped
        PROVE  (\E j \in DOMAIN immediates : immediates[j] = EmitDropped) \/ StopTask = EmitDropped
    BY <1>1, <1>2, <2>1
  <2>2. StopTask = EmitDropped => ~liveSub
    BY Types DEF StopTask
  <2> QED BY <1>1, <2>1, <2>2 DEF Protocol, Flags
<1>5. Closing'
  <2>1. stops' > 0
    BY <1>1, <1>2
  <2> QED BY <1>1, <2>1 DEF Protocol, Closing, OnlyEarlyCloseThrows
<1> QED
  BY <1>3, <1>4, <1>5 DEF Protocol

\* and close().
LEMMA CloseProtocol ==
    ASSUME NEW M, Vocabulary(M), Typed(M), Protocol, Close
    PROVE  Protocol'
<1>1. /\ UNCHANGED <<pass, liveSub, lives, liveQueue, allowProcessing, shouldStop, listening>>
      /\ UNCHANGED <<stops, isDropped, promised, requests, inbound, subscribed, connection>>
      /\ connection = "Connected" /\ stopsAtClose = -1 /\ stopsAtClose' = stops
      /\ queue' = Append(queue, CloseConnection)
      /\ immediates' = Append(immediates, Process)
  BY DEF Close, subscription, flags, wire, server, seen
<1>2. /\ queue \in Seq(M) /\ immediates \in Seq(Tasks) /\ stops \in Nat
      /\ CloseConnection \in M
  BY TypedFacts DEF Vocabulary
<1>3. OneControl' /\ InPhase'
  BY <1>1, <1>2, NoControlAdded, NoControl DEF Protocol
<1>4. Flags'
  <2>1. ASSUME NEW i \in DOMAIN immediates', immediates'[i] = EmitDropped
        PROVE  \E j \in DOMAIN immediates : immediates[j] = EmitDropped
    BY <1>1, <1>2, <2>1, Types
  <2> QED BY <1>1, <2>1, FlagsStay DEF Protocol
<1>5. Closing'
  <2>1. stopsAtClose' # -1
    BY <1>1, <1>2
  <2>2. \A i \in DOMAIN queue' : \/ i \in DOMAIN queue /\ queue'[i] = queue[i] /\ i \in Nat
                                 \/ queue'[i] = CloseConnection
    BY <1>1, <1>2
  <2>3. ASSUME NEW i \in DOMAIN queue', queue'[i].type = "Subscribe"
        PROVE  /\ ~listening'
               /\ \A j \in 1..(i - 1) : queue'[j].type # "CloseConnection"
    <3>1. i \in DOMAIN queue /\ queue[i].type = "Subscribe"
      BY <2>2, <2>3, Types
    <3>2. \A j \in 1..(i - 1) : j \in DOMAIN queue /\ queue'[j] = queue[j]
      BY <1>1, <1>2, <3>1
    <3> QED BY <1>1, <3>1, <3>2 DEF Protocol, Closing
  <2> QED BY <1>1, <2>1, <2>3 DEF Protocol, Closing, OnlyEarlyCloseThrows
<1> QED
  BY <1>3, <1>4, <1>5 DEF Protocol

\* What the server sends is not what only the client enqueues.
LEMMA ClosingSent ==
    ASSUME NEW M, Typed(M), Closing, connection = "Connected",
           UNCHANGED <<queue, listening, lives, shouldStop, stops, stopsAtClose, connection>>,
           NEW s \in Seq(M), \A i \in DOMAIN s : s[i].type \notin {"Subscribe", "CloseConnection"},
           inbound' = inbound \o s
    PROVE  Closing'
<1>1. inbound \in Seq(M)
  BY TypedFacts
<1>2. /\ Len(inbound) \in Nat /\ Len(s) \in Nat /\ DOMAIN s = 1..Len(s)
      /\ DOMAIN inbound = 1..Len(inbound)
      /\ DOMAIN inbound' = 1..(Len(inbound) + Len(s))
      /\ \A i \in 1..Len(inbound) : inbound'[i] = inbound[i]
      /\ \A i \in 1..Len(s) : inbound'[Len(inbound) + i] = s[i]
  BY <1>1
<1>3. ASSUME NEW i \in DOMAIN inbound'
      PROVE  inbound'[i].type \notin {"Subscribe", "CloseConnection"}
  <2>1. CASE i <= Len(inbound)
    BY <1>2, <2>1 DEF Closing
  <2>2. CASE i > Len(inbound)
    <3>1. PICK k \in 1..Len(s) : i = Len(inbound) + k
      <4>1. i - Len(inbound) \in 1..Len(s) /\ i = Len(inbound) + (i - Len(inbound))
        BY <1>2, <2>2
      <4> QED BY <4>1
    <3> QED BY <1>2, <3>1
  <2> QED BY <1>2, <2>1, <2>2
<1> QED
  BY <1>3 DEF Closing, OnlyEarlyCloseThrows

\* The server answers a request.
LEMMA AnswerProtocol ==
    ASSUME NEW M, Typed(M), Protocol, NEW request, NEW package \in M, Answer(request, package),
           package.type \notin {"Subscribe", "CloseConnection"},
           \/ ~Control(package)
           \/ Reading(package) /\ ~Subscribing(package) /\ Reading(request)
           \/ Subscribing(package) /\ ~Reading(package) /\ Subscribing(request)
    PROVE  Protocol'
<1>1. /\ UNCHANGED <<pass, liveSub, lives, liveQueue, allowProcessing, shouldStop, listening>>
      /\ UNCHANGED <<stops, stopsAtClose, isDropped, promised, connection, queue, immediates>>
      /\ request \in requests /\ requests' = requests \ {request}
      /\ inbound' = Append(inbound, package)
  BY DEF Answer, subscription, flags, node, program, seen
<1>2. /\ <<package>> \in Seq(M) /\ DOMAIN <<package>> = {1} /\ <<package>>[1] = package
      /\ inbound' = inbound \o <<package>>
  <2>1. inbound \in Seq(M)
    BY TypedFacts
  <2> QED BY <1>1, <2>1
<1>3. OneControl' /\ InPhase'
  <2>1. CASE Control(request)
    BY <1>1, <2>1, ControlAnswered DEF Protocol
  <2>2. CASE ~Control(request)
    <3>1. \A i \in DOMAIN <<package>> : ~Control(<<package>>[i])
      BY <1>2, <2>2 DEF Control
    <3>2. \E s \in Seq(M) : (\A i \in DOMAIN s : ~Control(s[i])) /\ inbound' = inbound \o s
      BY <1>2, <3>1
    <3> QED BY <1>1, <3>2, NoControlAdded DEF Protocol
  <2> QED BY <2>1, <2>2
<1>4. Flags'
  BY <1>1, FlagsStay DEF Protocol
<1>5. Closing'
  <2>1. connection = "Connected"
    BY <1>1 DEF Protocol, Closing
  <2>2. \A i \in DOMAIN <<package>> : <<package>>[i].type \notin {"Subscribe", "CloseConnection"}
    BY <1>2
  <2> QED BY <1>1, <1>2, <2>1, <2>2, ClosingSent DEF Protocol
<1> QED
  BY <1>3, <1>4, <1>5 DEF Protocol

\* It sends what nothing was asked for.
LEMMA PushProtocol ==
    ASSUME NEW M, Typed(M), Protocol, connection = "Connected",
           UNCHANGED <<subscription, node, requests, program, seen>>,
           NEW s \in Seq(M), \A i \in DOMAIN s : ~Control(s[i]) /\ s[i].type # "CloseConnection",
           inbound' = inbound \o s
    PROVE  Protocol'
<1>1. /\ UNCHANGED <<pass, liveSub, lives, liveQueue, allowProcessing, shouldStop, listening>>
      /\ UNCHANGED <<stops, stopsAtClose, isDropped, promised, connection, queue, immediates, requests>>
  BY DEF subscription, flags, node, program, seen
<1>2. OneControl' /\ InPhase'
  BY <1>1, NoControlAdded DEF Protocol
<1>3. Flags'
  BY <1>1, FlagsStay DEF Protocol
<1>4. \A i \in DOMAIN s : s[i].type \notin {"Subscribe", "CloseConnection"}
  BY DEF Control, Subscribing
<1>5. Closing'
  BY <1>1, <1>4, ClosingSent DEF Protocol
<1> QED
  BY <1>2, <1>3, <1>5 DEF Protocol

\* A read fails.
LEMMA FailReadProtocol ==
    ASSUME NEW M, Vocabulary(M), Typed(M), Protocol, FailRead
    PROVE  Protocol'
<1>1. PICK request \in requests : request.type = "Read" /\ Answer(request, Failure)
  BY DEF FailRead
<1>2. /\ Failure \in M /\ Reading(Failure) /\ ~Subscribing(Failure) /\ Reading(request)
      /\ Failure.type \notin {"Subscribe", "CloseConnection"}
  BY <1>1, Types DEF Vocabulary, Reading, Subscribing
<1> QED
  BY <1>1, <1>2, AnswerProtocol

\* The subscription is confirmed,
LEMMA ConfirmProtocol ==
    ASSUME NEW M, Typed(M), Protocol, NEW last, Confirmed(last) \in M, ConfirmWith(last)
    PROVE  Protocol'
<1>1. Answer(Subscribe, Confirmed(last))
  BY DEF ConfirmWith
<1>2. /\ Subscribing(Confirmed(last)) /\ ~Reading(Confirmed(last)) /\ Subscribing(Subscribe)
      /\ Confirmed(last).type \notin {"Subscribe", "CloseConnection"}
  BY Types DEF Reading, Subscribing
<1> QED
  BY <1>1, <1>2, AnswerProtocol

\* dropped
LEMMA DropProtocol ==
    ASSUME NEW M, Vocabulary(M), Typed(M), Protocol, Drop
    PROVE  Protocol'
<1>1. /\ Dropped \in M /\ ~Control(Dropped)
      /\ Dropped.type \notin {"Subscribe", "CloseConnection"}
  BY NoControl, Types DEF Vocabulary
<1>2. CASE Answer(Unsubscribe, Dropped) \/ Answer(Subscribe, Dropped)
  BY <1>1, <1>2, AnswerProtocol
<1>3. CASE /\ subscribed /\ inbound' = Append(inbound, Dropped)
           /\ UNCHANGED <<subscription, node, requests, program, seen>>
  <2>1. connection = "Connected"
    BY <1>3 DEF Protocol, Closing
  <2>2. /\ <<Dropped>> \in Seq(M) /\ inbound' = inbound \o <<Dropped>>
        /\ \A i \in DOMAIN <<Dropped>> : <<Dropped>>[i] = Dropped
    <3>1. inbound \in Seq(M)
      BY TypedFacts
    <3> QED BY <1>1, <1>3, <3>1
  <2>3. \A i \in DOMAIN <<Dropped>> : ~Control(<<Dropped>>[i]) /\ <<Dropped>>[i].type # "CloseConnection"
    BY <1>1, <2>2
  <2> QED BY <1>3, <2>1, <2>2, <2>3, PushProtocol
<1> QED
  BY <1>2, <1>3 DEF Drop

\* and told of new events.
LEMMA WriteProtocol ==
    ASSUME NEW M, Vocabulary(M), Typed(M), Protocol, NEW n \in (written + 1)..MaxEvents, WriteUpTo(n)
    PROVE  Protocol'
<1> DEFINE pushed == [i \in 1..(n - written) |-> Event(written + i - 1)]
<1>1. written \in Nat /\ MaxEvents \in Nat /\ n \in Nat
  BY TypedFacts, ConstantsAssumption, SMTT(30)
<1>2. pushed \in [1..(n - written) -> M] /\ n - written \in Nat
  <2>1. \A i \in 1..(n - written) : written + i - 1 \in Events
    BY <1>1 DEF Events
  <2>2. \A i \in 1..(n - written) : Event(written + i - 1) \in M
    BY <2>1 DEF Vocabulary
  <2>3. n - written \in Nat
    BY <1>1
  <2> QED BY <2>2, <2>3
<1>3. /\ pushed \in Seq(M) /\ <<>> \in Seq(M) /\ DOMAIN <<>> = {}
      /\ \A i \in DOMAIN pushed : ~Control(pushed[i]) /\ pushed[i].type # "CloseConnection"
  <2>1. pushed \in Seq(M)
    BY <1>2, IsSequence
  <2>2. \A i \in DOMAIN pushed : pushed[i] = Event(written + i - 1)
    OBVIOUS
  <2> QED BY <2>1, <2>2, NoControl, Types
<1>4. /\ inbound' = inbound \o pushed \/ inbound' = inbound
      /\ connection = "Connected" /\ UNCHANGED <<subscription, node, requests, program, seen>>
  BY DEF WriteUpTo
<1> HIDE DEF pushed
<1>5. \/ inbound' = inbound \o pushed
      \/ inbound' = inbound \o <<>>
  BY <1>4, TypedFacts, SMTT(30)
<1> QED
  BY <1>3, <1>4, <1>5, PushProtocol

\* What the queue holds after its first message.
LEMMA ClosingTail ==
    ASSUME NEW M, Typed(M), Closing, queue # <<>>,
           UNCHANGED <<connection, stopsAtClose, listening>>
    PROVE  /\ Tail(queue) \in Seq(M)
           /\ \A i \in DOMAIN Tail(queue) : Tail(queue)[i].type = "CloseConnection" => stopsAtClose' # -1
           /\ \A i \in DOMAIN Tail(queue) : Tail(queue)[i].type = "Subscribe" =>
                  /\ ~listening'
                  /\ \/ connection' # "Connected"
                     \/ \E j \in 1..(i - 1) : Tail(queue)[j].type = "CloseConnection"
                     => stopsAtClose' = 0
<1>1. queue \in Seq(M)
  BY TypedFacts
<1> DEFINE q == Tail(queue)
<1>2. q \in Seq(M) /\ \A i \in DOMAIN q : i + 1 \in DOMAIN queue /\ q[i] = queue[i + 1] /\ i \in Nat
  BY <1>1
<1>3. \A i \in DOMAIN q : \A j \in 1..(i - 1) : j \in DOMAIN q /\ j + 1 \in 1..((i + 1) - 1)
  BY <1>2
<1> HIDE DEF q
<1>4. ASSUME NEW i \in DOMAIN q, q[i].type = "Subscribe"
      PROVE  /\ ~listening'
             /\ \/ connection' # "Connected"
                \/ \E j \in 1..(i - 1) : q[j].type = "CloseConnection"
                => stopsAtClose' = 0
  <2>1. i + 1 \in DOMAIN queue /\ queue[i + 1].type = "Subscribe"
    BY <1>2, <1>4
  <2>2. ASSUME NEW j \in 1..(i - 1), q[j].type = "CloseConnection"
        PROVE  \E k \in 1..((i + 1) - 1) : queue[k].type = "CloseConnection"
    BY <1>2, <1>3, <2>2
  <2> QED BY <2>1, <2>2 DEF Closing
<1>5. \A i \in DOMAIN q : q[i].type = "CloseConnection" => stopsAtClose' # -1
  BY <1>2 DEF Closing
<1> QED
  BY <1>2, <1>4, <1>5 DEF q

\* One message is handled, another one that is neither a subscription nor a close enqueued.
LEMMA ClosingFollowed ==
    ASSUME NEW M, Typed(M), Closing, queue # <<>>,
           UNCHANGED <<stopsAtClose, subscribed, inbound, connection, requests, shouldStop, stops, listening>>,
           connection # "Crashed",
           NEW x \in M, queue' = Tail(queue) \o <<x>>, x.type # "CloseConnection",
           x.type = "Subscribe" => pass = "first" /\ ~shouldStop /\ ~listening
    PROVE  Closing'
<1>1. Tail(queue) \in Seq(M) /\ queue' = Append(Tail(queue), x)
  BY TypedFacts
<1>2. \A i \in DOMAIN Tail(queue) : Tail(queue)[i].type = "CloseConnection" => stopsAtClose' # -1
  BY ClosingTail
<1>3. x.type = "Subscribe" => (stopsAtClose' # -1 => stopsAtClose' = 0)
  <2>1. stops \in Nat /\ stopsAtClose \in -1..stops
    BY TypedFacts
  <2>2. ~shouldStop => stops = 0
    BY <2>1 DEF Closing
  <2> QED BY <2>1, <2>2
<1>4. connection' # "Connected" => stopsAtClose' # -1
  BY DEF Closing
<1>5. /\ \A i \in DOMAIN queue' : queue'[i].type = "CloseConnection" => stopsAtClose' # -1
      /\ \A i \in DOMAIN queue' : queue'[i].type = "Subscribe" =>
             /\ ~listening'
             /\ connection' # "Connected" \/ (\E j \in 1..(i - 1) : queue'[j].type = "CloseConnection") =>
                    stopsAtClose' = 0
  <2> DEFINE q == Tail(queue)
  <2>1. \A i \in DOMAIN q : q[i].type = "Subscribe" =>
            /\ ~listening'
            /\ connection' # "Connected" \/ (\E j \in 1..(i - 1) : q[j].type = "CloseConnection") =>
                   stopsAtClose' = 0
    BY ClosingTail
  <2>2. q \in Seq(M) /\ queue' = Append(q, x)
    BY <1>1
  <2>3. \A i \in DOMAIN q : q[i].type = "CloseConnection" => stopsAtClose' # -1
    BY <1>2
  <2>4. x.type = "Subscribe" => /\ ~listening'
                                /\ connection' # "Connected" => stopsAtClose' = 0
                                /\ (\E j \in DOMAIN q : q[j].type = "CloseConnection") => stopsAtClose' = 0
    BY <1>2, <1>3, <1>4
  <2> HIDE DEF q
  <2> QED BY <2>1, <2>2, <2>3, <2>4, ClosingAppended
<1> QED
  BY <1>5 DEF Closing, OnlyEarlyCloseThrows

\* A pass is over.
LEMMA PassDoneProtocol ==
    ASSUME NEW M, Vocabulary(M), Typed(M), Protocol, queue # <<>>, immediates # <<>>,
           Reading(Head(queue)), connection # "Crashed",
           NEW tasks \in Seq(Tasks), \A i \in DOMAIN tasks : tasks[i] # EmitDropped,
           PassDone(tasks),
           UNCHANGED <<isDropped, connection, listening, wire, server, stopsAtClose>>,
           promised' = promised \/ (pass = "second" /\ promised' # -1)
    PROVE  Protocol'
<1>1. /\ UNCHANGED <<isDropped, connection, listening, inbound, requests, subscribed, stopsAtClose>>
      /\ Control(Head(queue)) /\ Subscribe \in M
  BY DEF wire, server, Control, Vocabulary
<1>2. CASE FirstPassDone(tasks) /\ shouldStop
  <2>1. /\ Schedules(tasks, <<>>) /\ pass = "first" /\ pass' = "none"
        /\ UNCHANGED <<liveSub, shouldStop, liveQueue, allowProcessing, stops, lives, promised>>
    BY <1>2 DEF FirstPassDone
  <2>2. /\ queue' = Tail(queue)
        /\ (\E i \in DOMAIN immediates' : immediates'[i] = EmitDropped) =>
               \E i \in DOMAIN immediates : immediates[i] = EmitDropped
    BY <2>1, OnlyHandled
  <2>3. OneControl' /\ InPhase'
    BY <1>1, <2>2, ControlHandled DEF Protocol
  <2>4. Flags'
    BY <1>1, <2>1, <2>2 DEF Protocol, Flags
  <2>5. Closing'
    BY <1>1, <2>1, <2>2, ClosingHandled DEF Protocol
  <2> QED BY <2>3, <2>4, <2>5 DEF Protocol
<1>3. CASE FirstPassDone(tasks) /\ ~shouldStop
  <2>1. /\ Schedules(tasks, <<Subscribe>>) /\ pass = "first" /\ pass' = "none" /\ liveSub' = TRUE
        /\ UNCHANGED <<shouldStop, liveQueue, allowProcessing, stops, lives, promised>>
    BY <1>3 DEF FirstPassDone
  <2>2. /\ queue' = Tail(queue) \o <<Subscribe>>
        /\ (\E i \in DOMAIN immediates' : immediates'[i] = EmitDropped) =>
               \E i \in DOMAIN immediates : immediates[i] = EmitDropped
    <3>1. <<Subscribe>> \in Seq(M)
      BY <1>1
    <3> QED BY <2>1, <3>1, ScheduledTasks, Types DEF Schedules
  <2>3. lives = 0 /\ ~liveSub /\ ~listening
    BY <2>1 DEF Protocol, Flags
  <2>4. OfPhase(Subscribe)'
    BY <2>1, <2>3, Types DEF OfPhase, Reading
  <2>5. OneControl' /\ InPhase'
    BY <1>1, <2>2, <2>4, ControlHandled DEF Protocol
  <2>6. Flags'
    BY <1>1, <1>3, <2>1, <2>2 DEF Protocol, Flags
  <2>7. Closing'
    BY <1>1, <1>3, <2>1, <2>2, <2>3, Types, ClosingFollowed DEF Protocol
  <2> QED BY <2>5, <2>6, <2>7 DEF Protocol
<1>4. CASE SecondPassDone(tasks)
  <2>1. /\ pass = "second" /\ pass' = "none" /\ lives' = lives + 1
        /\ allowProcessing' = TRUE /\ liveQueue' = <<>> /\ UNCHANGED liveSub
    BY <1>4 DEF SecondPassDone
  <2>2. lives = 0 /\ liveSub /\ \A i \in DOMAIN immediates : immediates[i] # EmitDropped
    BY <2>1 DEF Protocol, Flags
  <2>3. /\ Tries(liveQueue) \in Seq(Tasks) /\ <<StopTask>> \in Seq(Tasks)
        /\ \A i \in DOMAIN Tries(liveQueue) : Tries(liveQueue)[i] # EmitDropped
        /\ \A i \in DOMAIN <<StopTask>> : <<StopTask>>[i] # EmitDropped
    <3>1. liveQueue \in Seq(Events)
      BY TypedFacts
    <3>2. \A i \in DOMAIN liveQueue : liveQueue[i] \in Events
      BY <3>1
    <3>3. /\ Tries(liveQueue) \in Seq(Tasks)
          /\ \A i \in DOMAIN Tries(liveQueue) : Tries(liveQueue)[i] # EmitDropped
      BY <3>1, <3>2, TriesType, Types DEF Tries
    <3>4. StopTask # EmitDropped /\ StopTask \in Tasks
      BY <2>2, Types, TaskKinds DEF StopTask
    <3> QED BY <3>3, <3>4
  <2> DEFINE live == Tries(liveQueue)
             stopping == <<StopTask>>
  <2> HIDE DEF live, stopping
  <2>4. /\ tasks \o live \in Seq(Tasks)
        /\ \A i \in DOMAIN (tasks \o live) : (tasks \o live)[i] # EmitDropped
    BY <2>3, NoneJoined DEF live
  <2>5. /\ tasks \o stopping \o live \in Seq(Tasks)
        /\ \A i \in DOMAIN (tasks \o stopping \o live) : (tasks \o stopping \o live)[i] # EmitDropped
    <3>1. /\ tasks \o stopping \in Seq(Tasks)
          /\ \A i \in DOMAIN (tasks \o stopping) : (tasks \o stopping)[i] # EmitDropped
      BY <2>3, NoneJoined DEF stopping
    <3> QED BY <2>3, <3>1, NoneJoined DEF live
  <2>6. PICK all \in Seq(Tasks) : Schedules(all, <<>>) /\ \A i \in DOMAIN all : all[i] # EmitDropped
    <3>1. Schedules(tasks \o live, <<>>) \/ Schedules(tasks \o stopping \o live, <<>>)
      BY <1>4 DEF SecondPassDone, live, stopping
    <3> QED BY <2>4, <2>5, <3>1
  <2>7. /\ queue' = Tail(queue)
        /\ ~ \E i \in DOMAIN immediates' : immediates'[i] = EmitDropped
    BY <2>2, <2>6, OnlyHandled
  <2>8. \/ UNCHANGED <<stops, shouldStop>>
        \/ shouldStop' = TRUE /\ stops' = stops + 1
    BY <1>4 DEF SecondPassDone
  <2>9. OneControl' /\ InPhase'
    BY <1>1, <2>7, ControlHandled DEF Protocol
  <2>10. Flags'
    <3>1. lives' = 1
      BY <2>1, <2>2
    <3>2. isDropped' => promised' # -1
      BY <1>1 DEF Protocol, Flags
    <3> QED BY <2>1, <2>2, <2>7, <3>1, <3>2 DEF Flags
  <2>11. Closing'
    <3>1. shouldStop' <=> stops' > 0
      <4>1. stops \in Nat
        BY TypedFacts
      <4> QED BY <2>8, <4>1 DEF Protocol, Closing
    <3>2. /\ \A i \in DOMAIN queue' : queue'[i].type = "CloseConnection" => stopsAtClose' # -1
          /\ \A i \in DOMAIN queue' : queue'[i].type = "Subscribe" =>
                 /\ ~listening'
                 /\ connection' # "Connected" \/ (\E j \in 1..(i - 1) : queue'[j].type = "CloseConnection") =>
                        stopsAtClose' = 0
      BY <1>1, <2>7, ClosingTail DEF Protocol
    <3> QED BY <1>1, <3>1, <3>2 DEF Protocol, Closing, OnlyEarlyCloseThrows
  <2> QED BY <2>9, <2>10, <2>11 DEF Protocol
<1> QED
  BY <1>2, <1>3, <1>4 DEF PassDone

\* A page is handled.
LEMMA HandlePageProtocol ==
    ASSUME NEW M, Vocabulary(M), Typed(M), Protocol, \A m \in M : m.type = "Page" => Read(m.next) \in M,
           NEW done, HandlePageUntil(done)
    PROVE  Protocol'
<1>1. /\ queue # <<>> /\ immediates # <<>> /\ Head(queue) \in M /\ Head(queue).type = "Page"
      /\ connection = "Connected"
  BY DispatchFacts DEF HandlePageUntil, Dispatch
<1>2. /\ UNCHANGED <<isDropped, connection, listening, wire, server, stopsAtClose, promised>>
      /\ UNCHANGED <<inbound, requests, subscribed>>
  BY DEF HandlePageUntil, wire, server
<1>3. Reading(Head(queue)) /\ Control(Head(queue))
  BY <1>1 DEF Reading, Control
<1>4. /\ Head(queue).events \in Seq(Events) /\ Read(Head(queue).next) \in M
      /\ <<Read(Head(queue).next)>> \in Seq(M)
  BY <1>1 DEF Vocabulary
<1> DEFINE tries == Tries(Head(queue).events)
<1>5. tries \in Seq(Tasks) /\ \A i \in DOMAIN tries : tries[i] # EmitDropped
  <2>1. \A i \in DOMAIN Head(queue).events : Head(queue).events[i] \in Events
    BY <1>4
  <2> QED BY <1>4, <2>1, TriesType, Types DEF Tries
<1>6. <<>> \in Seq(Tasks) /\ DOMAIN <<>> = {}
  OBVIOUS
<1>7. CASE PassDone(<<>>)
  <2>1. \A i \in DOMAIN <<>> : <<>>[i] # EmitDropped
    BY <1>6
  <2> QED BY <1>1, <1>2, <1>3, <1>6, <1>7, <2>1, PassDoneProtocol
<1>8. CASE PassDone(tries)
  <2> HIDE DEF tries
  <2> QED BY <1>1, <1>2, <1>3, <1>5, <1>8, PassDoneProtocol
<1>9. CASE /\ Schedules(tries, <<Read(Head(queue).next)>>)
           /\ UNCHANGED <<pass, liveSub, shouldStop, liveQueue, allowProcessing, stops, lives>>
  <2> HIDE DEF tries
  <2>1. /\ queue' = Tail(queue) \o <<Read(Head(queue).next)>>
        /\ (\E i \in DOMAIN immediates' : immediates'[i] = EmitDropped) =>
               \E i \in DOMAIN immediates : immediates[i] = EmitDropped
    BY <1>1, <1>4, <1>5, <1>9, ScheduledTasks, Types DEF Schedules
  <2>2. pass # "none"
    <3>1. 1 \in DOMAIN Coming /\ Coming[1] = Head(queue)
      <4>1. queue \in Seq(M) /\ inbound \in Seq(M)
        BY TypedFacts
      <4> QED BY <1>1, <4>1 DEF Coming
    <3> QED BY <1>3, <3>1 DEF Protocol, InPhase, OfPhase
  <2>3. OfPhase(Read(Head(queue).next))'
    BY <1>9, <2>2, Types DEF OfPhase, Subscribing
  <2>4. OneControl' /\ InPhase'
    <3>1. PICK x \in M : x = Read(Head(queue).next)
      BY <1>4
    <3>2. queue' = Tail(queue) \o <<x>> /\ OfPhase(x)'
      <4>1. pass' = pass
        BY <1>9
      <4> QED BY <2>1, <2>2, <3>1, <4>1, Types DEF OfPhase, Subscribing
    <3> QED BY <1>1, <1>2, <1>3, <3>2, ControlHandled DEF Protocol
  <2>5. Flags'
    BY <1>2, <1>9, <2>1, FlagsStay DEF Protocol
  <2>6. Closing'
    BY <1>1, <1>2, <1>4, <1>9, <2>1, Types, ClosingFollowed DEF Protocol
  <2> QED BY <2>4, <2>5, <2>6 DEF Protocol
<1> QED
  BY <1>7, <1>8, <1>9 DEF HandlePageUntil

\* A read has failed.
LEMMA HandleFailureProtocol ==
    ASSUME NEW M, Vocabulary(M), Typed(M), Protocol, HandleFailure
    PROVE  Protocol'
<1>1. /\ queue # <<>> /\ immediates # <<>> /\ Head(queue).type \in {"Failure", "Read"}
      /\ connection # "Crashed"
  BY DispatchFacts DEF HandleFailure, Dispatch
<1>2. /\ UNCHANGED <<isDropped, connection, listening, wire, server, stopsAtClose>>
      /\ PassDone(<<>>)
  BY DEF HandleFailure
<1>3. Reading(Head(queue))
  BY <1>1 DEF Reading
<1>4. <<>> \in Seq(Tasks) /\ \A i \in DOMAIN <<>> : <<>>[i] # EmitDropped
  OBVIOUS
<1>5. promised' = promised \/ (pass = "second" /\ promised' # -1)
  BY TypedFacts DEF HandleFailure, EndPromise
<1> QED
  BY <1>1, <1>2, <1>3, <1>4, <1>5, PassDoneProtocol

\* There is no stream to read.
LEMMA HandleNothingProtocol ==
    ASSUME NEW M, Vocabulary(M), Typed(M), Protocol, Dispatch("NoStream"), PassDone(<<>>),
           UNCHANGED <<isDropped, connection, listening, wire, server, stopsAtClose, promised>>
    PROVE  Protocol'
<1>1. /\ queue # <<>> /\ immediates # <<>> /\ Head(queue).type = "NoStream"
      /\ connection # "Crashed"
  BY DispatchFacts DEF Dispatch
<1>2. Reading(Head(queue))
  BY <1>1 DEF Reading
<1>3. <<>> \in Seq(Tasks) /\ \A i \in DOMAIN <<>> : <<>>[i] # EmitDropped
  OBVIOUS
<1> QED
  BY <1>1, <1>2, <1>3, PassDoneProtocol

\* The subscription has been confirmed.
LEMMA HandleConfirmedProtocol ==
    ASSUME NEW M, Vocabulary(M), Typed(M), Protocol, NEW until, NEW at, Read(at) \in M,
           HandleConfirmedBy(until, Read(at))
    PROVE  Protocol'
<1>1. /\ queue # <<>> /\ immediates # <<>> /\ Head(queue).type = "Confirmed"
      /\ connection = "Connected"
  BY DispatchFacts DEF HandleConfirmedBy, Dispatch
<1>2. /\ UNCHANGED <<liveSub, isDropped, shouldStop, liveQueue, allowProcessing, lives, promised>>
      /\ UNCHANGED <<connection, listening, inbound, requests, subscribed, stops, stopsAtClose>>
      /\ pass' = "second"
  BY DEF HandleConfirmedBy, wire, server, program, seen
<1>3. pass = "none" /\ liveSub /\ lives = 0
  <2>1. 1 \in DOMAIN Coming /\ Coming[1] = Head(queue)
    <3>1. queue \in Seq(M) /\ inbound \in Seq(M)
      BY TypedFacts
    <3> QED BY <1>1, <3>1 DEF Coming
  <2> QED BY <1>1, <2>1 DEF Protocol, InPhase, OfPhase, Subscribing
<1>4. /\ queue' = Tail(queue) \o <<Read(at)>>
      /\ (\E i \in DOMAIN immediates' : immediates'[i] = EmitDropped) =>
             \E i \in DOMAIN immediates : immediates[i] = EmitDropped
  <2>1. Schedules(<<>>, <<Read(at)>>)
    BY DEF HandleConfirmedBy
  <2>2. <<>> \in Seq(Tasks) /\ <<Read(at)>> \in Seq(M) /\ DOMAIN <<>> = {}
    OBVIOUS
  <2>3. (\E i \in DOMAIN immediates' : immediates'[i] = EmitDropped) =>
             \/ \E i \in DOMAIN immediates : immediates[i] = EmitDropped
             \/ \E i \in DOMAIN <<>> : <<>>[i] = EmitDropped
    BY <1>1, <2>1, <2>2, ScheduledTasks, Types
  <2> QED BY <2>1, <2>2, <2>3 DEF Schedules
<1>5. OfPhase(Read(at))'
  BY <1>2, Types DEF OfPhase, Subscribing
<1>6. OneControl' /\ InPhase'
  <2>1. Control(Head(queue))
    BY <1>1 DEF Control, Subscribing
  <2>2. PICK x \in M : x = Read(at)
    OBVIOUS
  <2>3. queue' = Tail(queue) \o <<x>> /\ OfPhase(x)'
    BY <1>2, <1>4, <2>2, Types DEF OfPhase, Subscribing
  <2> QED BY <1>1, <1>2, <2>1, <2>3, ControlHandled DEF Protocol
<1>7. Flags'
  BY <1>2, <1>3, <1>4 DEF Protocol, Flags
<1>8. Closing'
  BY <1>1, <1>2, <1>4, Types, ClosingFollowed DEF Protocol
<1> QED
  BY <1>6, <1>7, <1>8 DEF Protocol

\* All that does not depend on what is read.
LEMMA SharedNextProtocol ==
    ASSUME NEW M, Vocabulary(M), Typed(M), Protocol, SharedNext
    PROVE  Protocol'
<1>1. CASE SharedImmediate
  BY <1>1, ImmediateProtocol, SendRequestProtocol, HandleFailureProtocol, HandleEventProtocol,
     HandleDroppedProtocol, HandleCloseProtocol, ThrowClosedProtocol, IgnorePackageProtocol
     DEF SharedImmediate
<1> QED
  BY <1>1, ReceiveProtocol, FailReadProtocol, DropProtocol, StopProtocol, CloseProtocol
     DEF SharedNext

\* Steps that change nothing.
LEMMA StutterProtocol ==
    ASSUME Protocol, UNCHANGED vars
    PROVE  Protocol'
<1>1. /\ UNCHANGED <<pass, liveSub, lives, liveQueue, allowProcessing, shouldStop, listening>>
      /\ UNCHANGED <<stops, stopsAtClose, isDropped, promised, requests, inbound, subscribed>>
      /\ UNCHANGED <<queue, immediates, connection>>
  BY DEF vars, subscription, flags, node, wire, server, program, seen
<1>2. Coming' = Coming
  BY <1>1 DEF Coming
<1>3. OneControl' /\ InPhase'
  BY <1>1, <1>2 DEF Protocol, OneControl, InPhase, OfPhase
<1>4. Flags' /\ Closing'
  BY <1>1 DEF Protocol, Flags, Closing, OnlyEarlyCloseThrows
<1> QED
  BY <1>3, <1>4 DEF Protocol

\* The beginning.
LEMMA InitProtocol ==
    ASSUME NEW last, NEW at, InitWith(last, Read(at))
    PROVE  Protocol
<1>1. /\ queue = <<Read(at)>> /\ inbound = <<>> /\ requests = {} /\ immediates = <<Process>>
      /\ pass = "first" /\ liveSub = FALSE /\ listening = FALSE /\ lives = 0 /\ liveQueue = <<>>
      /\ allowProcessing = FALSE /\ isDropped = FALSE /\ promised = -1 /\ shouldStop = FALSE
      /\ stops = 0 /\ connection = "Connected"
  BY DEF InitWith
<1>2. Coming = <<Read(at)>> /\ DOMAIN <<Read(at)>> = {1} /\ <<Read(at)>>[1] = Read(at)
  BY <1>1 DEF Coming
<1>3. OneControl /\ InPhase
  BY <1>1, <1>2, Types DEF OneControl, InPhase, OfPhase, Subscribing
<1>4. Flags
  <2>1. \A i \in DOMAIN <<Process>> : <<Process>>[i] # EmitDropped
    BY Types
  <2> QED BY <1>1, <2>1 DEF Flags
<1>5. Closing
  BY <1>1, <1>2, Types DEF Closing, OnlyEarlyCloseThrows
<1> QED
  BY <1>3, <1>4, <1>5 DEF Protocol

\* What the runs check of it.
LEMMA ProtocolGives ==
    ASSUME NEW M, Typed(M), Protocol
    PROVE  LiveQueueDrained /\ OnlyEarlyCloseThrows
<1>1. lives \in {0, 1} /\ (allowProcessing => lives = 1)
  BY DEF Protocol, Flags
<1> QED
  BY <1>1 DEF LiveQueueDrained, Protocol, Flags, Closing

-----------------------------------------------------------------------------
(* Events that wait for their immediate *)

\* The task hands an event on.
IsTry(t) == t.task = "try"

\* Of the events up to n, all that are owed are processed when the tasks s have run,
\* the last one processed being `last'.
ReachedIn(s, last, n) == n <= last \/ \E i \in DOMAIN s : IsTry(s[i]) /\ s[i].evt >= n

\* No task of t, which runs after s, finds an event missing before its own.
Follows(s, last, t) ==
    \A i \in DOMAIN t : IsTry(t[i]) =>
        \/ ReachedIn(s, last, t[i].evt - 1)
        \/ \E j \in 1..(i - 1) : IsTry(t[j]) /\ t[j].evt >= t[i].evt - 1

\* The tasks try the events after the last one without a gap.
Chain(s, last) == Follows(<<>>, last, s)

\* The events of a list of tasks.
LEMMA TaskEvents ==
    /\ \A t \in Tasks : t.evt \in Int /\ (IsTry(t) => t.evt \in Events /\ t.evt \in Nat)
    /\ \A s \in Seq(Tasks) : \A i \in DOMAIN s : s[i] \in Tasks /\ i \in Nat /\ i >= 1
    /\ ~IsTry(Process) /\ ~IsTry(EmitDropped) /\ ~IsTry(EmitUnsubscribe) /\ ~IsTry(StopTask)
    /\ \A n : IsTry(Try(n)) /\ Try(n).evt = n
<1>1. ~IsTry(Process) /\ ~IsTry(EmitDropped) /\ ~IsTry(EmitUnsubscribe) /\ ~IsTry(StopTask)
  BY DEF IsTry, Process, EmitDropped, EmitUnsubscribe, StopTask
<1>2. \A n : IsTry(Try(n)) /\ Try(n).evt = n
  BY DEF IsTry, Try
<1>3. Process.evt = -1 /\ EmitDropped.evt = -1 /\ EmitUnsubscribe.evt = -1
  BY DEF Process, EmitDropped, EmitUnsubscribe
<1>4. \A t \in Tasks : t.evt \in Int /\ (IsTry(t) => t.evt \in Events /\ t.evt \in Nat)
  BY <1>1, <1>2, <1>3 DEF Tasks, Events
<1>5. \A s \in Seq(Tasks) : \A i \in DOMAIN s : s[i] \in Tasks /\ i \in Nat /\ i >= 1
  OBVIOUS
<1> QED
  BY <1>1, <1>2, <1>4, <1>5

\* What holds up to an event holds up to an earlier one.
LEMMA ReachedBefore ==
    ASSUME NEW s \in Seq(Tasks), NEW last \in Int, NEW n \in Int, NEW m \in Int, m <= n,
           ReachedIn(s, last, n)
    PROVE  ReachedIn(s, last, m)
<1>1. CASE n <= last
  BY <1>1 DEF ReachedIn
<1>2. CASE \E i \in DOMAIN s : IsTry(s[i]) /\ s[i].evt >= n
  <2>1. PICK i \in DOMAIN s : IsTry(s[i]) /\ s[i].evt >= n
    BY <1>2
  <2>2. s[i].evt >= m
    BY <2>1, TaskEvents
  <2> QED BY <2>1, <2>2 DEF ReachedIn
<1> QED
  BY <1>1, <1>2 DEF ReachedIn

\* The tries of t are those of s, d places earlier.
Moved(s, t, d) ==
    /\ \A i \in DOMAIN t : IsTry(t[i]) => i + d \in DOMAIN s /\ s[i + d] = t[i]
    /\ \A i \in DOMAIN s : IsTry(s[i]) => i - d \in DOMAIN t /\ t[i - d] = s[i]

\* Nothing is missing, and nothing lost, when tasks that try nothing come and go.
LEMMA MovedChain ==
    ASSUME NEW s \in Seq(Tasks), NEW t \in Seq(Tasks), NEW d \in {0, 1}, Moved(s, t, d),
           NEW last \in Int
    PROVE  /\ Chain(s, last) => Chain(t, last)
           /\ \A n \in Int : ReachedIn(s, last, n) <=> ReachedIn(t, last, n)
<1>1. \A n \in Int : ReachedIn(s, last, n) <=> ReachedIn(t, last, n)
  BY DEF Moved, ReachedIn
<1>2. ASSUME Chain(s, last), NEW i \in DOMAIN t, IsTry(t[i])
      PROVE  \/ ReachedIn(<<>>, last, t[i].evt - 1)
             \/ \E j \in 1..(i - 1) : IsTry(t[j]) /\ t[j].evt >= t[i].evt - 1
  <2>1. i + d \in DOMAIN s /\ s[i + d] = t[i] /\ i \in Nat
    BY <1>2, TaskEvents DEF Moved
  <2>2. CASE ReachedIn(<<>>, last, t[i].evt - 1)
    BY <2>2
  <2>3. CASE \E j \in 1..((i + d) - 1) : IsTry(s[j]) /\ s[j].evt >= t[i].evt - 1
    <3>1. PICK j \in 1..((i + d) - 1) : IsTry(s[j]) /\ s[j].evt >= t[i].evt - 1
      BY <2>3
    <3>2. j \in DOMAIN s
      BY <2>1, <3>1
    <3>3. j - d \in DOMAIN t /\ t[j - d] = s[j]
      BY <3>1, <3>2 DEF Moved
    <3>4. j - d \in 1..(i - 1)
      BY <2>1, <3>3
    <3> QED BY <3>1, <3>3, <3>4
  <2> QED BY <1>2, <2>1, <2>2, <2>3 DEF Chain, Follows
<1> QED
  BY <1>1, <1>2 DEF Chain, Follows

\* A task that tries nothing has been added
LEMMA MovedAppend ==
    ASSUME NEW s \in Seq(Tasks), NEW t \in Tasks, ~IsTry(t)
    PROVE  Moved(s, Append(s, t), 0)
BY DEF Moved

\* or has run.
LEMMA MovedTail ==
    ASSUME NEW s \in Seq(Tasks), s # <<>>, ~IsTry(Head(s))
    PROVE  Moved(s, Tail(s), 1)
<1>1. /\ Tail(s) \in Seq(Tasks) /\ DOMAIN Tail(s) = 1..(Len(s) - 1) /\ Len(s) \in Nat
      /\ \A i \in 1..(Len(s) - 1) : Tail(s)[i] = s[i + 1]
      /\ DOMAIN s = 1..Len(s) /\ s[1] = Head(s)
  OBVIOUS
<1>2. \A i \in DOMAIN s : IsTry(s[i]) => i - 1 \in 1..(Len(s) - 1) /\ (i - 1) + 1 = i
  BY <1>1
<1>3. \A i \in DOMAIN s : IsTry(s[i]) => Tail(s)[i - 1] = s[i]
  BY <1>1, <1>2
<1> QED
  BY <1>1, <1>2, <1>3 DEF Moved

\* A try has run.
LEMMA TriedChain ==
    ASSUME NEW s \in Seq(Tasks), s # <<>>, IsTry(Head(s)), NEW last \in Int, NEW new \in Int,
           IF Head(s).evt > last THEN new = Head(s).evt ELSE new = last
    PROVE  /\ \A n \in Int : ReachedIn(s, last, n) => ReachedIn(Tail(s), new, n)
           /\ Chain(s, last) => new \in {last, last + 1} /\ Chain(Tail(s), new)
<1>1. /\ Tail(s) \in Seq(Tasks) /\ DOMAIN Tail(s) = 1..(Len(s) - 1) /\ Len(s) \in Nat
      /\ \A i \in 1..(Len(s) - 1) : Tail(s)[i] = s[i + 1]
      /\ DOMAIN s = 1..Len(s) /\ s[1] = Head(s) /\ 1 \in DOMAIN s
  OBVIOUS
<1>2. \A i \in DOMAIN s : s[i].evt \in Int
  BY TaskEvents
<1>3. Head(s).evt <= new /\ last <= new
  BY <1>1, <1>2
<1>4. \A i \in DOMAIN s : i # 1 => i - 1 \in DOMAIN Tail(s) /\ Tail(s)[i - 1] = s[i]
  <2>1. \A i \in DOMAIN s : i # 1 => i - 1 \in 1..(Len(s) - 1) /\ (i - 1) + 1 = i
    BY <1>1
  <2> QED BY <1>1, <2>1
<1>5. ASSUME NEW n \in Int, ReachedIn(s, last, n)
      PROVE  ReachedIn(Tail(s), new, n)
  <2>1. CASE n <= new
    BY <2>1 DEF ReachedIn
  <2>2. CASE n > new
    <3>1. PICK i \in DOMAIN s : IsTry(s[i]) /\ s[i].evt >= n
      BY <1>3, <1>5, <2>2 DEF ReachedIn
    <3>2. i # 1
      BY <1>1, <1>2, <1>3, <2>2, <3>1
    <3> QED BY <1>4, <3>1, <3>2 DEF ReachedIn
  <2> QED BY <2>1, <2>2
<1>6. ASSUME Chain(s, last)
      PROVE  new \in {last, last + 1} /\ Chain(Tail(s), new)
  <2>1. Head(s).evt - 1 <= last
    <3>1. 1..(1 - 1) = {} /\ DOMAIN <<>> = {}
      OBVIOUS
    <3> QED BY <1>1, <1>6, <3>1 DEF Chain, Follows, ReachedIn
  <2>2. new \in {last, last + 1}
    BY <1>1, <1>2, <2>1
  <2>3. ASSUME NEW i \in DOMAIN Tail(s), IsTry(Tail(s)[i])
        PROVE  \/ ReachedIn(<<>>, new, Tail(s)[i].evt - 1)
               \/ \E j \in 1..(i - 1) : IsTry(Tail(s)[j]) /\ Tail(s)[j].evt >= Tail(s)[i].evt - 1
    <3>1. i + 1 \in DOMAIN s /\ s[i + 1] = Tail(s)[i] /\ i \in Nat /\ Tail(s)[i].evt \in Int
      BY <1>1, <1>2
    <3>2. CASE ReachedIn(<<>>, last, Tail(s)[i].evt - 1)
      BY <1>3, <3>1, <3>2 DEF ReachedIn
    <3>3. CASE \E j \in 1..((i + 1) - 1) : IsTry(s[j]) /\ s[j].evt >= Tail(s)[i].evt - 1
      <4>1. PICK j \in 1..((i + 1) - 1) : IsTry(s[j]) /\ s[j].evt >= Tail(s)[i].evt - 1
        BY <3>3
      <4>2. CASE j = 1
        BY <1>1, <1>2, <1>3, <3>1, <4>1, <4>2 DEF ReachedIn
      <4>3. CASE j # 1
        <5>1. j \in DOMAIN s
          BY <1>1, <3>1, <4>1
        <5>2. j - 1 \in DOMAIN Tail(s) /\ Tail(s)[j - 1] = s[j]
          BY <1>4, <4>3, <5>1
        <5>3. j - 1 \in 1..(i - 1)
          BY <3>1, <4>1, <4>3
        <5> QED BY <4>1, <5>2, <5>3
      <4> QED BY <4>2, <4>3
    <3> QED BY <1>6, <2>3, <3>1, <3>2, <3>3 DEF Chain, Follows
  <2> QED BY <2>2, <2>3 DEF Chain, Follows
<1> QED
  BY <1>5, <1>6

\* Where the immediates are that a handler leaves.
LEMMA ScheduledPlaces ==
    ASSUME NEW M, Typed(M), immediates # <<>>, NEW tasks \in Seq(Tasks), NEW more \in Seq(M),
           Schedules(tasks, more)
    PROVE  /\ immediates' \in Seq(Tasks)
           /\ \A i \in DOMAIN immediates : i # 1 =>
                  i - 1 \in DOMAIN immediates' /\ immediates'[i - 1] = immediates[i]
           /\ \A k \in DOMAIN tasks :
                  /\ Len(immediates) - 1 + k \in DOMAIN immediates'
                  /\ immediates'[Len(immediates) - 1 + k] = tasks[k]
           /\ \A i \in DOMAIN immediates' : IsTry(immediates'[i]) =>
                  \/ i + 1 \in DOMAIN immediates /\ immediates'[i] = immediates[i + 1]
                  \/ \E k \in DOMAIN tasks : i = Len(immediates) - 1 + k /\ immediates'[i] = tasks[k]
<1> DEFINE procs == [i \in DOMAIN more |-> Process]
           rest  == Tail(immediates)
           a     == rest \o tasks
           b     == a \o procs
<1>1. /\ immediates \in Seq(Tasks) /\ rest \in Seq(Tasks) /\ Len(rest) = Len(immediates) - 1
      /\ Len(rest) \in Nat /\ DOMAIN rest = 1..Len(rest) /\ DOMAIN immediates = 1..Len(immediates)
      /\ \A i \in 1..Len(rest) : rest[i] = immediates[i + 1]
  BY TypedFacts, SMTT(30)
<1>2. procs \in Seq({Process}) /\ procs \in Seq(Tasks) /\ <<Process>> \in Seq(Tasks)
  BY ProcessesType, TaskKinds
<1>3. \A i \in DOMAIN procs : procs[i] = Process
  OBVIOUS
<1>4. immediates' = b \o <<Process>>
  BY DEF Schedules
<1> HIDE DEF procs, rest
<1>5. /\ a \in Seq(Tasks) /\ Len(a) = Len(rest) + Len(tasks) /\ DOMAIN a = 1..Len(a) /\ Len(a) \in Nat
      /\ \A i \in 1..Len(rest) : a[i] = rest[i]
      /\ \A i \in DOMAIN a : i \notin 1..Len(rest) =>
             \E k \in DOMAIN tasks : i = Len(rest) + k /\ a[i] = tasks[k]
      /\ \A k \in DOMAIN tasks : Len(rest) + k \in DOMAIN a /\ a[Len(rest) + k] = tasks[k]
  <2>1. /\ a \in Seq(Tasks) /\ Len(a) = Len(rest) + Len(tasks) /\ DOMAIN a = 1..Len(a) /\ Len(a) \in Nat
        /\ \A i \in 1..Len(rest) : a[i] = rest[i]
        /\ \A k \in DOMAIN tasks : Len(rest) + k \in DOMAIN a /\ a[Len(rest) + k] = tasks[k]
    BY <1>1, SMTT(30)
  <2>2. ASSUME NEW i \in DOMAIN a, i \notin 1..Len(rest)
        PROVE  \E k \in DOMAIN tasks : i = Len(rest) + k /\ a[i] = tasks[k]
    <3>1. i - Len(rest) \in DOMAIN tasks /\ i = Len(rest) + (i - Len(rest))
      BY <1>1, <2>1, <2>2
    <3> QED BY <2>1, <3>1
  <2> QED BY <2>1, <2>2
<1> HIDE DEF a
<1>6. /\ b \in Seq(Tasks) /\ DOMAIN b = 1..Len(b) /\ Len(b) \in Nat
      /\ \A i \in 1..Len(a) : i \in DOMAIN b /\ b[i] = a[i]
      /\ \A i \in DOMAIN b : i \in DOMAIN a \/ b[i] = Process
  BY <1>2, <1>3, <1>5
<1> HIDE DEF b
<1>7. /\ immediates' \in Seq(Tasks)
      /\ \A i \in DOMAIN b : i \in DOMAIN immediates' /\ immediates'[i] = b[i]
      /\ \A i \in DOMAIN immediates' : i \in DOMAIN b \/ immediates'[i] = Process
  BY <1>2, <1>4, <1>6
<1>8. \A i \in DOMAIN a : i \in DOMAIN immediates' /\ immediates'[i] = a[i]
  BY <1>5, <1>6, <1>7
<1>9. \A i \in DOMAIN immediates' : IsTry(immediates'[i]) => i \in DOMAIN a
  BY <1>6, <1>7, TaskEvents
<1>10. \A i \in DOMAIN immediates : i # 1 => i - 1 \in DOMAIN immediates' /\ immediates'[i - 1] = immediates[i]
  <2>1. \A i \in DOMAIN immediates : i # 1 => i - 1 \in 1..Len(rest) /\ (i - 1) + 1 = i
    BY <1>1
  <2>2. 1..Len(rest) \subseteq DOMAIN a
    BY <1>1, <1>5
  <2> QED BY <1>1, <1>5, <1>8, <2>1, <2>2, SMTT(30)
<1>11. \A k \in DOMAIN tasks : /\ Len(immediates) - 1 + k \in DOMAIN immediates'
                               /\ immediates'[Len(immediates) - 1 + k] = tasks[k]
  BY <1>1, <1>5, <1>8
<1>12. ASSUME NEW i \in DOMAIN immediates', IsTry(immediates'[i])
       PROVE  \/ i + 1 \in DOMAIN immediates /\ immediates'[i] = immediates[i + 1]
              \/ \E k \in DOMAIN tasks : i = Len(immediates) - 1 + k /\ immediates'[i] = tasks[k]
  <2>1. i \in DOMAIN a /\ immediates'[i] = a[i]
    BY <1>8, <1>9, <1>12
  <2>2. CASE i \in 1..Len(rest)
    BY <1>1, <1>5, <2>1, <2>2
  <2>3. CASE i \notin 1..Len(rest)
    BY <1>1, <1>5, <2>1, <2>3
  <2> QED BY <2>2, <2>3
<1> QED
  BY <1>7, <1>10, <1>11, <1>12

\* A handler schedules tries of which none finds an event missing.
LEMMA ScheduledChain ==
    ASSUME NEW M, Typed(M), immediates # <<>>, ~IsTry(Head(immediates)), NEW last \in Int,
           NEW tasks \in Seq(Tasks), NEW more \in Seq(M), Schedules(tasks, more)
    PROVE  /\ \A n \in Int : ReachedIn(immediates', last, n) <=>
                  \/ ReachedIn(immediates, last, n)
                  \/ \E k \in DOMAIN tasks : IsTry(tasks[k]) /\ tasks[k].evt >= n
           /\ Chain(immediates, last) /\ Follows(immediates, last, tasks) => Chain(immediates', last)
<1> DEFINE s == immediates
           t == immediates'
           l == Len(immediates) - 1
<1>1. /\ t \in Seq(Tasks)
      /\ \A i \in DOMAIN s : i # 1 => i - 1 \in DOMAIN t /\ t[i - 1] = s[i]
      /\ \A k \in DOMAIN tasks : l + k \in DOMAIN t /\ t[l + k] = tasks[k]
      /\ \A i \in DOMAIN t : IsTry(t[i]) =>
             \/ i + 1 \in DOMAIN s /\ t[i] = s[i + 1]
             \/ \E k \in DOMAIN tasks : i = l + k /\ t[i] = tasks[k]
  BY ScheduledPlaces
<1>2. /\ s \in Seq(Tasks) /\ l \in Nat /\ DOMAIN s = 1..(l + 1) /\ s[1] = Head(s)
      /\ ~IsTry(s[1])
  BY TypedFacts
<1> HIDE DEF s, t, l
<1>3. \A n \in Int : ReachedIn(t, last, n) <=>
          \/ ReachedIn(s, last, n)
          \/ \E k \in DOMAIN tasks : IsTry(tasks[k]) /\ tasks[k].evt >= n
  BY <1>1, <1>2 DEF ReachedIn
<1>4. ASSUME Chain(s, last), Follows(s, last, tasks), NEW i \in DOMAIN t, IsTry(t[i])
      PROVE  \/ ReachedIn(<<>>, last, t[i].evt - 1)
             \/ \E j \in 1..(i - 1) : IsTry(t[j]) /\ t[j].evt >= t[i].evt - 1
  <2>1. i \in Nat
    BY <1>1
  <2>2. CASE i + 1 \in DOMAIN s /\ t[i] = s[i + 1]
    <3>1. CASE ReachedIn(<<>>, last, s[i + 1].evt - 1)
      BY <2>2, <3>1
    <3>2. CASE \E j \in 1..((i + 1) - 1) : IsTry(s[j]) /\ s[j].evt >= s[i + 1].evt - 1
      <4>1. PICK j \in 1..((i + 1) - 1) : IsTry(s[j]) /\ s[j].evt >= s[i + 1].evt - 1
        BY <3>2
      <4>2. j \in DOMAIN s /\ j # 1
        BY <1>2, <2>1, <2>2, <4>1
      <4>3. j - 1 \in DOMAIN t /\ t[j - 1] = s[j]
        BY <1>1, <4>2
      <4>4. j - 1 \in 1..(i - 1)
        BY <2>1, <4>1, <4>2
      <4> QED BY <2>2, <4>1, <4>3, <4>4
    <3> QED BY <1>4, <2>2, <3>1, <3>2 DEF Chain, Follows
  <2>3. CASE \E k \in DOMAIN tasks : i = l + k /\ t[i] = tasks[k]
    <3>1. PICK k \in DOMAIN tasks : i = l + k /\ t[i] = tasks[k]
      BY <2>3
    <3>2. k \in Nat /\ k >= 1 /\ DOMAIN tasks = 1..Len(tasks)
      OBVIOUS
    <3>3. CASE ReachedIn(s, last, tasks[k].evt - 1)
      <4>1. CASE tasks[k].evt - 1 <= last
        BY <3>1, <4>1 DEF ReachedIn
      <4>2. CASE \E j \in DOMAIN s : IsTry(s[j]) /\ s[j].evt >= tasks[k].evt - 1
        <5>1. PICK j \in DOMAIN s : IsTry(s[j]) /\ s[j].evt >= tasks[k].evt - 1
          BY <4>2
        <5>2. j # 1
          BY <1>2, <5>1
        <5>3. j - 1 \in DOMAIN t /\ t[j - 1] = s[j]
          BY <1>1, <5>1, <5>2
        <5>4. j - 1 \in 1..(i - 1)
          BY <1>2, <3>1, <3>2, <5>1, <5>2
        <5> QED BY <3>1, <5>1, <5>3, <5>4
      <4> QED BY <3>3, <4>1, <4>2 DEF ReachedIn
    <3>4. CASE \E j \in 1..(k - 1) : IsTry(tasks[j]) /\ tasks[j].evt >= tasks[k].evt - 1
      <4>1. PICK j \in 1..(k - 1) : IsTry(tasks[j]) /\ tasks[j].evt >= tasks[k].evt - 1
        BY <3>4
      <4>2. j \in DOMAIN tasks
        BY <3>2, <4>1
      <4>3. l + j \in 1..(i - 1) /\ t[l + j] = tasks[j]
        BY <1>1, <1>2, <3>1, <3>2, <4>1, <4>2, SMTT(30)
      <4> QED BY <3>1, <4>1, <4>3
    <3> QED BY <1>4, <3>1, <3>3, <3>4 DEF Follows
  <2> QED BY <1>1, <1>4, <2>2, <2>3
<1>5. Chain(s, last) /\ Follows(s, last, tasks) => Chain(t, last)
  BY <1>4 DEF Chain, Follows
<1> QED
  BY <1>3, <1>5 DEF s, t

\* Tries of a list of events.
LEMMA TriesFollow ==
    ASSUME NEW s \in Seq(Tasks), NEW last \in Int, NEW events \in Seq(Events),
           \A i \in DOMAIN events : \/ ReachedIn(s, last, events[i] - 1)
                                    \/ \E j \in 1..(i - 1) : events[j] >= events[i] - 1
    PROVE  Follows(s, last, Tries(events))
<1>1. /\ \A i \in DOMAIN events : Tries(events)[i] = Try(events[i])
      /\ DOMAIN Tries(events) = DOMAIN events /\ DOMAIN events = 1..Len(events) /\ Len(events) \in Nat
  BY TriesType DEF Tries
<1>2. \A i \in DOMAIN events : \A j \in 1..(i - 1) : j \in DOMAIN events
  BY <1>1
<1>3. \A i \in DOMAIN events : IsTry(Tries(events)[i]) /\ Tries(events)[i].evt = events[i]
  BY <1>1, TaskEvents
<1> QED
  BY <1>1, <1>2, <1>3 DEF Follows

\* The events such tries reach.
LEMMA TriesReach ==
    ASSUME NEW events \in Seq(Events), NEW n \in Int
    PROVE  (\E k \in DOMAIN Tries(events) : IsTry(Tries(events)[k]) /\ Tries(events)[k].evt >= n) <=>
               \E k \in DOMAIN events : events[k] >= n
<1>1. /\ \A i \in DOMAIN events : Tries(events)[i] = Try(events[i])
      /\ DOMAIN Tries(events) = DOMAIN events
  BY TriesType DEF Tries
<1> QED
  BY <1>1, TaskEvents

\* The events of a page follow what was read before it.
LEMMA PageFollows ==
    ASSUME NEW s \in Seq(Tasks), NEW last \in Int, NEW a \in Nat, NEW b \in Nat, a <= b, b <= MaxEvents,
           ReachedIn(s, last, a - 1)
    PROVE  /\ Follows(s, last, Tries(EventsFrom(a, b)))
           /\ \A n \in Int : n <= b - 1 =>
                  \/ ReachedIn(s, last, n)
                  \/ \E k \in DOMAIN EventsFrom(a, b) : EventsFrom(a, b)[k] >= n
<1>1. /\ EventsFrom(a, b) \in Seq(Events) /\ DOMAIN EventsFrom(a, b) = 1..(b - a)
      /\ \A i \in 1..(b - a) : EventsFrom(a, b)[i] = a + i - 1
  BY EventsFromFacts
<1> DEFINE e == EventsFrom(a, b)
<1>2. ASSUME NEW i \in DOMAIN e
      PROVE  \/ ReachedIn(s, last, e[i] - 1)
             \/ \E j \in 1..(i - 1) : e[j] >= e[i] - 1
  <2>1. CASE i = 1
    <3>1. e[i] - 1 = a - 1
      BY <1>1, <2>1
    <3> QED BY <3>1
  <2>2. CASE i # 1
    <3>1. i - 1 \in 1..(i - 1) /\ e[i - 1] = e[i] - 1 /\ e[i] \in Int
      BY <1>1, <2>2, SMTT(30)
    <3> QED BY <3>1
  <2> QED BY <2>1, <2>2
<1>3. Follows(s, last, Tries(e))
  <2> HIDE DEF e
  <2> QED BY <1>1, <1>2, TriesFollow DEF e
<1>4. ASSUME NEW n \in Int, n <= b - 1
      PROVE  ReachedIn(s, last, n) \/ \E k \in DOMAIN e : e[k] >= n
  <2>1. CASE n <= a - 1
    <3>1. a - 1 \in Int
      OBVIOUS
    <3> QED BY <2>1, <3>1, ReachedBefore
  <2>2. CASE n > a - 1
    <3>1. b - a \in 1..(b - a) /\ e[b - a] >= n
      BY <1>1, <1>4, <2>2
    <3> QED BY <1>1, <3>1
  <2> QED BY <2>1, <2>2
<1> QED
  BY <1>3, <1>4

\* One list of tasks or messages after another.
Joined(v, t, u) == v = t \o u

\* Every place of v holds what a place of s or one of t holds.
Holds(v, s, t) == \A i \in DOMAIN v : (\E k \in DOMAIN s : v[i] = s[k]) \/ (\E k \in DOMAIN t : v[i] = t[k])

\* Some task of s tries an event that is not before n.
AnyTry(s, n) == \E k \in DOMAIN s : IsTry(s[k]) /\ s[k].evt >= n

\* What two lists joined hold.
LEMMA JoinedPlaces ==
    ASSUME NEW S, NEW s \in Seq(S), NEW t \in Seq(S), NEW v, Joined(v, s, t)
    PROVE  v \in Seq(S) /\ Holds(v, s, t)
<1>1. /\ v \in Seq(S) /\ DOMAIN v = 1..(Len(s) + Len(t))
      /\ DOMAIN s = 1..Len(s) /\ DOMAIN t = 1..Len(t) /\ Len(s) \in Nat /\ Len(t) \in Nat
      /\ \A i \in 1..Len(s) : v[i] = s[i]
      /\ \A i \in (Len(s) + 1)..(Len(s) + Len(t)) : i - Len(s) \in DOMAIN t /\ v[i] = t[i - Len(s)]
  BY DEF Joined
<1>2. \A i \in DOMAIN v : i \in 1..Len(s) \/ i \in (Len(s) + 1)..(Len(s) + Len(t))
  BY <1>1
<1>3. \A i \in 1..Len(s) : \E k \in DOMAIN s : v[i] = s[k]
  BY <1>1
<1>4. \A i \in (Len(s) + 1)..(Len(s) + Len(t)) : \E k \in DOMAIN t : v[i] = t[k]
  BY <1>1
<1> QED
  BY <1>1, <1>2, <1>3, <1>4 DEF Holds

\* What two lists of tasks reach.
LEMMA JoinedReach ==
    ASSUME NEW t \in Seq(Tasks), NEW u \in Seq(Tasks), NEW joined, Joined(joined, t, u),
           NEW n \in Int
    PROVE  AnyTry(joined, n) <=> AnyTry(t, n) \/ AnyTry(u, n)
<1>1. /\ \A i \in DOMAIN t : i \in DOMAIN joined /\ joined[i] = t[i]
      /\ \A i \in DOMAIN u : Len(t) + i \in DOMAIN joined /\ joined[Len(t) + i] = u[i]
  BY DEF Joined
<1>2. \A i \in DOMAIN joined : \/ \E k \in DOMAIN t : joined[i] = t[k]
                               \/ \E k \in DOMAIN u : joined[i] = u[k]
  BY JoinedPlaces DEF Holds
<1> QED
  BY <1>1, <1>2 DEF AnyTry

\* Two lists of tasks, one after the other.
LEMMA JoinedFollow ==
    ASSUME NEW s \in Seq(Tasks), NEW last \in Int, NEW t \in Seq(Tasks), NEW u \in Seq(Tasks),
           NEW joined, Joined(joined, t, u), Follows(s, last, t),
           \A i \in DOMAIN u : IsTry(u[i]) =>
               \/ ReachedIn(s, last, u[i].evt - 1)
               \/ \E k \in DOMAIN t : IsTry(t[k]) /\ t[k].evt >= u[i].evt - 1
               \/ \E j \in 1..(i - 1) : IsTry(u[j]) /\ u[j].evt >= u[i].evt - 1
    PROVE  Follows(s, last, joined)
<1> DEFINE v == t \o u
<1>1. /\ v \in Seq(Tasks) /\ Len(t) \in Nat /\ Len(u) \in Nat
      /\ DOMAIN t = 1..Len(t) /\ DOMAIN u = 1..Len(u)
      /\ DOMAIN v = 1..(Len(t) + Len(u))
      /\ \A i \in 1..Len(t) : v[i] = t[i]
      /\ \A i \in 1..Len(u) : Len(t) + i \in DOMAIN v /\ v[Len(t) + i] = u[i]
  OBVIOUS
<1>2. \A i \in DOMAIN v : i \in DOMAIN t \/ \E k \in DOMAIN u : i = Len(t) + k
  <2> SUFFICES ASSUME NEW i \in DOMAIN v, i \notin DOMAIN t
               PROVE  \E k \in DOMAIN u : i = Len(t) + k
    OBVIOUS
  <2>1. i - Len(t) \in DOMAIN u /\ i = Len(t) + (i - Len(t))
    BY <1>1
  <2> QED BY <2>1
<1>3. \A i \in DOMAIN t : i \in DOMAIN v /\ v[i] = t[i]
  BY <1>1
<1> HIDE DEF v
<1>4. ASSUME NEW i \in DOMAIN v, IsTry(v[i])
      PROVE  \/ ReachedIn(s, last, v[i].evt - 1)
             \/ \E j \in 1..(i - 1) : IsTry(v[j]) /\ v[j].evt >= v[i].evt - 1
  <2>1. CASE i \in DOMAIN t
    <3>1. v[i] = t[i] /\ \A j \in 1..(i - 1) : j \in DOMAIN v /\ v[j] = t[j]
      BY <1>1, <2>1
    <3> QED BY <1>4, <2>1, <3>1 DEF Follows
  <2>2. CASE \E k \in DOMAIN u : i = Len(t) + k
    <3>1. PICK k \in DOMAIN u : i = Len(t) + k
      BY <2>2
    <3>2. v[i] = u[k] /\ k \in Nat
      BY <1>1, <3>1
    <3>3. CASE ReachedIn(s, last, u[k].evt - 1)
      BY <3>2, <3>3
    <3>4. CASE \E j \in DOMAIN t : IsTry(t[j]) /\ t[j].evt >= u[k].evt - 1
      <4>1. PICK j \in DOMAIN t : IsTry(t[j]) /\ t[j].evt >= u[k].evt - 1
        BY <3>4
      <4>2. j \in 1..(i - 1) /\ v[j] = t[j]
        BY <1>1, <3>1, <3>2
      <4> QED BY <3>2, <4>1, <4>2
    <3>5. CASE \E j \in 1..(k - 1) : IsTry(u[j]) /\ u[j].evt >= u[k].evt - 1
      <4>1. PICK j \in 1..(k - 1) : IsTry(u[j]) /\ u[j].evt >= u[k].evt - 1
        BY <3>5
      <4>2. Len(t) + j \in 1..(i - 1) /\ v[Len(t) + j] = u[j]
        BY <1>1, <3>1, <3>2
      <4> QED BY <3>2, <4>1, <4>2
    <3> QED BY <1>4, <3>2, <3>3, <3>4, <3>5
  <2> QED BY <1>2, <2>1, <2>2
<1>5. Follows(s, last, v)
  BY <1>4 DEF Follows
<1> QED
  BY <1>5 DEF v, Joined

-----------------------------------------------------------------------------
(* No gap *)

\* The number of the last event processed, or of the one before the first.
Last(base) == IF delivered = <<>> THEN base ELSE delivered[Len(delivered)]

\* Every event up to n has been handed on or is about to be.
Reached(base, n) == ReachedIn(immediates, Last(base), n)

\* Nothing has been left out yet: no read of the second pass failed.
Unbroken == promised = -1 \/ ~liveSub

\* What will be processed when the second pass, which ends at `until', is over.
Held(base, until, n) ==
    \/ n <= until
    \/ Reached(base, n)
    \/ \E i \in DOMAIN liveQueue : liveQueue[i] >= n

\* `named' gives the event a confirmation names its number.
Brings(named, m, n) ==
    \/ m.type = "Event" /\ m.evt >= n
    \/ m.type = "Confirmed" /\ named[m.last] >= n

\* No event is missing between those processed, those waiting for the end of the second pass
QueueChain(base, until) ==
    \A i \in DOMAIN liveQueue :
        \/ liveQueue[i] - 1 <= until \/ Reached(base, liveQueue[i] - 1)
        \/ \E j \in 1..(i - 1) : liveQueue[j] >= liveQueue[i] - 1

\* and those coming.
ComingChain(base, until, named) ==
    \A i \in DOMAIN Coming : Coming[i].type = "Event" =>
        \/ Held(base, until, Coming[i].evt - 1)
        \/ \E j \in 1..(i - 1) : Brings(named, Coming[j], Coming[i].evt - 1)

\* What will be written next is brought in order too.
Pushed(base, until, named) ==
    subscribed => \/ Held(base, until, written - 1)
                  \/ \E j \in DOMAIN Coming : Brings(named, Coming[j], written - 1)

\* Every message between the client and the server.
Underway == {Coming[i] : i \in DOMAIN Coming} \cup requests

\* Events are written before they are seen, and the second pass has its end from the
\* confirmation.
Exist(until, named) ==
    /\ \A i \in DOMAIN immediates : IsTry(immediates[i]) => immediates[i].evt < written
    /\ \A i \in DOMAIN liveQueue : liveQueue[i] < written
    /\ \A m \in Underway : /\ m.type = "Event" => m.evt < written
                           /\ m.type = "Confirmed" => named[m.last] \in -1..(written - 1)
                           /\ Subscribing(m) => until = -1
    /\ until \in -1..(written - 1)
    /\ pass = "first" => until = -1

\* The events are handed on from the first one owed, and none will be missing.
InLine(base, until, named) ==
    /\ \A i \in DOMAIN delivered : delivered[i] = base + i
    /\ Chain(immediates, Last(base))
    /\ QueueChain(base, until)
    /\ connection = "Connected" => ComingChain(base, until, named) /\ Pushed(base, until, named)
    /\ lives = 1 => Reached(base, until)

\* Nothing is missing while the listener is promised so.
Gapless(base, until, named) ==
    /\ Exist(until, named)
    /\ Unbroken => InLine(base, until, named)

\* Events stay in order on their way; when `handled', the first message has left.
Carried(handled) ==
    /\ \A i \in DOMAIN Coming' : Coming'[i].type = "Event" =>
           \E k \in DOMAIN Coming :
               /\ Coming[k] = Coming'[i]
               /\ \A j \in 1..(k - 1) : \/ j = 1 /\ handled
                                        \/ \E l \in 1..(i - 1) : Coming'[l] = Coming[j]
    /\ \A j \in DOMAIN Coming : (j = 1 /\ handled) \/ \E l \in DOMAIN Coming' : Coming'[l] = Coming[j]

\* The ways messages move.
LEMMA CarriedSame ==
    ASSUME NEW M, Typed(M), Coming' = Coming
    PROVE  Carried(FALSE)
<1>1. \A i \in DOMAIN Coming : \A j \in 1..(i - 1) : j \in 1..(i - 1)
  OBVIOUS
<1> QED
  BY <1>1 DEF Carried

\* The handler takes the first message,
LEMMA CarriedTail ==
    ASSUME NEW M, Typed(M), queue # <<>>, queue' = Tail(queue), UNCHANGED inbound
    PROVE  /\ Carried(TRUE)
           /\ \A i \in DOMAIN Coming' : \E k \in DOMAIN Coming : Coming'[i] = Coming[k]
<1>1. /\ Len(Coming) >= 1 /\ DOMAIN Coming' = 1..(Len(Coming) - 1)
      /\ \A i \in 1..(Len(Coming) - 1) : Coming'[i] = Coming[i + 1]
      /\ DOMAIN Coming = 1..Len(Coming) /\ Len(Coming) \in Nat
  BY ComingTail, ComingFacts
<1>2. \A j \in DOMAIN Coming : j # 1 => j - 1 \in DOMAIN Coming' /\ Coming'[j - 1] = Coming[j]
  <2>1. \A j \in DOMAIN Coming : j # 1 => j - 1 \in 1..(Len(Coming) - 1) /\ (j - 1) + 1 = j
    BY <1>1
  <2> QED BY <1>1, <2>1
<1>3. \A i \in DOMAIN Coming' : i + 1 \in DOMAIN Coming /\ Coming[i + 1] = Coming'[i] /\ i \in Nat
  BY <1>1
<1>4. \A i \in DOMAIN Coming' : \A j \in 1..((i + 1) - 1) :
          j = 1 \/ (j - 1 \in 1..(i - 1) /\ Coming'[j - 1] = Coming[j])
  <2>1. \A i \in DOMAIN Coming' : \A j \in 1..((i + 1) - 1) : j \in DOMAIN Coming
    BY <1>1, <1>3
  <2>2. \A i \in DOMAIN Coming' : \A j \in 1..((i + 1) - 1) : j # 1 => j - 1 \in 1..(i - 1)
    BY <1>3
  <2> QED BY <1>2, <2>1, <2>2
<1> QED
  BY <1>2, <1>3, <1>4 DEF Carried

\* takes it and enqueues another one,
LEMMA CarriedNext ==
    ASSUME NEW M, Typed(M), queue # <<>>, NEW x \in M, x.type # "Event",
           queue' = Tail(queue) \o <<x>>, UNCHANGED inbound
    PROVE  /\ Carried(TRUE)
           /\ \A i \in DOMAIN Coming' : Coming'[i] = x \/ \E k \in DOMAIN Coming : Coming'[i] = Coming[k]
<1> DEFINE q == Len(queue)
           c == Len(Coming)
<1>1. /\ q \in 1..c /\ DOMAIN Coming' = 1..c
      /\ \A i \in 1..(q - 1) : Coming'[i] = Coming[i + 1]
      /\ Coming'[q] = x
      /\ \A i \in (q + 1)..c : Coming'[i] = Coming[i]
      /\ DOMAIN Coming = 1..c /\ c \in Nat
  BY ComingNext, ComingFacts
<1> HIDE DEF q, c
<1>2. \A j \in DOMAIN Coming :
          \/ j = 1
          \/ j <= q /\ j - 1 \in DOMAIN Coming' /\ Coming'[j - 1] = Coming[j]
          \/ j > q /\ j \in DOMAIN Coming' /\ Coming'[j] = Coming[j]
  <2>1. \A j \in DOMAIN Coming : j # 1 /\ j <= q => j - 1 \in 1..(q - 1) /\ (j - 1) + 1 = j /\ j - 1 \in 1..c
    BY <1>1
  <2> QED BY <1>1, <2>1
<1>3. \A i \in DOMAIN Coming' :
          \/ Coming'[i] = x
          \/ i < q /\ i + 1 \in DOMAIN Coming /\ Coming[i + 1] = Coming'[i]
          \/ i > q /\ i \in DOMAIN Coming /\ Coming[i] = Coming'[i]
  BY <1>1
<1>4. ASSUME NEW i \in DOMAIN Coming', Coming'[i].type = "Event"
      PROVE  \E k \in DOMAIN Coming :
               /\ Coming[k] = Coming'[i]
               /\ \A j \in 1..(k - 1) : j = 1 \/ \E l \in 1..(i - 1) : Coming'[l] = Coming[j]
  <2>1. CASE i < q /\ i + 1 \in DOMAIN Coming /\ Coming[i + 1] = Coming'[i]
    <3>1. ASSUME NEW j \in 1..((i + 1) - 1), j # 1
          PROVE  j - 1 \in 1..(i - 1) /\ Coming'[j - 1] = Coming[j]
      <4>1. j \in DOMAIN Coming /\ j <= q /\ j - 1 \in 1..(i - 1)
        BY <1>1, <2>1, <3>1
      <4> QED BY <1>1, <1>2, <3>1, <4>1
    <3> QED BY <2>1, <3>1
  <2>2. CASE i > q /\ i \in DOMAIN Coming /\ Coming[i] = Coming'[i]
    <3>1. ASSUME NEW j \in 1..(i - 1), j # 1
          PROVE  \E l \in 1..(i - 1) : Coming'[l] = Coming[j]
      <4>1. j \in DOMAIN Coming /\ j - 1 \in 1..(i - 1)
        BY <1>1, <2>2, <3>1
      <4> QED BY <1>2, <3>1, <4>1
    <3> QED BY <2>2, <3>1
  <2> QED BY <1>3, <1>4, <2>1, <2>2
<1> QED
  BY <1>2, <1>3, <1>4 DEF Carried

\* a message is enqueued,
LEMMA CarriedEnqueued ==
    ASSUME NEW M, Typed(M), NEW x \in M, x.type # "Event",
           queue' = Append(queue, x), UNCHANGED inbound
    PROVE  /\ Carried(FALSE)
           /\ \A i \in DOMAIN Coming' : Coming'[i] = x \/ \E k \in DOMAIN Coming : Coming'[i] = Coming[k]
<1> DEFINE q == Len(queue)
           c == Len(Coming)
<1>1. /\ q \in 0..c /\ DOMAIN Coming' = 1..(c + 1)
      /\ \A i \in 1..q : Coming'[i] = Coming[i]
      /\ Coming'[q + 1] = x
      /\ \A i \in (q + 2)..(c + 1) : Coming'[i] = Coming[i - 1]
      /\ DOMAIN Coming = 1..c /\ c \in Nat
  BY ComingEnqueued, ComingFacts
<1> HIDE DEF q, c
<1>2. \A j \in DOMAIN Coming :
          \/ j <= q /\ j \in DOMAIN Coming' /\ Coming'[j] = Coming[j]
          \/ j > q /\ j + 1 \in DOMAIN Coming' /\ Coming'[j + 1] = Coming[j]
  BY <1>1
<1>3. \A i \in DOMAIN Coming' :
          \/ Coming'[i] = x
          \/ i <= q /\ i \in DOMAIN Coming /\ Coming[i] = Coming'[i]
          \/ i > q + 1 /\ i - 1 \in DOMAIN Coming /\ Coming[i - 1] = Coming'[i]
  BY <1>1
<1>4. ASSUME NEW i \in DOMAIN Coming', Coming'[i].type = "Event"
      PROVE  \E k \in DOMAIN Coming :
               /\ Coming[k] = Coming'[i]
               /\ \A j \in 1..(k - 1) : \E l \in 1..(i - 1) : Coming'[l] = Coming[j]
  <2>1. CASE i <= q /\ i \in DOMAIN Coming /\ Coming[i] = Coming'[i]
    <3>1. \A j \in 1..(i - 1) : Coming'[j] = Coming[j]
      BY <1>1, <2>1
    <3> QED BY <2>1, <3>1
  <2>2. CASE i > q + 1 /\ i - 1 \in DOMAIN Coming /\ Coming[i - 1] = Coming'[i]
    <3>1. ASSUME NEW j \in 1..((i - 1) - 1)
          PROVE  \E l \in 1..(i - 1) : Coming'[l] = Coming[j]
      <4>1. j \in DOMAIN Coming /\ j \in 1..(i - 1) /\ j + 1 \in 1..(i - 1)
        BY <1>1, <2>2, <3>1
      <4> QED BY <1>2, <3>1, <4>1
    <3> QED BY <2>2, <3>1
  <2> QED BY <1>3, <1>4, <2>1, <2>2
<1> QED
  BY <1>2, <1>3, <1>4 DEF Carried

\* or sent by the server.
LEMMA CarriedSent ==
    ASSUME NEW M, Typed(M), NEW x \in M, x.type # "Event",
           inbound' = Append(inbound, x), UNCHANGED queue
    PROVE  /\ Carried(FALSE)
           /\ \A i \in DOMAIN Coming' : Coming'[i] = x \/ \E k \in DOMAIN Coming : Coming'[i] = Coming[k]
           /\ \E i \in DOMAIN Coming' : Coming'[i] = x
<1>1. /\ DOMAIN Coming' = 1..(Len(Coming) + 1) /\ Len(Coming) \in Nat /\ DOMAIN Coming = 1..Len(Coming)
      /\ \A i \in 1..Len(Coming) : Coming'[i] = Coming[i]
      /\ Coming'[Len(Coming) + 1] = x
  BY ComingAnswered, ComingFacts
<1>2. \A i \in DOMAIN Coming' : i \in DOMAIN Coming \/ i = Len(Coming) + 1
  BY <1>1
<1>3. \A j \in DOMAIN Coming : j \in DOMAIN Coming' /\ Coming'[j] = Coming[j]
  BY <1>1
<1>4. \A i \in DOMAIN Coming : \A j \in 1..(i - 1) : Coming'[j] = Coming[j]
  BY <1>1
<1> QED
  BY <1>1, <1>2, <1>3, <1>4 DEF Carried

\* What is coming still follows what is held.
LEMMA ComingKept ==
    ASSUME NEW base \in Int, NEW u \in Int, NEW v \in Int, NEW named, NEW handled \in BOOLEAN,
           Carried(handled), ComingChain(base, u, named), Pushed(base, u, named),
           written \in Int,
           \A i \in DOMAIN Coming : Coming[i].type = "Event" => Coming[i].evt \in Int,
           \A n \in Int : Held(base, u, n) => Held(base, v, n)',
           handled => \A n \in Int : Brings(named, Coming[1], n) => Held(base, v, n)'
    PROVE  /\ ComingChain(base, v, named)'
           /\ (subscribed' => subscribed /\ written' = written) => Pushed(base, v, named)'
<1>1. ASSUME NEW i \in DOMAIN Coming', Coming'[i].type = "Event"
      PROVE  \/ Held(base, v, Coming[i].evt - 1)'
             \/ \E l \in 1..(i - 1) : Brings(named, Coming'[l], Coming'[i].evt - 1)
  <2>1. PICK k \in DOMAIN Coming :
               /\ Coming[k] = Coming'[i]
               /\ \A j \in 1..(k - 1) : \/ j = 1 /\ handled
                                        \/ \E l \in 1..(i - 1) : Coming'[l] = Coming[j]
    BY <1>1 DEF Carried
  <2>2. PICK n \in Int : n = Coming[k].evt - 1
    BY <1>1, <2>1
  <2>3. Coming'[i].evt - 1 = n
    BY <2>1, <2>2
  <2>4. CASE Held(base, u, n)
    BY <2>3, <2>4
  <2>5. CASE \E j \in 1..(k - 1) : Brings(named, Coming[j], n)
    <3>1. PICK j \in 1..(k - 1) : Brings(named, Coming[j], n)
      BY <2>5
    <3>2. CASE j = 1 /\ handled
      <4>1. Held(base, v, n)'
        BY <3>1, <3>2
      <4> QED BY <2>3, <4>1
    <3>3. CASE \E l \in 1..(i - 1) : Coming'[l] = Coming[j]
      BY <2>3, <3>1, <3>3
    <3> QED BY <2>1, <3>1, <3>2, <3>3
  <2> QED BY <1>1, <2>1, <2>2, <2>4, <2>5 DEF ComingChain
<1>2. ComingChain(base, v, named)'
  BY <1>1 DEF ComingChain
<1>3. ASSUME subscribed', subscribed' => subscribed /\ written' = written
      PROVE  \/ Held(base, v, written - 1)'
             \/ \E l \in DOMAIN Coming' : Brings(named, Coming'[l], written' - 1)
  <2>1. PICK n \in Int : n = written - 1
    OBVIOUS
  <2>2. written' - 1 = n /\ subscribed
    BY <1>3, <2>1
  <2>3. CASE Held(base, u, n)
    BY <2>2, <2>3
  <2>4. CASE \E j \in DOMAIN Coming : Brings(named, Coming[j], n)
    <3>1. PICK j \in DOMAIN Coming : Brings(named, Coming[j], n)
      BY <2>4
    <3>2. CASE j = 1 /\ handled
      <4>1. Held(base, v, n)'
        BY <3>1, <3>2
      <4> QED BY <2>2, <4>1
    <3>3. CASE \E l \in DOMAIN Coming' : Coming'[l] = Coming[j]
      BY <2>2, <3>1, <3>3
    <3> QED BY <3>1, <3>2, <3>3 DEF Carried
  <2> QED BY <2>1, <2>2, <2>3, <2>4 DEF Pushed
<1>4. (subscribed' => subscribed /\ written' = written) => Pushed(base, v, named)'
  BY <1>3 DEF Pushed
<1> QED
  BY <1>2, <1>4

\* Messages of which no event is known.
Orders == {Unsubscribe, CloseConnection, Failure, Dropped}

\* A step that neither reads nor hands on anything.
Quiet ==
    /\ UNCHANGED <<lastProcessed, readUntil, liveQueue, liveSub, pass, delivered, lives, written>>
    /\ promised' = -1 => promised = -1
    /\ subscribed' => subscribed
    /\ \E d \in {0, 1} : Moved(immediates, immediates', d)
    /\ connection' = "Connected" =>
           /\ connection = "Connected"
           /\ \E handled \in BOOLEAN : /\ Carried(handled)
                                       /\ handled => Coming[1].type \notin {"Event", "Confirmed"}
    /\ Underway' \subseteq Underway \cup Orders

\* What is held, and waits, is all that follows from the tries and the queue.
LEMMA HeldStays ==
    ASSUME NEW base, NEW u \in Int, NEW v \in Int, u <= v, UNCHANGED liveQueue, liveQueue \in Seq(Events),
           \A n \in Int : Reached(base, n) => Reached(base, n)'
    PROVE  /\ \A n \in Int : Held(base, u, n) => Held(base, v, n)'
           /\ QueueChain(base, u) => QueueChain(base, v)'
<1>1. \A i \in DOMAIN liveQueue : liveQueue[i] \in Int
  <2>1. \A i \in DOMAIN liveQueue : liveQueue[i] \in Events
    OBVIOUS
  <2> QED BY <2>1, ConstantsAssumption DEF Events
<1>2. ASSUME NEW n \in Int, Held(base, u, n)
      PROVE  Held(base, v, n)'
  <2>1. CASE n <= u
    BY <2>1 DEF Held
  <2>2. CASE Reached(base, n)
    <3>1. Reached(base, n)'
      BY <2>2
    <3> QED BY <3>1 DEF Held
  <2>3. CASE \E i \in DOMAIN liveQueue : liveQueue[i] >= n
    BY <2>3 DEF Held
  <2> QED BY <1>2, <2>1, <2>2, <2>3 DEF Held
<1>3. ASSUME QueueChain(base, u), NEW i \in DOMAIN liveQueue'
      PROVE  \/ liveQueue'[i] - 1 <= v \/ Reached(base, liveQueue[i] - 1)'
             \/ \E j \in 1..(i - 1) : liveQueue'[j] >= liveQueue'[i] - 1
  <2>1. PICK n \in Int : n = liveQueue[i] - 1
    BY <1>1, <1>3
  <2>2. n <= u \/ Reached(base, n) \/ \E j \in 1..(i - 1) : liveQueue[j] >= n
    BY <1>3, <2>1 DEF QueueChain
  <2>3. liveQueue'[i] - 1 = n
    BY <2>1
  <2>4. CASE n <= u
    BY <2>3, <2>4
  <2>5. CASE Reached(base, n)
    <3>1. Reached(base, n)'
      BY <2>5
    <3> QED BY <2>3, <3>1
  <2>6. CASE \E j \in 1..(i - 1) : liveQueue[j] >= n
    BY <2>3, <2>6
  <2> QED BY <2>2, <2>4, <2>5, <2>6
<1>4. QueueChain(base, u) => QueueChain(base, v)'
  BY <1>3 DEF QueueChain
<1> QED
  BY <1>2, <1>4

\* The last event processed has a number.
LEMMA LastIsNumber ==
    ASSUME NEW M, Typed(M), NEW base \in Int
    PROVE  /\ Last(base) \in Int
           /\ (\A i \in DOMAIN delivered : delivered[i] = base + i) => Last(base) = base + Len(delivered)
<1>1. delivered \in Seq(Events)
  BY TypedFacts
<1>2. CASE delivered = <<>>
  BY <1>2 DEF Last
<1>3. CASE delivered # <<>>
  <2>1. Len(delivered) \in DOMAIN delivered /\ delivered[Len(delivered)] \in Events
    BY <1>1, <1>3
  <2> QED BY <1>3, <2>1 DEF Last, Events
<1> QED
  BY <1>2, <1>3

\* The events of messages are numbers.
LEMMA ComingEvents ==
    ASSUME NEW M, Vocabulary(M), Typed(M)
    PROVE  \A i \in DOMAIN Coming : Coming[i].type = "Event" => Coming[i].evt \in Int /\ Coming[i].evt \in Nat
<1>1. Coming \in Seq(M)
  BY ComingFacts
<1>2. \A i \in DOMAIN Coming : Coming[i] \in M
  BY <1>1
<1> QED
  BY <1>2 DEF Vocabulary, Events

\* What is coming when messages have only been added.
LEMMA ComingStays ==
    ASSUME NEW M, Vocabulary(M), Typed(M), NEW base \in Int, NEW until \in Int, NEW named,
           Carried(FALSE), ComingChain(base, until, named), Pushed(base, until, named),
           \A n \in Int : Held(base, until, n) => Held(base, until, n)'
    PROVE  /\ ComingChain(base, until, named)'
           /\ (subscribed' => subscribed /\ written' = written) => Pushed(base, until, named)'
<1>1. written \in Int
  BY TypedFacts
<1>2. \A i \in DOMAIN Coming : Coming[i].type = "Event" => Coming[i].evt \in Int
  BY ComingEvents
<1>3. PICK handled \in BOOLEAN : handled = FALSE
  OBVIOUS
<1>4. Carried(handled)
  BY <1>3
<1>5. handled => \A n \in Int : Brings(named, Coming[1], n) => Held(base, until, n)'
  BY <1>3
<1> QED
  BY <1>1, <1>2, <1>4, <1>5, ComingKept

\* What is reached stays reached while nothing is handed on.
LEMMA QuietReach ==
    ASSUME NEW M, Typed(M), Typed(M)', NEW base \in Int, Quiet
    PROVE  /\ \A n \in Int : Reached(base, n) => Reached(base, n)'
           /\ Chain(immediates, Last(base)) => Chain(immediates, Last(base))'
<1>1. PICK d \in {0, 1} : Moved(immediates, immediates', d)
  BY DEF Quiet
<1>2. PICK last \in Int : last = Last(base)
  BY LastIsNumber
<1>3. Last(base)' = last
  BY <1>2 DEF Quiet, Last
<1>4. immediates \in Seq(Tasks) /\ immediates' \in Seq(Tasks)
  BY DEF Typed, SharedTypeOK
<1>5. /\ Chain(immediates, last) => Chain(immediates', last)
      /\ \A n \in Int : ReachedIn(immediates, last, n) <=> ReachedIn(immediates', last, n)
  BY <1>1, <1>4, MovedChain
<1> QED
  BY <1>2, <1>3, <1>5 DEF Reached

\* Quiet steps leave no gap.
LEMMA QuietGapless ==
    ASSUME NEW M, Vocabulary(M), Typed(M), Typed(M)', NEW base \in Int, NEW until \in Int, NEW named,
           Gapless(base, until, named), Quiet
    PROVE  Gapless(base, until, named)'
<1>1. /\ UNCHANGED <<liveQueue, liveSub, pass, delivered, lives, written>>
      /\ Underway' \subseteq Underway \cup Orders
      /\ subscribed' => subscribed
  BY DEF Quiet
<1>2. \A n \in Int : Reached(base, n) => Reached(base, n)'
  BY QuietReach
<1>3. liveQueue \in Seq(Events) /\ written \in Int
  BY TypedFacts
<1>4. /\ \A n \in Int : Held(base, until, n) => Held(base, until, n)'
      /\ QueueChain(base, until) => QueueChain(base, until)'
  <2>1. until <= until /\ UNCHANGED liveQueue
    BY <1>1
  <2> QED BY <1>2, <1>3, <2>1, HeldStays
<1>5. Exist(until, named)'
  <2>1. \A i \in DOMAIN immediates' : IsTry(immediates'[i]) => \E k \in DOMAIN immediates : immediates'[i] = immediates[k]
    BY DEF Quiet, Moved
  <2>2. \A m \in Orders : m.type \notin {"Event", "Confirmed", "Subscribe"}
    BY Types DEF Orders
  <2>3. \A m \in Underway' : /\ m.type = "Event" => m.evt < written
                             /\ m.type = "Confirmed" => named[m.last] \in -1..(written - 1)
                             /\ Subscribing(m) => until = -1
    BY <1>1, <2>2 DEF Gapless, Exist, Subscribing
  <2> QED BY <1>1, <2>1, <2>3 DEF Gapless, Exist
<1>6. ASSUME Unbroken'
      PROVE  InLine(base, until, named)'
  <2>1. InLine(base, until, named)
    BY <1>1, <1>6 DEF Unbroken, Quiet, Gapless
  <2>2. \A i \in DOMAIN delivered' : delivered'[i] = base + i
    BY <1>1, <2>1 DEF InLine
  <2>3. Chain(immediates, Last(base))'
    BY <2>1, QuietReach DEF InLine
  <2>4. QueueChain(base, until)'
    BY <1>4, <2>1 DEF InLine
  <2>5. ASSUME connection' = "Connected"
        PROVE  ComingChain(base, until, named)' /\ Pushed(base, until, named)'
    <3>1. PICK handled \in BOOLEAN : /\ Carried(handled)
                                     /\ handled => Coming[1].type \notin {"Event", "Confirmed"}
      BY <2>5 DEF Quiet
    <3>2. ComingChain(base, until, named) /\ Pushed(base, until, named)
      BY <2>1, <2>5 DEF InLine, Quiet
    <3>3. handled => \A n \in Int : ~Brings(named, Coming[1], n)
      BY <3>1 DEF Brings
    <3> QED BY <1>1, <1>3, <1>4, <3>1, <3>2, <3>3, ComingKept, ComingEvents
  <2>6. lives' = 1 => Reached(base, until)'
    BY <1>1, <1>2, <2>1 DEF InLine
  <2> QED BY <2>2, <2>3, <2>4, <2>5, <2>6 DEF InLine
<1> QED
  BY <1>5, <1>6 DEF Gapless

\* Handlers run in immediates that try nothing.
LEMMA HandlerRuns ==
    ASSUME NEW M, Typed(M), NEW state, NEW type, DispatchIn(state, type)
    PROVE  /\ queue # <<>> /\ immediates # <<>> /\ ~IsTry(Head(immediates))
           /\ Head(queue) \in M /\ Head(queue).type = type /\ connection = state
           /\ 1 \in DOMAIN Coming /\ Coming[1] = Head(queue) /\ Head(queue) \in Underway
<1>1. queue # <<>> /\ immediates # <<>> /\ Head(queue) \in M /\ Head(queue).type = type
      /\ connection = state /\ Head(immediates).task = "process"
  BY DispatchFacts
<1>2. 1 \in DOMAIN Coming /\ Coming[1] = Head(queue)
  <2>1. queue \in Seq(M) /\ inbound \in Seq(M)
    BY TypedFacts
  <2> QED BY <1>1, <2>1 DEF Coming
<1> QED
  BY <1>1, <1>2 DEF Underway, IsTry

\* Handlers that schedule no try
LEMMA MovedScheduled ==
    ASSUME NEW M, Typed(M), immediates # <<>>, ~IsTry(Head(immediates)), NEW more \in Seq(M),
           Schedules(<<>>, more)
    PROVE  Moved(immediates, immediates', 1)
<1>1. <<>> \in Seq(Tasks) /\ DOMAIN <<>> = {}
  OBVIOUS
<1>2. /\ \A i \in DOMAIN immediates : i # 1 =>
             i - 1 \in DOMAIN immediates' /\ immediates'[i - 1] = immediates[i]
      /\ \A i \in DOMAIN immediates' : IsTry(immediates'[i]) =>
             i + 1 \in DOMAIN immediates /\ immediates'[i] = immediates[i + 1]
  BY <1>1, ScheduledPlaces
<1>3. immediates[1] = Head(immediates)
  BY TypedFacts
<1> QED
  BY <1>2, <1>3 DEF Moved

\* and handlers that enqueue nothing either.
LEMMA NothingMoved ==
    ASSUME NEW M, Typed(M), NEW state, NEW type, DispatchIn(state, type), Schedules(<<>>, <<>>),
           inbound' = inbound \/ inbound' = <<>>
    PROVE  /\ \E d \in {0, 1} : Moved(immediates, immediates', d)
           /\ queue' = Tail(queue)
           /\ \A i \in DOMAIN Coming' : \E k \in DOMAIN Coming : Coming'[i] = Coming[k]
<1>1. queue # <<>> /\ immediates # <<>> /\ ~IsTry(Head(immediates)) /\ <<>> \in Seq(M)
  BY HandlerRuns
<1>2. Moved(immediates, immediates', 1)
  BY <1>1, MovedScheduled
<1>3. queue' = Tail(queue)
  BY <1>1, NothingScheduled
<1>4. \A i \in DOMAIN Coming' : \E k \in DOMAIN Coming : Coming'[i] = Coming[k]
  BY <1>1, <1>3, ComingMovesUp
<1> QED
  BY <1>2, <1>3, <1>4

\* Handlers of messages without events.
LEMMA QuietHandlers ==
    ASSUME NEW M, Typed(M), SendRequest \/ HandleDropped \/ HandleClose \/ IgnorePackage
    PROVE  Quiet
<1>1. /\ UNCHANGED <<lastProcessed, readUntil, liveQueue, liveSub, pass, delivered, lives, written>>
      /\ inbound' = inbound \/ (inbound' = <<>> /\ connection' # "Connected")
      /\ connection' = "Connected" => connection = "Connected"
      /\ subscribed' => subscribed
      /\ Schedules(<<>>, <<>>)
  BY DEF SendRequest, HandleDropped, HandleClose, IgnorePackage, subscription, flags, wire, server, seen,
         DispatchIn
<1>2. promised' = -1 => promised = -1
  BY DEF SendRequest, HandleDropped, HandleClose, IgnorePackage, seen, TellDropped, EndPromise
<1>3. PICK state, type : /\ DispatchIn(state, type)
                         /\ state = "Connected" => type \notin {"Event", "Confirmed"}
  BY DEF SendRequest, HandleDropped, HandleClose, IgnorePackage, Dispatch
<1>4. /\ queue # <<>> /\ Head(queue).type = type /\ connection = state
      /\ Coming[1] = Head(queue) /\ Head(queue) \in Underway
  BY <1>3, HandlerRuns
<1>5. /\ \E d \in {0, 1} : Moved(immediates, immediates', d)
      /\ queue' = Tail(queue)
      /\ \A i \in DOMAIN Coming' : \E k \in DOMAIN Coming : Coming'[i] = Coming[k]
  BY <1>1, <1>3, NothingMoved
<1>6. connection' = "Connected" =>
           /\ connection = "Connected"
           /\ \E handled \in BOOLEAN : /\ Carried(handled)
                                       /\ handled => Coming[1].type \notin {"Event", "Confirmed"}
  <2> SUFFICES ASSUME connection' = "Connected"
               PROVE  Carried(TRUE) /\ Coming[1].type \notin {"Event", "Confirmed"}
    BY <1>1
  <2> QED BY <1>1, <1>3, <1>4, <1>5, CarriedTail
<1>7. requests' \subseteq requests \cup {Head(queue)}
  BY DEF SendRequest, HandleDropped, HandleClose, IgnorePackage, wire
<1>8. Underway' \subseteq Underway \cup Orders
  BY <1>4, <1>5, <1>7 DEF Underway
<1> QED
  BY <1>1, <1>2, <1>5, <1>6, <1>8 DEF Quiet

\* Immediates of the subscription, and steps that change nothing.
LEMMA QuietImmediates ==
    ASSUME NEW M, Typed(M),
           RunEmitDropped \/ RunUnsubscribe \/ IdleTick \/ ThrowClosed \/ Receive \/ Stop \/ UNCHANGED vars
    PROVE  Quiet
<1>1. /\ UNCHANGED <<lastProcessed, readUntil, liveQueue, liveSub, pass, delivered, lives, written>>
      /\ connection' = "Connected" => connection = "Connected"
      /\ subscribed' => subscribed
      /\ requests' \subseteq requests \cup {Unsubscribe}
      /\ Receive \/ UNCHANGED <<queue, inbound>>
  BY DEF RunEmitDropped, RunUnsubscribe, IdleTick, ThrowClosed, Receive, Stop, vars, subscription, flags,
         wire, server, seen, node, program
<1>2. promised' = -1 => promised = -1
  BY DEF RunEmitDropped, RunUnsubscribe, IdleTick, ThrowClosed, Receive, Stop, vars, seen, TellDropped,
         EndPromise
<1>3. Coming' = Coming
  <2>1. CASE Receive
    BY <2>1, ComingReceived
  <2>2. CASE UNCHANGED <<queue, inbound>>
    BY <2>2 DEF Coming
  <2> QED BY <1>1, <2>1, <2>2
<1>4. Carried(FALSE)
  BY <1>3, CarriedSame
<1>5. \E d \in {0, 1} : Moved(immediates, immediates', d)
  <2>1. immediates \in Seq(Tasks)
    BY TypedFacts
  <2>2. CASE RunEmitDropped \/ RunUnsubscribe \/ IdleTick
    <3>1. immediates # <<>> /\ ~IsTry(Head(immediates)) /\ immediates' = Tail(immediates)
      BY <2>2 DEF RunEmitDropped, RunUnsubscribe, IdleTick, Runs, IsTry
    <3> QED BY <2>1, <3>1, MovedTail
  <2>3. CASE Receive \/ Stop
    <3>1. PICK t \in Tasks : immediates' = Append(immediates, t) /\ ~IsTry(t)
      BY <2>3, TaskKinds, TaskEvents DEF Receive, Stop
    <3> QED BY <2>1, <3>1, MovedAppend
  <2>4. CASE ThrowClosed \/ UNCHANGED vars
    <3>1. immediates' = immediates
      BY <2>4 DEF ThrowClosed, vars, node
    <3>2. \A i \in DOMAIN immediates : i + 0 = i /\ i - 0 = i
      BY <2>1
    <3>3. Moved(immediates, immediates', 0)
      BY <3>1, <3>2 DEF Moved
    <3> QED BY <3>3
  <2> QED BY <2>2, <2>3, <2>4
<1>6. Underway' \subseteq Underway \cup Orders
  BY <1>1, <1>3 DEF Underway, Orders
<1> QED
  BY <1>1, <1>2, <1>4, <1>5, <1>6 DEF Quiet

\* Steps that send a message without events.
LEMMA QuietMessages ==
    ASSUME NEW M, Vocabulary(M), Typed(M), Protocol, Close \/ FailRead \/ Drop
    PROVE  Quiet
<1>1. /\ UNCHANGED <<lastProcessed, readUntil, liveQueue, liveSub, pass, delivered, lives, written>>
      /\ UNCHANGED <<promised, connection>>
      /\ subscribed' => subscribed
      /\ requests' \subseteq requests
  BY DEF Close, FailRead, Drop, Answer, subscription, flags, wire, server, seen, node, program
<1>2. PICK x \in {CloseConnection, Failure, Dropped} :
          \/ queue' = Append(queue, x) /\ inbound' = inbound /\ immediates' = Append(immediates, Process)
          \/ inbound' = Append(inbound, x) /\ queue' = queue /\ immediates' = immediates
  BY DEF Close, FailRead, Drop, Answer, wire, node
<1>3. x \in M /\ x.type # "Event" /\ x \in Orders
  BY Types DEF Vocabulary, Orders
<1>4. Carried(FALSE) /\ \A i \in DOMAIN Coming' : Coming'[i] = x \/ \E k \in DOMAIN Coming : Coming'[i] = Coming[k]
  BY <1>2, <1>3, CarriedEnqueued, CarriedSent
<1>5. Moved(immediates, immediates', 0)
  <2>1. immediates \in Seq(Tasks)
    BY TypedFacts
  <2>2. CASE immediates' = Append(immediates, Process)
    BY <2>1, <2>2, MovedAppend, TaskKinds, TaskEvents
  <2>3. CASE immediates' = immediates
    <3>1. \A i \in DOMAIN immediates : i + 0 = i /\ i - 0 = i
      BY <2>1
    <3> QED BY <2>3, <3>1 DEF Moved
  <2> QED BY <1>2, <2>2, <2>3
<1>6. Underway' \subseteq Underway \cup Orders
  BY <1>1, <1>3, <1>4 DEF Underway
<1> QED
  BY <1>1, <1>4, <1>5, <1>6 DEF Quiet

\* All shared steps but two are quiet.
LEMMA SharedQuiet ==
    ASSUME NEW M, Vocabulary(M), Typed(M), Protocol, SharedNext
    PROVE  Quiet \/ HandleFailure \/ HandleEvent
<1>1. CASE SharedImmediate
  BY <1>1, QuietHandlers, QuietImmediates DEF SharedImmediate
<1> QED
  BY <1>1, QuietImmediates, QuietMessages DEF SharedNext

\* An event past the last one processed is handed on, which is the next one.
LEMMA TriedReach ==
    ASSUME NEW M, Typed(M), NEW base \in Int, NEW isNew, NEW mark, TryProcessIf(isNew, mark),
           isNew <=> Head(immediates).evt > Last(base)
    PROVE  /\ Head(immediates).evt \in Events
           /\ \A n \in Int : Reached(base, n) => Reached(base, n)'
           /\ Last(base)' = IF isNew THEN Head(immediates).evt ELSE Last(base)
           /\ Chain(immediates, Last(base)) =>
                  /\ Chain(immediates, Last(base))'
                  /\ isNew => Head(immediates).evt = Last(base) + 1
<1>1. /\ immediates \in Seq(Tasks) /\ immediates # <<>> /\ IsTry(Head(immediates))
      /\ immediates' = Tail(immediates) /\ delivered \in Seq(Events)
  BY TypedFacts DEF TryProcessIf, Runs, IsTry
<1>2. Head(immediates).evt \in Events /\ Head(immediates).evt \in Int
  <2>1. Head(immediates) \in Tasks
    BY <1>1
  <2> QED BY <1>1, <2>1, TaskEvents
<1>3. PICK last \in Int : last = Last(base)
  BY LastIsNumber
<1>4. Last(base)' = IF isNew THEN Head(immediates).evt ELSE last
  <2>1. CASE isNew
    <3>1. delivered' = Append(delivered, Head(immediates).evt)
      BY <1>3, <2>1 DEF TryProcessIf
    <3>2. delivered' # <<>> /\ delivered'[Len(delivered')] = Head(immediates).evt
      BY <1>1, <1>2, <3>1
    <3> QED BY <2>1, <3>2 DEF Last
  <2>2. CASE ~isNew
    <3>1. delivered' = delivered
      BY <2>2 DEF TryProcessIf
    <3> QED BY <1>3, <2>2, <3>1 DEF Last
  <2> QED BY <2>1, <2>2
<1>5. PICK new \in Int : new = Last(base)'
  BY <1>2, <1>3, <1>4
<1>6. IF Head(immediates).evt > last THEN new = Head(immediates).evt ELSE new = last
  BY <1>3, <1>4, <1>5
<1>7. /\ \A n \in Int : ReachedIn(immediates, last, n) => ReachedIn(immediates', new, n)
      /\ Chain(immediates, last) => new \in {last, last + 1} /\ Chain(immediates', new)
  BY <1>1, <1>6, TriedChain
<1>8. Chain(immediates, last) /\ isNew => Head(immediates).evt = last + 1
  BY <1>2, <1>3, <1>6, <1>7
<1> QED
  BY <1>2, <1>3, <1>4, <1>5, <1>7, <1>8 DEF Reached

\* It leaves no gap.
LEMMA TriedGapless ==
    ASSUME NEW M, Vocabulary(M), Typed(M), Typed(M)', NEW base \in Int, NEW until \in Int, NEW named,
           Gapless(base, until, named), NEW isNew, NEW mark, TryProcessIf(isNew, mark),
           isNew <=> Head(immediates).evt > Last(base)
    PROVE  Gapless(base, until, named)'
<1>1. /\ UNCHANGED <<liveQueue, liveSub, pass, lives, written, subscribed, connection, promised>>
      /\ UNCHANGED <<requests, inbound, queue>>
      /\ immediates # <<>> /\ immediates' = Tail(immediates)
  BY DEF TryProcessIf, Runs, flags, wire, server
<1>2. /\ \A n \in Int : Reached(base, n) => Reached(base, n)'
      /\ Chain(immediates, Last(base)) =>
             /\ Chain(immediates, Last(base))'
             /\ isNew => Head(immediates).evt = Last(base) + 1
  BY TriedReach
<1>3. /\ liveQueue \in Seq(Events) /\ written \in Int /\ immediates \in Seq(Tasks)
      /\ delivered \in Seq(Events)
  BY TypedFacts
<1>4. /\ \A n \in Int : Held(base, until, n) => Held(base, until, n)'
      /\ QueueChain(base, until) => QueueChain(base, until)'
  <2>1. until <= until /\ UNCHANGED liveQueue
    BY <1>1
  <2> QED BY <1>2, <1>3, <2>1, HeldStays
<1>5. Coming' = Coming /\ Underway' = Underway
  BY <1>1 DEF Coming, Underway
<1>6. Exist(until, named)'
  <2>1. \A i \in DOMAIN immediates' : i + 1 \in DOMAIN immediates /\ immediates'[i] = immediates[i + 1]
    BY <1>1, <1>3
  <2> QED BY <1>1, <1>5, <2>1 DEF Gapless, Exist
<1>7. ASSUME Unbroken'
      PROVE  InLine(base, until, named)'
  <2>1. InLine(base, until, named)
    BY <1>1, <1>7 DEF Unbroken, Gapless
  <2>2. \A i \in DOMAIN delivered' : delivered'[i] = base + i
    <3>1. CASE isNew
      <4>1. delivered' = Append(delivered, Head(immediates).evt)
        <5>1. ~ (~isNew)
          BY <3>1
        <5> QED BY <5>1 DEF TryProcessIf
      <4>2. Head(immediates).evt = base + Len(delivered) + 1
        <5>1. Head(immediates).evt = Last(base) + 1
          BY <1>2, <2>1, <3>1 DEF InLine
        <5>2. Last(base) = base + Len(delivered)
          BY <2>1, LastIsNumber DEF InLine
        <5> QED BY <5>1, <5>2
      <4>3. \A i \in DOMAIN delivered : delivered[i] = base + i
        BY <2>1 DEF InLine
      <4> QED BY <1>3, <4>1, <4>2, <4>3
    <3>2. CASE ~isNew
      <4>1. delivered' = delivered
        BY <3>2 DEF TryProcessIf
      <4> QED BY <2>1, <4>1 DEF InLine
    <3> QED BY <3>1, <3>2
  <2>3. Chain(immediates, Last(base))'
    BY <1>2, <2>1 DEF InLine
  <2>4. QueueChain(base, until)'
    BY <1>4, <2>1 DEF InLine
  <2>5. ASSUME connection' = "Connected"
        PROVE  ComingChain(base, until, named)' /\ Pushed(base, until, named)'
    <3>1. Carried(FALSE)
      BY <1>5, CarriedSame
    <3>2. ComingChain(base, until, named) /\ Pushed(base, until, named)
      BY <1>1, <2>1, <2>5 DEF InLine
    <3> QED BY <1>1, <1>3, <1>4, <3>1, <3>2, ComingKept, ComingEvents
  <2>6. lives' = 1 => Reached(base, until)'
    BY <1>1, <1>2, <2>1 DEF InLine
  <2> QED BY <2>2, <2>3, <2>4, <2>5, <2>6 DEF InLine
<1> QED
  BY <1>6, <1>7 DEF Gapless

\* What is reached when a handler has scheduled tries.
LEMMA HandlerReach ==
    ASSUME NEW M, Typed(M), immediates # <<>>, ~IsTry(Head(immediates)), NEW base \in Int,
           NEW tasks \in Seq(Tasks), NEW more \in Seq(M), Schedules(tasks, more), UNCHANGED delivered
    PROVE  /\ \A n \in Int : Reached(base, n)' <=>
                  \/ Reached(base, n)
                  \/ \E k \in DOMAIN tasks : IsTry(tasks[k]) /\ tasks[k].evt >= n
           /\ Chain(immediates, Last(base)) /\ Follows(immediates, Last(base), tasks) =>
                  Chain(immediates, Last(base))'
           /\ \A i \in DOMAIN immediates' : IsTry(immediates'[i]) =>
                  \/ \E k \in DOMAIN immediates : immediates'[i] = immediates[k]
                  \/ \E k \in DOMAIN tasks : immediates'[i] = tasks[k]
<1>1. PICK last \in Int : last = Last(base)
  BY LastIsNumber
<1>2. Last(base)' = last
  BY <1>1 DEF Last
<1>3. /\ \A n \in Int : ReachedIn(immediates', last, n) <=>
             \/ ReachedIn(immediates, last, n)
             \/ \E k \in DOMAIN tasks : IsTry(tasks[k]) /\ tasks[k].evt >= n
      /\ Chain(immediates, last) /\ Follows(immediates, last, tasks) => Chain(immediates', last)
  BY ScheduledChain
<1>4. \A i \in DOMAIN immediates' : IsTry(immediates'[i]) =>
          \/ \E k \in DOMAIN immediates : immediates'[i] = immediates[k]
          \/ \E k \in DOMAIN tasks : immediates'[i] = tasks[k]
  BY ScheduledPlaces
<1> QED
  BY <1>1, <1>2, <1>3, <1>4 DEF Reached

\* Handlers that schedule nothing.
LEMMA IdleHandlerReach ==
    ASSUME NEW M, Typed(M), immediates # <<>>, ~IsTry(Head(immediates)), NEW base \in Int,
           NEW more \in Seq(M), Schedules(<<>>, more), UNCHANGED delivered
    PROVE  /\ \A n \in Int : Reached(base, n)' <=> Reached(base, n)
           /\ Chain(immediates, Last(base)) => Chain(immediates, Last(base))'
           /\ \A i \in DOMAIN immediates' : IsTry(immediates'[i]) =>
                  \E k \in DOMAIN immediates : immediates'[i] = immediates[k]
<1>1. <<>> \in Seq(Tasks) /\ DOMAIN <<>> = {}
  OBVIOUS
<1>2. Follows(immediates, Last(base), <<>>)
  BY <1>1 DEF Follows
<1>3. /\ \A n \in Int : Reached(base, n)' <=>
                  \/ Reached(base, n)
                  \/ \E k \in DOMAIN <<>> : IsTry(<<>>[k]) /\ <<>>[k].evt >= n
      /\ Chain(immediates, Last(base)) /\ Follows(immediates, Last(base), <<>>) =>
                  Chain(immediates, Last(base))'
      /\ \A i \in DOMAIN immediates' : IsTry(immediates'[i]) =>
                  \/ \E k \in DOMAIN immediates : immediates'[i] = immediates[k]
                  \/ \E k \in DOMAIN <<>> : immediates'[i] = <<>>[k]
  BY <1>1, HandlerReach
<1> QED
  BY <1>1, <1>2, <1>3

\* What is reached includes all before.
LEMMA ReachedEarlier ==
    ASSUME NEW M, Typed(M), NEW base \in Int, NEW n \in Int, NEW m \in Int, m <= n, Reached(base, n)
    PROVE  Reached(base, m)
<1>1. Last(base) \in Int /\ immediates \in Seq(Tasks)
  BY LastIsNumber, TypedFacts
<1> QED
  BY <1>1, ReachedBefore DEF Reached

\* A live event waits, or is handed on at once.
LEMMA HandleEventGapless ==
    ASSUME NEW M, Vocabulary(M), Typed(M), Typed(M)', Protocol, NEW base \in Int, NEW until \in Int,
           NEW named, Gapless(base, until, named), HandleEvent
    PROVE  /\ Gapless(base, until, named)'
           /\ \A n \in Int : Reached(base, n) => Reached(base, n)'
<1>1. /\ queue # <<>> /\ immediates # <<>> /\ ~IsTry(Head(immediates))
      /\ Head(queue) \in M /\ Head(queue).type = "Event" /\ connection = "Connected"
      /\ 1 \in DOMAIN Coming /\ Coming[1] = Head(queue) /\ Head(queue) \in Underway
  BY HandlerRuns DEF HandleEvent, Dispatch
<1>2. /\ UNCHANGED <<lastProcessed, readUntil, liveSub, pass, delivered, lives, written>>
      /\ UNCHANGED <<subscribed, connection, promised, inbound, requests>>
  BY DEF HandleEvent, wire, server, seen
<1>3. PICK e \in Events : e = Head(queue).evt
  BY <1>1 DEF Vocabulary
<1>4. e \in Int /\ e < written /\ written \in Int /\ liveQueue \in Seq(Events) /\ immediates \in Seq(Tasks)
  <2>1. e \in Int
    BY ConstantsAssumption DEF Events
  <2>2. e < written
    BY <1>1, <1>3 DEF Gapless, Exist
  <2> QED BY <2>1, <2>2, TypedFacts
<1>5. PICK events \in Seq(Events) : events = Append(liveQueue, e)
  <2>1. Append(liveQueue, e) \in Seq(Events)
    BY <1>3, <1>4
  <2> QED BY <2>1
<1>6. /\ DOMAIN events = 1..(Len(liveQueue) + 1) /\ Len(liveQueue) \in Nat
      /\ DOMAIN liveQueue = 1..Len(liveQueue)
      /\ \A i \in 1..Len(liveQueue) : events[i] = liveQueue[i]
      /\ events[Len(liveQueue) + 1] = e
      /\ Len(liveQueue) + 1 \in DOMAIN events
  BY <1>4, <1>5
<1>7. \/ /\ allowProcessing /\ liveQueue' = <<>> /\ Schedules(Tries(events), <<>>)
      \/ ~allowProcessing /\ liveQueue' = events /\ Schedules(<<>>, <<>>)
  BY <1>3, <1>5 DEF HandleEvent, HandsOn
<1>8. queue' = Tail(queue)
  <2>1. queue' = Tail(queue) \o <<>>
    BY <1>7 DEF Schedules
  <2> QED BY <1>1, <2>1, TypedFacts
<1>9. Carried(TRUE) /\ Underway' \subseteq Underway
  <2>1. Carried(TRUE) /\ \A i \in DOMAIN Coming' : \E k \in DOMAIN Coming : Coming'[i] = Coming[k]
    BY <1>1, <1>2, <1>8, CarriedTail
  <2> QED BY <1>2, <2>1 DEF Underway
<1>10. Unbroken => (connection = "Connected" => Held(base, until, e - 1))
  <2>1. 1..(1 - 1) = {}
    OBVIOUS
  <2> QED BY <1>1, <1>3, <2>1 DEF Gapless, InLine, ComingChain
<1>11. \A n \in Int : Brings(named, Coming[1], n) => n <= e
  BY <1>1, <1>3, <1>4 DEF Brings
<1>12. <<>> \in Seq(M) /\ DOMAIN <<>> = {}
  OBVIOUS
<1>13. CASE allowProcessing /\ liveQueue' = <<>> /\ Schedules(Tries(events), <<>>)
  <2>1. lives = 1 /\ liveQueue = <<>> /\ Len(liveQueue) = 0
    BY <1>13 DEF Protocol, Flags
  <2>2. DOMAIN events = {1} /\ events[1] = e
    BY <1>6, <2>1
  <2>3. Tries(events) \in Seq(Tasks) /\ \A n \in Int :
            (\E k \in DOMAIN Tries(events) : IsTry(Tries(events)[k]) /\ Tries(events)[k].evt >= n) <=> e >= n
    BY <2>2, TriesType, TriesReach
  <2>4. /\ \A n \in Int : Reached(base, n)' <=>
               \/ Reached(base, n)
               \/ \E k \in DOMAIN Tries(events) : IsTry(Tries(events)[k]) /\ Tries(events)[k].evt >= n
        /\ Chain(immediates, Last(base)) /\ Follows(immediates, Last(base), Tries(events)) =>
               Chain(immediates, Last(base))'
        /\ \A i \in DOMAIN immediates' : IsTry(immediates'[i]) =>
               \/ \E k \in DOMAIN immediates : immediates'[i] = immediates[k]
               \/ \E k \in DOMAIN Tries(events) : immediates'[i] = Tries(events)[k]
    BY <1>1, <1>2, <1>12, <1>13, <2>3, HandlerReach
  <2>5. \A n \in Int : Reached(base, n)' <=> Reached(base, n) \/ e >= n
    BY <2>3, <2>4
  <2>6. Exist(until, named)'
    <3>1. \A k \in DOMAIN Tries(events) : Tries(events)[k].evt < written
      BY <1>4, <2>2, TriesType, TaskEvents DEF Tries
    <3>2. \A i \in DOMAIN immediates' : IsTry(immediates'[i]) => immediates'[i].evt < written
      BY <2>4, <3>1 DEF Gapless, Exist
    <3> QED BY <1>2, <1>9, <1>12, <1>13, <3>2 DEF Gapless, Exist
  <2>7. \A n \in Int : Held(base, until, n) => Held(base, until, n)'
    <3> SUFFICES ASSUME NEW n \in Int, Held(base, until, n) PROVE Held(base, until, n)'
      OBVIOUS
    <3>1. n <= until \/ Reached(base, n)
      BY <1>12, <2>1 DEF Held
    <3>2. Reached(base, n) => Reached(base, n)'
      BY <2>5
    <3> QED BY <3>1, <3>2 DEF Held
  <2>8. \A n \in Int : Brings(named, Coming[1], n) => Held(base, until, n)'
    <3> SUFFICES ASSUME NEW n \in Int, n <= e PROVE Held(base, until, n)'
      BY <1>11
    <3>1. Reached(base, n)'
      BY <1>4, <2>5
    <3> QED BY <3>1 DEF Held
  <2>9. ASSUME Unbroken'
        PROVE  InLine(base, until, named)'
    <3>1. InLine(base, until, named) /\ Held(base, until, e - 1)
      BY <1>1, <1>2, <1>10, <2>9 DEF Unbroken, Gapless
    <3>2. Reached(base, e - 1)
      <4>1. Reached(base, until) /\ e - 1 \in Int
        BY <1>4, <2>1, <3>1 DEF InLine
      <4>2. e - 1 <= until => Reached(base, e - 1)
        BY <4>1, ReachedEarlier
      <4> QED BY <1>12, <2>1, <3>1, <4>2 DEF Held
    <3>3. Follows(immediates, Last(base), Tries(events))
      <4>1. \A i \in DOMAIN events : \/ ReachedIn(immediates, Last(base), events[i] - 1)
                                     \/ \E j \in 1..(i - 1) : events[j] >= events[i] - 1
        BY <2>2, <3>2 DEF Reached
      <4> QED BY <1>4, <4>1, LastIsNumber, TriesFollow
    <3>4. Chain(immediates, Last(base))'
      BY <2>4, <3>1, <3>3 DEF InLine
    <3>5. QueueChain(base, until)'
      BY <1>12, <1>13 DEF QueueChain
    <3>6. ComingChain(base, until, named)' /\ Pushed(base, until, named)'
      <4>1. ComingChain(base, until, named) /\ Pushed(base, until, named)
        BY <1>1, <3>1 DEF InLine
      <4> QED BY <1>2, <1>4, <1>9, <2>7, <2>8, <4>1, ComingKept, ComingEvents
    <3>7. Reached(base, until)'
      BY <2>1, <2>5, <3>1 DEF InLine
    <3> QED BY <1>2, <3>1, <3>4, <3>5, <3>6, <3>7 DEF InLine
  <2> QED BY <2>5, <2>6, <2>9 DEF Gapless
<1>14. CASE ~allowProcessing /\ liveQueue' = events /\ Schedules(<<>>, <<>>)
  <2>1. /\ \A n \in Int : Reached(base, n)' <=> Reached(base, n)
        /\ Chain(immediates, Last(base)) => Chain(immediates, Last(base))'
        /\ \A i \in DOMAIN immediates' : IsTry(immediates'[i]) =>
               \E k \in DOMAIN immediates : immediates'[i] = immediates[k]
    BY <1>1, <1>2, <1>12, <1>14, IdleHandlerReach
  <2>2. \A i \in DOMAIN events : i \in DOMAIN liveQueue \/ i = Len(liveQueue) + 1
    BY <1>6
  <2>3. \A i \in DOMAIN liveQueue : i \in DOMAIN events /\ events[i] = liveQueue[i]
    BY <1>6
  <2>4. Exist(until, named)'
    <3>1. \A i \in DOMAIN liveQueue' : liveQueue'[i] < written
      BY <1>4, <1>6, <1>14, <2>2, <2>3 DEF Gapless, Exist
    <3> QED BY <1>2, <1>9, <2>1, <3>1 DEF Gapless, Exist
  <2>5. \A n \in Int : Held(base, until, n) => Held(base, until, n)'
    <3> SUFFICES ASSUME NEW n \in Int, Held(base, until, n) PROVE Held(base, until, n)'
      OBVIOUS
    <3>1. Reached(base, n) => Reached(base, n)'
      BY <2>1
    <3>2. (\E i \in DOMAIN liveQueue : liveQueue[i] >= n) => \E i \in DOMAIN liveQueue' : liveQueue'[i] >= n
      BY <1>14, <2>3
    <3> QED BY <3>1, <3>2 DEF Held
  <2>6. \A n \in Int : Brings(named, Coming[1], n) => Held(base, until, n)'
    <3> SUFFICES ASSUME NEW n \in Int, n <= e PROVE Held(base, until, n)'
      BY <1>11
    <3>1. \E i \in DOMAIN liveQueue' : liveQueue'[i] >= n
      BY <1>4, <1>6, <1>14
    <3> QED BY <3>1 DEF Held
  <2>7. ASSUME Unbroken'
        PROVE  InLine(base, until, named)'
    <3>1. InLine(base, until, named) /\ Held(base, until, e - 1)
      BY <1>1, <1>2, <1>10, <2>7 DEF Unbroken, Gapless
    <3>2. Chain(immediates, Last(base))'
      BY <2>1, <3>1 DEF InLine
    <3>3. ASSUME NEW i \in DOMAIN events
          PROVE  \/ events[i] - 1 <= until \/ Reached(base, events[i] - 1)'
                 \/ \E j \in 1..(i - 1) : events[j] >= events[i] - 1
      <4>1. CASE i \in DOMAIN liveQueue
        <5>1. PICK n \in Int : n = liveQueue[i] - 1
          <6>1. liveQueue[i] \in Events
            BY <1>4, <4>1
          <6> QED BY <6>1, ConstantsAssumption DEF Events
        <5>2. events[i] - 1 = n
          BY <2>3, <4>1, <5>1
        <5>3. n <= until \/ Reached(base, n) \/ \E j \in 1..(i - 1) : liveQueue[j] >= n
          BY <3>1, <4>1, <5>1 DEF InLine, QueueChain
        <5>4. \A j \in 1..(i - 1) : events[j] = liveQueue[j]
          BY <1>6, <4>1
        <5>5. Reached(base, n) => Reached(base, n)'
          BY <2>1
        <5> QED BY <5>2, <5>3, <5>4, <5>5
      <4>2. CASE i = Len(liveQueue) + 1
        <5>1. PICK n \in Int : n = e - 1
          BY <1>4
        <5>2. events[i] - 1 = n
          BY <1>6, <4>2, <5>1
        <5>3. n <= until \/ Reached(base, n) \/ \E j \in DOMAIN liveQueue : liveQueue[j] >= n
          BY <3>1, <5>1 DEF Held
        <5>4. \A j \in DOMAIN liveQueue : j \in 1..(i - 1) /\ events[j] = liveQueue[j]
          BY <1>6, <4>2
        <5>5. Reached(base, n) => Reached(base, n)'
          BY <2>1
        <5> QED BY <5>2, <5>3, <5>4, <5>5
      <4> QED BY <2>2, <4>1, <4>2
    <3>4. QueueChain(base, until)'
      BY <1>14, <3>3 DEF QueueChain
    <3>5. ComingChain(base, until, named)' /\ Pushed(base, until, named)'
      <4>1. ComingChain(base, until, named) /\ Pushed(base, until, named)
        BY <1>1, <3>1 DEF InLine
      <4> QED BY <1>2, <1>4, <1>9, <2>5, <2>6, <4>1, ComingKept, ComingEvents
    <3>6. lives' = 1 => Reached(base, until)'
      BY <1>2, <2>1, <3>1 DEF InLine
    <3> QED BY <1>2, <3>1, <3>2, <3>4, <3>5, <3>6 DEF InLine
  <2> QED BY <2>1, <2>4, <2>7 DEF Gapless
<1> QED
  BY <1>7, <1>13, <1>14

\* Nothing changes of what is processed and waits.
LEMMA SameReach ==
    ASSUME UNCHANGED <<immediates, delivered>>, NEW base \in Int
    PROVE  /\ \A n \in Int : Reached(base, n)' <=> Reached(base, n)
           /\ Chain(immediates, Last(base)) => Chain(immediates, Last(base))'
BY DEF Reached, Last

\* The server answers a request.
LEMMA AnswerGapless ==
    ASSUME NEW M, Vocabulary(M), Typed(M), Typed(M)', NEW base \in Int, NEW until \in Int, NEW named,
           Gapless(base, until, named),
           NEW request, NEW package \in M, Answer(request, package), UNCHANGED written,
           package.type # "Event", Subscribing(package) => Subscribing(request),
           package.type = "Confirmed" => named[package.last] = written - 1,
           subscribed' => subscribed \/ package.type = "Confirmed"
    PROVE  Gapless(base, until, named)'
<1>1. /\ UNCHANGED <<liveQueue, liveSub, pass, delivered, lives, connection, promised, immediates, queue>>
      /\ request \in requests /\ requests' = requests \ {request}
      /\ inbound' = Append(inbound, package)
  BY DEF Answer, subscription, flags, node, program, seen
<1>2. /\ \A n \in Int : Reached(base, n)' <=> Reached(base, n)
      /\ Chain(immediates, Last(base)) => Chain(immediates, Last(base))'
  BY <1>1, SameReach
<1>3. written \in Nat /\ liveQueue \in Seq(Events)
  BY TypedFacts
<1>4. /\ \A n \in Int : Held(base, until, n) => Held(base, until, n)'
      /\ QueueChain(base, until) => QueueChain(base, until)'
  <2>1. until <= until /\ UNCHANGED liveQueue
    BY <1>1
  <2> QED BY <1>2, <1>3, <2>1, HeldStays
<1>5. /\ Carried(FALSE)
      /\ \A i \in DOMAIN Coming' : Coming'[i] = package \/ \E k \in DOMAIN Coming : Coming'[i] = Coming[k]
      /\ \E i \in DOMAIN Coming' : Coming'[i] = package
  BY <1>1, CarriedSent
<1>6. Underway' \subseteq Underway \cup {package} /\ request \in Underway
  BY <1>1, <1>5 DEF Underway
<1>7. Exist(until, named)'
  <2>1. \A m \in Underway' : /\ m.type = "Event" => m.evt < written
                             /\ m.type = "Confirmed" => named[m.last] \in -1..(written - 1)
                             /\ Subscribing(m) => until = -1
    <3>1. written - 1 \in -1..(written - 1)
      BY <1>3
    <3> QED BY <1>6, <3>1 DEF Gapless, Exist
  <2> QED BY <1>1, <2>1 DEF Gapless, Exist
<1>8. ASSUME Unbroken'
      PROVE  InLine(base, until, named)'
  <2>1. InLine(base, until, named)
    BY <1>1, <1>8 DEF Unbroken, Gapless
  <2>2. ASSUME connection' = "Connected"
        PROVE  ComingChain(base, until, named)' /\ Pushed(base, until, named)'
    <3>1. ComingChain(base, until, named) /\ Pushed(base, until, named)
      BY <1>1, <2>1, <2>2 DEF InLine
    <3>2. /\ ComingChain(base, until, named)'
          /\ (subscribed' => subscribed /\ written' = written) => Pushed(base, until, named)'
      BY <1>4, <1>5, <3>1, ComingStays
    <3>3. CASE package.type = "Confirmed"
      <4>1. Brings(named, package, written' - 1)
        BY <1>3, <3>3 DEF Brings
      <4>2. Pushed(base, until, named)'
        BY <1>5, <4>1 DEF Pushed
      <4> QED BY <3>2, <4>2
    <3>4. CASE package.type # "Confirmed"
      BY <3>2, <3>4
    <3> QED BY <3>3, <3>4
  <2>3. \A i \in DOMAIN delivered' : delivered'[i] = base + i
    BY <1>1, <2>1 DEF InLine
  <2>4. Chain(immediates, Last(base))' /\ QueueChain(base, until)'
    BY <1>2, <1>4, <2>1 DEF InLine
  <2>5. lives' = 1 => Reached(base, until)'
    BY <1>1, <1>2, <2>1 DEF InLine
  <2> QED BY <2>2, <2>3, <2>4, <2>5 DEF InLine
<1> QED
  BY <1>7, <1>8 DEF Gapless

\* Events are written, and pushed in order.
LEMMA WriteGapless ==
    ASSUME NEW M, Vocabulary(M), Typed(M), Typed(M)', NEW base \in Int, NEW until \in Int, NEW named,
           Gapless(base, until, named), NEW n \in (written + 1)..MaxEvents, WriteUpTo(n)
    PROVE  Gapless(base, until, named)'
<1>1. /\ UNCHANGED <<liveQueue, liveSub, pass, delivered, lives, connection, promised, immediates>>
      /\ UNCHANGED <<queue, requests, subscribed>>
      /\ connection = "Connected" /\ written' = n
  BY DEF WriteUpTo, subscription, flags, node, program, seen
<1>2. /\ \A m \in Int : Reached(base, m)' <=> Reached(base, m)
      /\ Chain(immediates, Last(base)) => Chain(immediates, Last(base))'
  BY <1>1, SameReach
<1>3. /\ written \in Nat /\ liveQueue \in Seq(Events) /\ inbound \in Seq(M) /\ immediates \in Seq(Tasks)
      /\ n \in Nat /\ written < n /\ n <= MaxEvents /\ MaxEvents \in Nat
  <2>1. written \in Nat /\ liveQueue \in Seq(Events) /\ inbound \in Seq(M) /\ immediates \in Seq(Tasks)
    BY TypedFacts
  <2>2. MaxEvents \in Nat
    BY ConstantsAssumption
  <2>3. n \in Nat /\ written < n /\ n <= MaxEvents
    BY <2>1, <2>2
  <2> QED BY <2>1, <2>2, <2>3
<1>4. /\ \A m \in Int : Held(base, until, m) => Held(base, until, m)'
      /\ QueueChain(base, until) => QueueChain(base, until)'
  <2>1. until <= until /\ UNCHANGED liveQueue
    BY <1>1
  <2> QED BY <1>2, <1>3, <2>1, HeldStays
<1> DEFINE pushed == [i \in 1..(n - written) |-> Event(written + i - 1)]
<1>5. /\ pushed \in Seq(M) /\ Len(pushed) = n - written
      /\ \A i \in 1..(n - written) : pushed[i].type = "Event" /\ pushed[i].evt = written + i - 1
  <2>1. \A i \in 1..(n - written) : written + i - 1 \in Events
    BY <1>3 DEF Events
  <2>2. \A i \in 1..(n - written) : Event(written + i - 1) \in M
    BY <2>1 DEF Vocabulary
  <2>3. n - written \in Nat
    BY <1>3
  <2>4. pushed \in [1..(n - written) -> M]
    BY <2>2
  <2>5. pushed \in Seq(M) /\ Len(pushed) = n - written
    BY <2>3, <2>4, IsSequence
  <2> QED BY <2>5 DEF Event
<1>6. inbound' = IF subscribed THEN inbound \o pushed ELSE inbound
  BY DEF WriteUpTo
<1> HIDE DEF pushed
<1>7. CASE subscribed
  <2> DEFINE c == Len(Coming)
             d == n - written
  <2>1. /\ c \in Nat /\ d \in Nat /\ d >= 1 /\ DOMAIN Coming = 1..c /\ DOMAIN Coming' = 1..(c + d)
        /\ \A i \in 1..c : Coming'[i] = Coming[i]
        /\ \A i \in 1..d : Coming'[c + i] = pushed[i]
    <3>1. inbound' = inbound \o pushed /\ UNCHANGED queue /\ pushed \in Seq(M)
      BY <1>1, <1>5, <1>6, <1>7 DEF node
    <3>2. /\ DOMAIN Coming' = 1..(Len(Coming) + Len(pushed))
          /\ \A i \in 1..Len(Coming) : Coming'[i] = Coming[i]
          /\ \A i \in 1..Len(pushed) : Coming'[Len(Coming) + i] = pushed[i]
      BY <3>1, ComingSent
    <3>3. Len(pushed) = d /\ c \in Nat /\ DOMAIN Coming = 1..c
      BY <1>5, ComingFacts
    <3>4. d \in Nat /\ d >= 1
      BY <1>3
    <3> QED BY <3>2, <3>3, <3>4
  <2> HIDE DEF c
  <2>2. \A i \in DOMAIN Coming' : i \in 1..c \/ \E k \in 1..d : i = c + k
    <3> SUFFICES ASSUME NEW i \in DOMAIN Coming', i \notin 1..c
                 PROVE  \E k \in 1..d : i = c + k
      OBVIOUS
    <3>1. i - c \in 1..d /\ i = c + (i - c)
      BY <2>1
    <3> QED BY <3>1
  <2>3. Exist(until, named)'
    <3>1. \A m \in Underway' : m \in Underway \/ \E k \in 1..d : m = pushed[k]
      BY <1>1, <2>1, <2>2 DEF Underway
    <3>2. \A m \in Underway' : /\ m.type = "Event" => m.evt < n
                               /\ m.type = "Confirmed" => named[m.last] \in -1..(n - 1)
                               /\ Subscribing(m) => until = -1
      <4> SUFFICES ASSUME NEW m \in Underway'
                   PROVE  /\ m.type = "Event" => m.evt < n
                          /\ m.type = "Confirmed" => named[m.last] \in -1..(n - 1)
                          /\ Subscribing(m) => until = -1
        OBVIOUS
      <4>1. CASE m \in Underway
        <5>1. /\ m.type = "Event" => m.evt < written
              /\ m.type = "Confirmed" => named[m.last] \in -1..(written - 1)
              /\ Subscribing(m) => until = -1
          BY <4>1 DEF Gapless, Exist
        <5>2. m.type = "Event" => m.evt \in Int
          <6>1. m \in M
            <7>1. Coming \in Seq(M) /\ requests \subseteq M
              BY ComingFacts, TypedFacts
            <7> QED BY <4>1, <7>1 DEF Underway
          <6> QED BY <6>1, ConstantsAssumption DEF Vocabulary, Events
        <5> QED BY <1>3, <5>1, <5>2, SMTT(30)
      <4>2. CASE \E k \in 1..d : m = pushed[k]
        BY <1>3, <1>5, <4>2, SMTT(30) DEF Subscribing
      <4> QED BY <3>1, <4>1, <4>2
    <3>3. \A i \in DOMAIN immediates : IsTry(immediates[i]) => immediates[i].evt < n
      BY <1>3, TaskEvents DEF Gapless, Exist
    <3>4. \A i \in DOMAIN liveQueue : liveQueue[i] < n
      <4>1. \A i \in DOMAIN liveQueue : liveQueue[i] \in Events
        BY <1>3
      <4>2. \A i \in DOMAIN liveQueue : liveQueue[i] \in Int
        BY <4>1, ConstantsAssumption DEF Events
      <4> QED BY <1>3, <4>2 DEF Gapless, Exist
    <3>5. until \in -1..(n - 1)
      BY <1>3 DEF Gapless, Exist
    <3> QED BY <1>1, <3>2, <3>3, <3>4, <3>5 DEF Gapless, Exist
  <2>4. ASSUME Unbroken'
        PROVE  InLine(base, until, named)'
    <3>1. InLine(base, until, named)
      BY <1>1, <2>4 DEF Unbroken, Gapless
    <3>2. ASSUME NEW i \in DOMAIN Coming', Coming'[i].type = "Event"
          PROVE  \/ Held(base, until, Coming[i].evt - 1)'
                 \/ \E l \in 1..(i - 1) : Brings(named, Coming'[l], Coming'[i].evt - 1)
      <4>1. CASE i \in 1..c
        <5>1. PICK e \in Int : e = Coming[i].evt - 1
          BY <2>1, <3>2, <4>1, ComingEvents
        <5>2. Held(base, until, e) \/ \E l \in 1..(i - 1) : Brings(named, Coming[l], e)
          BY <1>1, <2>1, <3>1, <3>2, <4>1, <5>1 DEF InLine, ComingChain
        <5>3. \A l \in 1..(i - 1) : Coming'[l] = Coming[l]
          BY <2>1, <4>1
        <5>4. Held(base, until, e) => Held(base, until, e)'
          BY <1>4
        <5>5. Coming'[i].evt - 1 = e
          BY <2>1, <4>1, <5>1
        <5> QED BY <5>2, <5>3, <5>4, <5>5
      <4>2. CASE \E k \in 1..d : i = c + k
        <5>1. PICK k \in 1..d : i = c + k
          BY <4>2
        <5>2. Coming'[i].evt = written + k - 1
          BY <1>5, <2>1, <5>1
        <5>3. CASE k = 1
          <6>1. PICK e \in Int : e = written - 1
            BY <1>3
          <6>2. Coming'[i].evt - 1 = e
            BY <1>3, <5>2, <5>3, <6>1
          <6>3. Held(base, until, e) \/ \E j \in DOMAIN Coming : Brings(named, Coming[j], e)
            BY <1>1, <1>7, <3>1, <6>1 DEF InLine, Pushed
          <6>4. \A j \in DOMAIN Coming : j \in 1..(i - 1) /\ Coming'[j] = Coming[j]
            BY <2>1, <5>1, <5>3
          <6>5. Held(base, until, e) => Held(base, until, e)'
            BY <1>4
          <6> QED BY <6>2, <6>3, <6>4, <6>5
        <5>4. CASE k # 1
          <6>1. PICK h \in 1..d : h = k - 1
            <7>1. d \in Nat
              BY <2>1
            <7>2. k - 1 \in 1..d
              BY <5>1, <5>4, <7>1
            <7> QED BY <7>2
          <6>2. c + h \in 1..(i - 1) /\ Coming'[c + h] = pushed[h]
            BY <2>1, <5>1, <6>1
          <6>3. pushed[h].type = "Event" /\ pushed[h].evt = Coming'[i].evt - 1 /\ pushed[h].evt \in Int
            BY <1>3, <1>5, <5>2, <6>1, SMTT(30)
          <6>4. Brings(named, pushed[h], Coming'[i].evt - 1)
            BY <6>3 DEF Brings
          <6> QED BY <6>2, <6>4
        <5> QED BY <5>3, <5>4
      <4> QED BY <2>2, <4>1, <4>2
    <3>3. ComingChain(base, until, named)'
      BY <3>2 DEF ComingChain
    <3>4. Pushed(base, until, named)'
      <4>1. c + d \in DOMAIN Coming' /\ d \in 1..d /\ Coming'[c + d] = pushed[d]
        BY <2>1
      <4>2. pushed[d].type = "Event" /\ pushed[d].evt = n - 1
        BY <1>3, <1>5, <4>1
      <4>3. Brings(named, Coming'[c + d], written' - 1)
        BY <1>1, <1>3, <4>1, <4>2 DEF Brings
      <4> QED BY <4>1, <4>3 DEF Pushed
    <3>5. \A i \in DOMAIN delivered' : delivered'[i] = base + i
      BY <1>1, <3>1 DEF InLine
    <3>6. Chain(immediates, Last(base))' /\ QueueChain(base, until)'
      BY <1>2, <1>4, <3>1 DEF InLine
    <3>7. lives' = 1 => Reached(base, until)'
      BY <1>1, <1>2, <3>1 DEF InLine
    <3> QED BY <3>3, <3>4, <3>5, <3>6, <3>7 DEF InLine
  <2> QED BY <2>3, <2>4 DEF Gapless
<1>8. CASE ~subscribed
  <2>1. Coming' = Coming /\ Underway' = Underway
    BY <1>1, <1>6, <1>8 DEF Coming, Underway
  <2>2. Exist(until, named)'
    <3>1. \A m \in Underway' : /\ m.type = "Event" => m.evt < n
                               /\ m.type = "Confirmed" => named[m.last] \in -1..(n - 1)
                               /\ Subscribing(m) => until = -1
      <4> SUFFICES ASSUME NEW m \in Underway
                   PROVE  /\ m.type = "Event" => m.evt < n
                          /\ m.type = "Confirmed" => named[m.last] \in -1..(n - 1)
                          /\ Subscribing(m) => until = -1
        BY <2>1
      <4>1. /\ m.type = "Event" => m.evt < written
            /\ m.type = "Confirmed" => named[m.last] \in -1..(written - 1)
            /\ Subscribing(m) => until = -1
        BY DEF Gapless, Exist
      <4>2. m.type = "Event" => m.evt \in Int
        <5>1. m \in M
          <6>1. Coming \in Seq(M) /\ requests \subseteq M
            BY ComingFacts, TypedFacts
          <6> QED BY <6>1 DEF Underway
        <5> QED BY <5>1, ConstantsAssumption DEF Vocabulary, Events
      <4> QED BY <1>3, <4>1, <4>2
    <3>2. \A i \in DOMAIN immediates : IsTry(immediates[i]) => immediates[i].evt < n
      BY <1>3, TaskEvents DEF Gapless, Exist
    <3>3. \A i \in DOMAIN liveQueue : liveQueue[i] < n
      <4>1. \A i \in DOMAIN liveQueue : liveQueue[i] \in Events
        BY <1>3
      <4>2. \A i \in DOMAIN liveQueue : liveQueue[i] \in Int
        BY <4>1, ConstantsAssumption DEF Events
      <4> QED BY <1>3, <4>2 DEF Gapless, Exist
    <3>4. until \in -1..(n - 1)
      BY <1>3 DEF Gapless, Exist
    <3> QED BY <1>1, <3>1, <3>2, <3>3, <3>4 DEF Gapless, Exist
  <2>3. ASSUME Unbroken'
        PROVE  InLine(base, until, named)'
    <3>1. InLine(base, until, named)
      BY <1>1, <2>3 DEF Unbroken, Gapless
    <3>2. ComingChain(base, until, named)'
      <4>1. Carried(FALSE)
        BY <2>1, CarriedSame
      <4>2. ComingChain(base, until, named) /\ Pushed(base, until, named)
        BY <1>1, <3>1 DEF InLine
      <4> QED BY <1>4, <4>1, <4>2, ComingStays
    <3>3. Pushed(base, until, named)'
      BY <1>1, <1>8 DEF Pushed
    <3>4. \A i \in DOMAIN delivered' : delivered'[i] = base + i
      BY <1>1, <3>1 DEF InLine
    <3>5. Chain(immediates, Last(base))' /\ QueueChain(base, until)'
      BY <1>2, <1>4, <3>1 DEF InLine
    <3>6. lives' = 1 => Reached(base, until)'
      BY <1>1, <1>2, <3>1 DEF InLine
    <3> QED BY <3>2, <3>3, <3>4, <3>5, <3>6 DEF InLine
  <2> QED BY <2>2, <2>3 DEF Gapless
<1> QED
  BY <1>7, <1>8

\* A handler schedules events that follow those pending, and may enqueue a request.
LEMMA ScheduledGapless ==
    ASSUME NEW M, Vocabulary(M), Typed(M), Typed(M)', NEW base \in Int, NEW until \in Int, NEW named,
           Gapless(base, until, named),
           queue # <<>>, immediates # <<>>, ~IsTry(Head(immediates)),
           Head(queue).type \notin {"Event", "Confirmed"},
           NEW tasks \in Seq(Tasks), NEW more \in Seq(M), Schedules(tasks, more),
           \/ more = <<>>
           \/ \E x \in M : /\ more = <<x>> /\ x.type \notin {"Event", "Confirmed"}
                           /\ Subscribing(x) => until = -1,
           UNCHANGED <<delivered, written, inbound, requests, subscribed, connection>>,
           Unbroken' => Unbroken,
           \A i \in DOMAIN tasks : IsTry(tasks[i]) => tasks[i].evt < written,
           \A i \in DOMAIN liveQueue' : liveQueue'[i] < written,
           pass' = "first" => until = -1,
           Unbroken' => /\ Follows(immediates, Last(base), tasks)
                        /\ \A n \in Int : Held(base, until, n) => Held(base, until, n)'
                        /\ QueueChain(base, until)'
                        /\ lives' = 1 => Reached(base, until)'
    PROVE  Gapless(base, until, named)'
<1>1. /\ Chain(immediates, Last(base)) /\ Follows(immediates, Last(base), tasks) =>
             Chain(immediates, Last(base))'
      /\ \A i \in DOMAIN immediates' : IsTry(immediates'[i]) =>
             \/ \E k \in DOMAIN immediates : immediates'[i] = immediates[k]
             \/ \E k \in DOMAIN tasks : immediates'[i] = tasks[k]
  BY HandlerReach
<1>2. written \in Int /\ \A i \in DOMAIN Coming : Coming[i].type = "Event" => Coming[i].evt \in Int
  <2>1. written \in Int
    BY TypedFacts
  <2> QED BY <2>1, ComingEvents
<1>3. Coming[1] = Head(queue)
  <2>1. queue \in Seq(M) /\ inbound \in Seq(M)
    BY TypedFacts
  <2> QED BY <2>1 DEF Coming
<1>4. /\ Carried(TRUE)
      /\ \A i \in DOMAIN Coming' : \/ \E k \in DOMAIN Coming : Coming'[i] = Coming[k]
                                   \/ /\ Coming'[i].type \notin {"Event", "Confirmed"}
                                      /\ Subscribing(Coming'[i]) => until = -1
  <2>1. CASE more = <<>>
    <3>1. queue' = Tail(queue)
      <4>1. queue \in Seq(M) /\ Tail(queue) \in Seq(M)
        BY TypedFacts
      <4> QED BY <2>1, <4>1 DEF Schedules
    <3> QED BY <3>1, CarriedTail
  <2>2. CASE more # <<>>
    <3>1. PICK x \in M : /\ more = <<x>> /\ x.type \notin {"Event", "Confirmed"}
                         /\ Subscribing(x) => until = -1
      BY <2>2
    <3>2. queue' = Tail(queue) \o <<x>> /\ x.type # "Event"
      BY <3>1 DEF Schedules
    <3> QED BY <3>1, <3>2, CarriedNext
  <2> QED BY <2>1, <2>2
<1>5. Exist(until, named)'
  <2>1. \A m \in Underway' : \/ m \in Underway
                             \/ /\ m.type \notin {"Event", "Confirmed"}
                                /\ Subscribing(m) => until = -1
    BY <1>4 DEF Underway
  <2>2. \A m \in Underway' : /\ m.type = "Event" => m.evt < written
                             /\ m.type = "Confirmed" => named[m.last] \in -1..(written - 1)
                             /\ Subscribing(m) => until = -1
    BY <2>1 DEF Gapless, Exist
  <2>3. \A i \in DOMAIN immediates' : IsTry(immediates'[i]) => immediates'[i].evt < written
    BY <1>1 DEF Gapless, Exist
  <2>4. until \in -1..(written - 1)
    BY DEF Gapless, Exist
  <2> QED BY <2>2, <2>3, <2>4 DEF Exist
<1>6. ASSUME Unbroken'
      PROVE  InLine(base, until, named)'
  <2>1. InLine(base, until, named)
    BY <1>6 DEF Gapless
  <2>2. ASSUME connection' = "Connected"
        PROVE  ComingChain(base, until, named)' /\ Pushed(base, until, named)'
    <3>1. ComingChain(base, until, named) /\ Pushed(base, until, named)
      BY <2>1, <2>2 DEF InLine
    <3>2. \A n \in Int : ~Brings(named, Coming[1], n)
      BY <1>3 DEF Brings
    <3>3. PICK handled \in BOOLEAN : handled = TRUE
      OBVIOUS
    <3>4. Carried(handled) /\ (handled => \A n \in Int : Brings(named, Coming[1], n) => Held(base, until, n)')
      BY <1>4, <3>2, <3>3
    <3>5. \A n \in Int : Held(base, until, n) => Held(base, until, n)'
      BY <1>6
    <3>6. ComingChain(base, until, named)' /\ ((subscribed' => subscribed /\ written' = written) => Pushed(base, until, named)')
      BY <1>2, <3>1, <3>4, <3>5, ComingKept
    <3> QED BY <3>6
  <2>3. \A i \in DOMAIN delivered' : delivered'[i] = base + i
    BY <2>1 DEF InLine
  <2>4. Chain(immediates, Last(base))'
    BY <1>1, <1>6, <2>1 DEF InLine
  <2> QED BY <1>6, <2>2, <2>3, <2>4 DEF InLine
<1> QED
  BY <1>5, <1>6 DEF Gapless

\* The second pass has its end from the confirmation.
LEMMA HandleConfirmedGapless ==
    ASSUME NEW M, Vocabulary(M), Typed(M), Typed(M)', Protocol, Protocol', NEW base \in Int,
           NEW until \in Int, NEW v \in Int, NEW named, Gapless(base, until, named),
           NEW x, NEW at, Read(at) \in M, HandleConfirmedBy(x, Read(at)), v = named[Head(queue).last]
    PROVE  Gapless(base, v, named)'
<1>1. /\ queue # <<>> /\ immediates # <<>> /\ ~IsTry(Head(immediates))
      /\ Head(queue) \in M /\ Head(queue).type = "Confirmed" /\ connection = "Connected"
      /\ 1 \in DOMAIN Coming /\ Coming[1] = Head(queue) /\ Head(queue) \in Underway
  BY HandlerRuns DEF HandleConfirmedBy, Dispatch
<1>2. /\ UNCHANGED <<liveQueue, liveSub, delivered, lives, written, subscribed, connection, promised>>
      /\ UNCHANGED <<inbound, requests>>
      /\ pass' = "second" /\ Schedules(<<>>, <<Read(at)>>)
  BY DEF HandleConfirmedBy, wire, server, seen
<1>3. written \in Int /\ liveQueue \in Seq(Events)
      /\ \A i \in DOMAIN Coming : Coming[i].type = "Event" => Coming[i].evt \in Int
  BY TypedFacts, ComingEvents, SMTT(30)
<1>4. until = -1 /\ v \in -1..(written - 1) /\ until <= v /\ lives = 0
  <2>1. until = -1 /\ v \in -1..(written - 1)
    BY <1>1 DEF Gapless, Exist, Subscribing
  <2>2. lives = 0
    BY <1>1 DEF Protocol, InPhase, OfPhase, Subscribing
  <2> QED BY <1>3, <2>1, <2>2
<1>5. PICK more \in Seq(M) : more = <<Read(at)>>
  <2>1. PICK y \in M : y = Read(at)
    OBVIOUS
  <2>2. <<y>> \in Seq(M)
    OBVIOUS
  <2> QED BY <2>1, <2>2
<1>6. /\ \A n \in Int : Reached(base, n)' <=> Reached(base, n)
      /\ Chain(immediates, Last(base)) => Chain(immediates, Last(base))'
      /\ \A i \in DOMAIN immediates' : IsTry(immediates'[i]) =>
             \E k \in DOMAIN immediates : immediates'[i] = immediates[k]
  <2>1. Schedules(<<>>, more)
    BY <1>2, <1>5
  <2> QED BY <1>1, <1>2, <2>1, IdleHandlerReach
<1>7. /\ \A n \in Int : Held(base, until, n) => Held(base, v, n)'
      /\ QueueChain(base, until) => QueueChain(base, v)'
  BY <1>2, <1>3, <1>4, <1>6, HeldStays
<1>8. /\ Carried(TRUE)
      /\ \A i \in DOMAIN Coming' : \/ \E k \in DOMAIN Coming : Coming'[i] = Coming[k]
                                   \/ Coming'[i].type \notin {"Event", "Confirmed"}
  <2>1. PICK y \in M : y = Read(at)
    OBVIOUS
  <2>2. queue' = Tail(queue) \o <<y>> /\ y.type \notin {"Event", "Confirmed"} /\ y.type # "Event"
    BY <1>2, <2>1, Types DEF Schedules
  <2> QED BY <1>1, <1>2, <2>2, CarriedNext
<1>9. Exist(v, named)'
  <2>1. \A m \in Underway' : m \in Underway \/ m.type \notin {"Event", "Confirmed"}
    BY <1>2, <1>8 DEF Underway
  <2>2. \A m \in Underway' : ~Subscribing(m)
    BY <1>2 DEF Protocol, InPhase, OfPhase, Underway
  <2>3. \A m \in Underway' : /\ m.type = "Event" => m.evt < written
                             /\ m.type = "Confirmed" => named[m.last] \in -1..(written - 1)
                             /\ Subscribing(m) => v = -1
    BY <2>1, <2>2 DEF Gapless, Exist
  <2>4. \A i \in DOMAIN immediates' : IsTry(immediates'[i]) => immediates'[i].evt < written
    BY <1>6 DEF Gapless, Exist
  <2>5. \A i \in DOMAIN liveQueue' : liveQueue'[i] < written
    BY <1>2 DEF Gapless, Exist
  <2> QED BY <1>2, <1>4, <2>3, <2>4, <2>5 DEF Exist
<1>10. ASSUME Unbroken'
       PROVE  InLine(base, v, named)'
  <2>1. InLine(base, until, named)
    BY <1>2, <1>10 DEF Unbroken, Gapless
  <2>2. ComingChain(base, until, named) /\ Pushed(base, until, named)
    BY <1>1, <2>1 DEF InLine
  <2>3. ASSUME NEW n \in Int, Brings(named, Coming[1], n)
        PROVE  Held(base, v, n)'
    <3>1. n <= v
      BY <1>1, <2>3 DEF Brings
    <3> QED BY <3>1 DEF Held
  <2>4. PICK handled \in BOOLEAN : handled = TRUE
    OBVIOUS
  <2>5. Carried(handled) /\ (handled => \A n \in Int : Brings(named, Coming[1], n) => Held(base, v, n)')
    BY <1>8, <2>3, <2>4
  <2>6. ComingChain(base, v, named)' /\ ((subscribed' => subscribed /\ written' = written) => Pushed(base, v, named)')
    BY <1>3, <1>7, <2>2, <2>5, ComingKept
  <2>7. \A i \in DOMAIN delivered' : delivered'[i] = base + i
    BY <1>2, <2>1 DEF InLine
  <2>8. Chain(immediates, Last(base))' /\ QueueChain(base, v)'
    BY <1>6, <1>7, <2>1 DEF InLine
  <2> QED BY <1>2, <1>4, <2>6, <2>7, <2>8 DEF InLine
<1> QED
  BY <1>9, <1>10 DEF Gapless

\* A pass is over: its last events follow what was reached, and with the second pass
\* all that has waited for its end is reached.
LEMMA PassDoneGapless ==
    ASSUME NEW M, Vocabulary(M), Typed(M), Typed(M)', Protocol, NEW base \in Int, NEW until \in Int,
           NEW named, Gapless(base, until, named),
           queue # <<>>, immediates # <<>>, ~IsTry(Head(immediates)), Reading(Head(queue)),
           NEW tasks \in Seq(Tasks), PassDone(tasks),
           UNCHANGED <<delivered, connection, wire, server>>,
           promised' = -1 => promised = -1,
           \A i \in DOMAIN tasks : IsTry(tasks[i]) => tasks[i].evt < written,
           Unbroken' => Follows(immediates, Last(base), tasks),
           Unbroken' /\ pass = "second" =>
               \/ Reached(base, until)
               \/ \E k \in DOMAIN tasks : IsTry(tasks[k]) /\ tasks[k].evt >= until
    PROVE  /\ Gapless(base, until, named)'
           /\ \A n \in Int : Reached(base, n) => Reached(base, n)'
           /\ \A n \in Int : Unbroken' /\ (\E k \in DOMAIN tasks : IsTry(tasks[k]) /\ tasks[k].evt >= n) =>
                  Reached(base, n)'
<1>1. /\ UNCHANGED <<delivered, written, inbound, requests, subscribed, connection>>
      /\ Subscribe \in M /\ <<>> \in Seq(M)
      /\ Head(queue).type \notin {"Event", "Confirmed"}
  BY DEF wire, server, Reading, Vocabulary
<1>2. /\ liveQueue \in Seq(Events) /\ lives \in Nat /\ immediates \in Seq(Tasks) /\ written \in Int
      /\ \A i \in DOMAIN liveQueue : liveQueue[i] \in Int
  <2>1. liveQueue \in Seq(Events) /\ lives \in Nat /\ immediates \in Seq(Tasks) /\ written \in Int
    BY TypedFacts
  <2>2. \A i \in DOMAIN liveQueue : liveQueue[i] \in Events
    BY <2>1
  <2> QED BY <2>1, <2>2, ConstantsAssumption DEF Events
<1>3. CASE FirstPassDone(tasks)
  <2>1. PICK more \in Seq(M) :
            /\ Schedules(tasks, more)
            /\ \/ more = <<>>
               \/ more = <<Subscribe>> /\ ~shouldStop
    <3>1. PICK x \in M : x = Subscribe
      BY <1>1
    <3>2. <<x>> \in Seq(M)
      OBVIOUS
    <3> QED BY <1>1, <1>3, <3>1, <3>2 DEF FirstPassDone
  <2>2. /\ pass = "first" /\ pass' = "none" /\ (liveSub => liveSub')
        /\ UNCHANGED <<liveQueue, lives>>
    BY <1>3 DEF FirstPassDone
  <2>3. lives # 1 /\ until = -1 /\ ~liveSub
    BY <2>2 DEF Protocol, Flags, Gapless, Exist
  <2>4. \A n \in Int : /\ Reached(base, n) => Reached(base, n)'
                       /\ (\E k \in DOMAIN tasks : IsTry(tasks[k]) /\ tasks[k].evt >= n) => Reached(base, n)'
    BY <1>1, <2>1, HandlerReach
  <2>5. Unbroken' => Unbroken
    BY <2>3 DEF Unbroken
  <2>6. /\ \A n \in Int : Held(base, until, n) => Held(base, until, n)'
        /\ QueueChain(base, until) => QueueChain(base, until)'
    <3>1. until <= until /\ UNCHANGED liveQueue
      BY <2>2
    <3> QED BY <1>2, <2>4, <3>1, HeldStays
  <2>7. Unbroken' => /\ Follows(immediates, Last(base), tasks)
                     /\ \A n \in Int : Held(base, until, n) => Held(base, until, n)'
                     /\ QueueChain(base, until)'
                     /\ lives' = 1 => Reached(base, until)'
    <3>1. Unbroken' => QueueChain(base, until)
      BY <2>5 DEF Gapless, InLine
    <3> QED BY <2>2, <2>3, <2>6, <3>1
  <2>8. \A i \in DOMAIN liveQueue' : liveQueue'[i] < written
    BY <2>2 DEF Gapless, Exist
  <2>9. \/ more = <<>>
        \/ \E x \in M : /\ more = <<x>> /\ x.type \notin {"Event", "Confirmed"}
                        /\ Subscribing(x) => until = -1
    BY <1>1, <2>1, <2>3, Types
  <2>10. Gapless(base, until, named)'
    BY <1>1, <2>1, <2>3, <2>5, <2>7, <2>8, <2>9, ScheduledGapless
  <2> QED BY <2>4, <2>10
<1>4. CASE SecondPassDone(tasks)
  <2>1. /\ pass = "second" /\ pass' = "none" /\ lives' = lives + 1
        /\ liveQueue' = <<>> /\ UNCHANGED liveSub
    BY <1>4 DEF SecondPassDone
  <2>2. DOMAIN liveQueue' = {} /\ lives = 0 /\ liveSub /\ (Unbroken' => Unbroken)
    BY <2>1 DEF Protocol, Flags, Unbroken
  <2>3. PICK last \in Int : last = Last(base)
    BY LastIsNumber
  <2>4. /\ Tries(liveQueue) \in Seq(Tasks)
        /\ \A n \in Int : (\E k \in DOMAIN Tries(liveQueue) :
                               IsTry(Tries(liveQueue)[k]) /\ Tries(liveQueue)[k].evt >= n) <=>
                              \E k \in DOMAIN liveQueue : liveQueue[k] >= n
        /\ DOMAIN Tries(liveQueue) = DOMAIN liveQueue
        /\ \A k \in DOMAIN liveQueue : Tries(liveQueue)[k].evt = liveQueue[k]
    <3>1. Tries(liveQueue) \in Seq(Tasks) /\ DOMAIN Tries(liveQueue) = DOMAIN liveQueue
      BY <1>2, TriesType DEF Tries
    <3>2. \A k \in DOMAIN liveQueue : Tries(liveQueue)[k].evt = liveQueue[k]
      BY TaskEvents DEF Tries
    <3>3. \A n \in Int : (\E k \in DOMAIN Tries(liveQueue) :
                               IsTry(Tries(liveQueue)[k]) /\ Tries(liveQueue)[k].evt >= n) <=>
                              \E k \in DOMAIN liveQueue : liveQueue[k] >= n
      BY <1>2, TriesReach
    <3> QED BY <3>1, <3>2, <3>3
  <2>5. PICK stopping \in Seq(Tasks) : /\ \A i \in DOMAIN stopping : ~IsTry(stopping[i])
                                       /\ Schedules(tasks \o stopping \o Tries(liveQueue), <<>>)
    <3>1. CASE Schedules(tasks \o Tries(liveQueue), <<>>)
      <4>1. <<>> \in Seq(Tasks) /\ DOMAIN <<>> = {} /\ tasks \o <<>> = tasks
        OBVIOUS
      <4> QED BY <3>1, <4>1
    <3>2. CASE Schedules(tasks \o <<StopTask>> \o Tries(liveQueue), <<>>)
      <4>1. PICK t \in Tasks : t = StopTask
        BY TaskKinds DEF StopTask
      <4>2. <<t>> \in Seq(Tasks) /\ DOMAIN <<t>> = {1} /\ <<t>>[1] = t
        OBVIOUS
      <4> QED BY <3>2, <4>1, <4>2, TaskEvents
    <3> QED BY <1>4, <3>1, <3>2 DEF SecondPassDone
  <2> DEFINE live == Tries(liveQueue)
             before == tasks \o stopping
             all == before \o live
  <2>6. /\ before \in Seq(Tasks) /\ all \in Seq(Tasks) /\ live \in Seq(Tasks)
        /\ \A i \in DOMAIN before : \/ \E k \in DOMAIN tasks : before[i] = tasks[k]
                                    \/ \E k \in DOMAIN stopping : before[i] = stopping[k]
        /\ \A i \in DOMAIN all : \/ \E k \in DOMAIN before : all[i] = before[k]
                                 \/ \E k \in DOMAIN live : all[i] = live[k]
    <3> HIDE DEF live
    <3>1. live \in Seq(Tasks)
      BY <2>4 DEF live
    <3>2. /\ before \in Seq(Tasks)
          /\ \A i \in DOMAIN before : \/ \E k \in DOMAIN tasks : before[i] = tasks[k]
                                      \/ \E k \in DOMAIN stopping : before[i] = stopping[k]
      <4>1. Joined(before, tasks, stopping)
        BY DEF Joined
      <4> HIDE DEF before
      <4>2. before \in Seq(Tasks) /\ Holds(before, tasks, stopping)
        BY <4>1, JoinedPlaces
      <4> QED BY <4>2 DEF Holds
    <3> HIDE DEF before
    <3>3. /\ all \in Seq(Tasks)
          /\ \A i \in DOMAIN all : \/ \E k \in DOMAIN before : all[i] = before[k]
                                   \/ \E k \in DOMAIN live : all[i] = live[k]
      <4>1. Joined(all, before, live)
        BY DEF Joined
      <4>2. before \in Seq(Tasks)
        BY <3>2
      <4> HIDE DEF all
      <4>3. all \in Seq(Tasks) /\ Holds(all, before, live)
        BY <3>1, <4>1, <4>2, JoinedPlaces
      <4> QED BY <4>3 DEF Holds
    <3> QED BY <3>1, <3>2, <3>3
  <2>7. Schedules(all, <<>>)
    BY <2>5
  <2> HIDE DEF live, before, all
  <2>8. \A i \in DOMAIN all : IsTry(all[i]) => all[i].evt < written
    <3>1. \A k \in DOMAIN live : live[k].evt < written
      BY <2>4 DEF live, Gapless, Exist
    <3>2. \A i \in DOMAIN before : IsTry(before[i]) => before[i].evt < written
      BY <2>5, <2>6
    <3> QED BY <2>6, <3>1, <3>2
  <2>9. ASSUME Unbroken'
        PROVE  /\ Follows(immediates, Last(base), all)
               /\ \A n \in Int : (\E k \in DOMAIN all : IsTry(all[k]) /\ all[k].evt >= n) <=>
                      \/ \E k \in DOMAIN tasks : IsTry(tasks[k]) /\ tasks[k].evt >= n
                      \/ \E k \in DOMAIN liveQueue : liveQueue[k] >= n
    <3>1. Follows(immediates, last, tasks)
      BY <2>3, <2>9
    <3>2. \A i \in DOMAIN stopping : IsTry(stopping[i]) =>
              \/ ReachedIn(immediates, last, stopping[i].evt - 1)
              \/ \E k \in DOMAIN tasks : IsTry(tasks[k]) /\ tasks[k].evt >= stopping[i].evt - 1
              \/ \E j \in 1..(i - 1) : IsTry(stopping[j]) /\ stopping[j].evt >= stopping[i].evt - 1
      BY <2>5
    <3>3. /\ Follows(immediates, last, before)
          /\ \A n \in Int : (\E k \in DOMAIN before : IsTry(before[k]) /\ before[k].evt >= n) <=>
                 \/ \E k \in DOMAIN tasks : IsTry(tasks[k]) /\ tasks[k].evt >= n
                 \/ \E k \in DOMAIN stopping : IsTry(stopping[k]) /\ stopping[k].evt >= n
      <4>1. tasks \in Seq(Tasks) /\ stopping \in Seq(Tasks) /\ last \in Int /\ immediates \in Seq(Tasks)
        BY <1>2, <2>3, <2>5
      <4>2. Joined(before, tasks, stopping)
        BY DEF Joined, before
      <4>3. Follows(immediates, last, before)
        BY <3>1, <3>2, <4>1, <4>2, JoinedFollow
      <4>4. \A n \in Int : (\E k \in DOMAIN before : IsTry(before[k]) /\ before[k].evt >= n) <=>
                                 \/ \E k \in DOMAIN tasks : IsTry(tasks[k]) /\ tasks[k].evt >= n
                                 \/ \E k \in DOMAIN stopping : IsTry(stopping[k]) /\ stopping[k].evt >= n
        <5>1. \A n \in Int : AnyTry(before, n) <=> AnyTry(tasks, n) \/ AnyTry(stopping, n)
          BY <4>1, <4>2, JoinedReach
        <5> QED BY <5>1 DEF AnyTry
      <4> QED BY <4>3, <4>4
    <3>4. \A n \in Int : (\E k \in DOMAIN before : IsTry(before[k]) /\ before[k].evt >= n) <=>
                 \E k \in DOMAIN tasks : IsTry(tasks[k]) /\ tasks[k].evt >= n
      BY <2>5, <3>3
    <3>5. ASSUME NEW i \in DOMAIN live
          PROVE  \/ ReachedIn(immediates, last, live[i].evt - 1)
                 \/ \E k \in DOMAIN before : IsTry(before[k]) /\ before[k].evt >= live[i].evt - 1
                 \/ \E j \in 1..(i - 1) : IsTry(live[j]) /\ live[j].evt >= live[i].evt - 1
      <4>1. PICK n \in Int : n = liveQueue[i] - 1 /\ live[i].evt - 1 = n
        <5>1. i \in DOMAIN liveQueue /\ live[i].evt = liveQueue[i]
          BY <2>4, <3>5 DEF live
        <5>2. liveQueue[i] \in Int
          BY <1>2, <5>1
        <5> HIDE DEF live
        <5> QED BY <5>1, <5>2
      <4>2. \/ n <= until \/ ReachedIn(immediates, last, n)
            \/ \E j \in 1..(i - 1) : liveQueue[j] >= n
        BY <2>2, <2>3, <2>4, <2>9, <3>5, <4>1 DEF Gapless, InLine, QueueChain, Reached, live
      <4>3. CASE n <= until
        <5>1. CASE ReachedIn(immediates, last, until)
          <6>1. ReachedIn(immediates, last, n)
            BY <1>2, <4>3, <5>1, ReachedBefore
          <6> QED BY <4>1, <6>1
        <5>2. CASE \E k \in DOMAIN tasks : IsTry(tasks[k]) /\ tasks[k].evt >= until
          <6>1. PICK k \in DOMAIN tasks : IsTry(tasks[k]) /\ tasks[k].evt >= until
            BY <5>2
          <6>2. tasks[k].evt >= n
            <7>1. tasks[k].evt \in Int
              BY TaskEvents
            <7> QED BY <4>3, <6>1, <7>1
          <6> QED BY <3>4, <4>1, <6>1, <6>2
        <5> QED BY <2>1, <2>3, <2>9, <5>1, <5>2 DEF Reached
      <4>4. CASE \E j \in 1..(i - 1) : liveQueue[j] >= n
        <5>1. PICK j \in 1..(i - 1) : liveQueue[j] >= n
          BY <4>4
        <5>2. j \in DOMAIN liveQueue
          <6>1. DOMAIN liveQueue = 1..Len(liveQueue) /\ Len(liveQueue) \in Nat /\ i \in DOMAIN liveQueue
            BY <1>2, <2>4, <3>5 DEF live
          <6> QED BY <6>1
        <5>3. IsTry(live[j]) /\ live[j].evt >= n
          BY <2>4, <5>1, <5>2, TaskEvents DEF live, Tries
        <5> QED BY <4>1, <5>3
      <4> QED BY <4>1, <4>2, <4>3, <4>4
    <3>6. /\ Follows(immediates, last, all)
          /\ \A n \in Int : (\E k \in DOMAIN all : IsTry(all[k]) /\ all[k].evt >= n) <=>
                 \/ \E k \in DOMAIN before : IsTry(before[k]) /\ before[k].evt >= n
                 \/ \E k \in DOMAIN live : IsTry(live[k]) /\ live[k].evt >= n
      <4>1. before \in Seq(Tasks) /\ live \in Seq(Tasks) /\ last \in Int /\ immediates \in Seq(Tasks)
        BY <1>2, <2>3, <2>6
      <4>2. Follows(immediates, last, before)
        BY <3>3
      <4>3. Joined(all, before, live)
        BY DEF Joined, all
      <4>4. Follows(immediates, last, all)
        BY <3>5, <4>1, <4>2, <4>3, JoinedFollow
      <4>5. \A n \in Int : (\E k \in DOMAIN all : IsTry(all[k]) /\ all[k].evt >= n) <=>
                                 \/ \E k \in DOMAIN before : IsTry(before[k]) /\ before[k].evt >= n
                                 \/ \E k \in DOMAIN live : IsTry(live[k]) /\ live[k].evt >= n
        <5>1. \A n \in Int : AnyTry(all, n) <=> AnyTry(before, n) \/ AnyTry(live, n)
          BY <4>1, <4>3, JoinedReach
        <5> QED BY <5>1 DEF AnyTry
      <4> QED BY <4>4, <4>5
    <3>7. \A n \in Int : (\E k \in DOMAIN live : IsTry(live[k]) /\ live[k].evt >= n) <=>
                 \E k \in DOMAIN liveQueue : liveQueue[k] >= n
      BY <2>4 DEF live
    <3> QED BY <2>3, <3>4, <3>6, <3>7
  <2>10. \A n \in Int : Reached(base, n)' <=>
             Reached(base, n) \/ \E k \in DOMAIN all : IsTry(all[k]) /\ all[k].evt >= n
    BY <1>1, <2>6, <2>7, HandlerReach
  <2>11. ASSUME Unbroken'
         PROVE  /\ Reached(base, until)'
                /\ \A n \in Int : Held(base, until, n) => Held(base, until, n)'
    <3>1. Reached(base, until)'
      BY <2>1, <2>9, <2>10, <2>11
    <3>2. ASSUME NEW n \in Int, n <= until
          PROVE  Reached(base, n)'
      <4>1. PICK next \in Int : next = Last(base)'
        BY <2>3, <1>1 DEF Last
      <4>2. immediates' \in Seq(Tasks)
        BY DEF Typed, SharedTypeOK
      <4> QED BY <3>1, <3>2, <4>1, <4>2, ReachedBefore DEF Reached
    <3>3. \A n \in Int : Reached(base, n)' <=>
              \/ Reached(base, n)
              \/ \E k \in DOMAIN tasks : IsTry(tasks[k]) /\ tasks[k].evt >= n
              \/ \E k \in DOMAIN liveQueue : liveQueue[k] >= n
      BY <2>9, <2>10, <2>11
    <3> QED BY <3>1, <3>2, <3>3 DEF Held
  <2>12. QueueChain(base, until)'
    BY <2>2 DEF QueueChain
  <2>13. /\ Unbroken' => /\ Follows(immediates, Last(base), all)
                         /\ \A n \in Int : Held(base, until, n) => Held(base, until, n)'
                         /\ QueueChain(base, until)'
                         /\ lives' = 1 => Reached(base, until)'
         /\ \A i \in DOMAIN liveQueue' : liveQueue'[i] < written
         /\ pass' = "first" => until = -1
    BY <2>1, <2>2, <2>9, <2>11, <2>12
  <2>14. PICK more \in Seq(M) : more = <<>> /\ Schedules(all, more)
    BY <1>1, <2>7
  <2>15. Gapless(base, until, named)'
    BY <1>1, <2>2, <2>6, <2>8, <2>13, <2>14, ScheduledGapless
  <2>16. \A n \in Int : Unbroken' /\ (\E k \in DOMAIN tasks : IsTry(tasks[k]) /\ tasks[k].evt >= n) =>
             Reached(base, n)'
    BY <2>9, <2>10
  <2> QED BY <2>10, <2>15, <2>16
<1> QED
  BY <1>3, <1>4 DEF PassDone

\* A handler's messages are what there was and what it enqueued.
LEMMA HandledUnderway ==
    ASSUME NEW M, Typed(M), queue # <<>>, NEW more \in Seq(M), queue' = Tail(queue) \o more,
           UNCHANGED <<inbound, requests>>
    PROVE  Underway' \subseteq Underway \cup {more[i] : i \in DOMAIN more}
<1>1. queue \in Seq(M) /\ inbound \in Seq(M)
  BY TypedFacts
<1>2. Tail(queue) \in Seq(M) /\ \A i \in DOMAIN Tail(queue) : \E k \in DOMAIN queue : Tail(queue)[i] = queue[k]
  BY <1>1
<1> DEFINE rest == Tail(queue)
<1> HIDE DEF rest
<1>3. rest \in Seq(M) /\ \A i \in DOMAIN rest : \E k \in DOMAIN queue : rest[i] = queue[k]
  BY <1>2 DEF rest
<1>4. queue' = rest \o more
  BY DEF rest
<1>5. /\ queue' \in Seq(M)
      /\ \A i \in DOMAIN queue' : \/ \E k \in DOMAIN rest : queue'[i] = rest[k]
                                  \/ \E k \in DOMAIN more : queue'[i] = more[k]
  <2>1. PICK q : q = queue' /\ Joined(q, rest, more)
    BY <1>4 DEF Joined
  <2>2. rest \in Seq(M) /\ Joined(q, rest, more)
    BY <1>3, <2>1
  <2>3. /\ q \in Seq(M)
        /\ \A i \in DOMAIN q : (\E k \in DOMAIN rest : q[i] = rest[k]) \/ (\E k \in DOMAIN more : q[i] = more[k])
    BY <2>2, JoinedPlaces DEF Holds
  <2> QED BY <2>1, <2>3
<1>6. \A i \in DOMAIN Coming' : \/ \E k \in DOMAIN queue' : Coming'[i] = queue'[k]
                                \/ \E k \in DOMAIN inbound : Coming'[i] = inbound[k]
  <2>1. PICK c, q, s : c = Coming' /\ q = queue' /\ s = inbound /\ Joined(c, q, s)
    BY DEF Joined, Coming
  <2>2. q \in Seq(M) /\ s \in Seq(M) /\ Joined(c, q, s)
    BY <1>1, <1>5, <2>1
  <2>3. \A i \in DOMAIN c : (\E k \in DOMAIN q : c[i] = q[k]) \/ (\E k \in DOMAIN s : c[i] = s[k])
    BY <2>2, JoinedPlaces, SMTT(30) DEF Holds
  <2> QED BY <2>1, <2>3
<1>7. /\ \A k \in DOMAIN queue : \E i \in DOMAIN Coming : Coming[i] = queue[k]
      /\ \A k \in DOMAIN inbound : \E i \in DOMAIN Coming : Coming[i] = inbound[k]
  <2>1. \A k \in DOMAIN queue : k \in DOMAIN Coming /\ Coming[k] = queue[k]
    BY <1>1 DEF Coming
  <2>2. \A k \in DOMAIN inbound : Len(queue) + k \in DOMAIN Coming /\ Coming[Len(queue) + k] = inbound[k]
    BY <1>1 DEF Coming
  <2> QED BY <2>1, <2>2
<1>8. \A i \in DOMAIN Coming' : \/ \E k \in DOMAIN Coming : Coming'[i] = Coming[k]
                                \/ \E k \in DOMAIN more : Coming'[i] = more[k]
  <2>1. \A k \in DOMAIN queue' : \/ \E l \in DOMAIN queue : queue'[k] = queue[l]
                                 \/ \E l \in DOMAIN more : queue'[k] = more[l]
    BY <1>3, <1>5, SMTT(30)
  <2> QED BY <1>6, <1>7, <2>1
<1> QED
  BY <1>8 DEF Underway

\* A pass that is over has nothing more to read.
LEMMA PassDoneUnderway ==
    ASSUME NEW M, Vocabulary(M), Typed(M), queue # <<>>, NEW tasks, PassDone(tasks), UNCHANGED wire
    PROVE  /\ Underway' \subseteq Underway \cup {Subscribe}
           /\ liveSub => liveSub'
<1>1. UNCHANGED <<inbound, requests>> /\ Subscribe \in M
  BY DEF wire, Vocabulary
<1>2. \/ \E t : Schedules(t, <<>>)
      \/ \E t : Schedules(t, <<Subscribe>>)
  BY DEF PassDone, FirstPassDone, SecondPassDone
<1>3. PICK more \in Seq(M) : queue' = Tail(queue) \o more /\ \A i \in DOMAIN more : more[i] = Subscribe
  <2>1. <<>> \in Seq(M) /\ DOMAIN <<>> = {}
    OBVIOUS
  <2>2. PICK x \in M : x = Subscribe
    BY <1>1
  <2>3. <<x>> \in Seq(M) /\ DOMAIN <<x>> = {1} /\ <<x>>[1] = x
    OBVIOUS
  <2> QED BY <1>2, <2>1, <2>2, <2>3 DEF Schedules
<1>4. Underway' \subseteq Underway \cup {Subscribe}
  BY <1>1, <1>3, HandledUnderway
<1>5. liveSub => liveSub'
  BY DEF PassDone, FirstPassDone, SecondPassDone
<1> QED
  BY <1>4, <1>5

\* A pass without events, or with an error, is over.
LEMMA EmptyPassGapless ==
    ASSUME NEW M, Vocabulary(M), Typed(M), Typed(M)', Protocol, NEW base \in Int, NEW until \in Int,
           NEW named, Gapless(base, until, named), NEW state, NEW type, DispatchIn(state, type),
           type \in {"Read", "Page", "Failure", "NoStream"}, PassDone(<<>>),
           UNCHANGED <<delivered, connection, wire, server>>,
           promised' = -1 => promised = -1,
           Unbroken' /\ pass = "second" => Reached(base, until)
    PROVE  /\ Gapless(base, until, named)'
           /\ \A n \in Int : Reached(base, n) => Reached(base, n)'
<1>1. /\ queue # <<>> /\ immediates # <<>> /\ ~IsTry(Head(immediates)) /\ Reading(Head(queue))
  BY HandlerRuns DEF Reading
<1>2. PICK tasks \in Seq(Tasks) : tasks = <<>>
  <2>1. <<>> \in Seq(Tasks)
    OBVIOUS
  <2> QED BY <2>1
<1>3. PassDone(tasks) /\ DOMAIN tasks = {}
  BY <1>2
<1>4. \A s, last : Follows(s, last, tasks)
  BY <1>3 DEF Follows
<1> QED
  BY <1>1, <1>3, <1>4, PassDoneGapless

\* A read has failed, or the connection is closed.
LEMMA HandleFailureGapless ==
    ASSUME NEW M, Vocabulary(M), Typed(M), Typed(M)', Protocol, NEW base \in Int, NEW until \in Int,
           NEW named, Gapless(base, until, named), HandleFailure
    PROVE  /\ Gapless(base, until, named)'
           /\ \A n \in Int : Reached(base, n) => Reached(base, n)'
<1>1. PICK state, type : DispatchIn(state, type) /\ type \in {"Read", "Page", "Failure", "NoStream"}
  BY DEF HandleFailure, Dispatch
<1>2. PassDone(<<>>) /\ UNCHANGED <<delivered, connection, wire, server>>
  BY DEF HandleFailure
<1>3. /\ promised' = -1 => promised = -1
      /\ pass = "second" => promised' # -1 /\ liveSub'
  <2>1. Len(delivered) \in Nat
    BY TypedFacts
  <2>2. pass = "second" => promised' # -1
    BY <2>1 DEF HandleFailure, EndPromise
  <2>3. pass = "second" => liveSub'
    BY <1>2 DEF PassDone, FirstPassDone, SecondPassDone, Protocol, Flags
  <2> QED BY <2>2, <2>3 DEF HandleFailure, EndPromise
<1>4. Unbroken' /\ pass = "second" => Reached(base, until)
  BY <1>3 DEF Unbroken
<1> QED
  BY <1>1, <1>2, <1>3, <1>4, EmptyPassGapless

\* A page has been read: its events follow those read before it.
LEMMA HandlePageGapless ==
    ASSUME NEW M, Vocabulary(M), Typed(M), Typed(M)', Protocol, NEW base \in Int, NEW until \in Int,
           NEW named, Gapless(base, until, named), \A m \in M : m.type = "Page" => Read(m.next) \in M,
           NEW done, HandlePageUntil(done),
           NEW a \in Nat, NEW b \in Nat, a <= b, b <= written, Head(queue).events = EventsFrom(a, b),
           Unbroken => Reached(base, a - 1),
           done /\ pass = "second" => b - 1 >= until
    PROVE  /\ Gapless(base, until, named)'
           /\ \A n \in Int : Reached(base, n) => Reached(base, n)'
           /\ \/ Underway' \subseteq Underway \cup {Subscribe}
              \/ /\ Underway' \subseteq Underway \cup {Read(Head(queue).next)}
                 /\ Unbroken => Reached(base, b - 1)'
           /\ ~isDropped /\ Unbroken' => Reached(base, b - 1)'
<1>1. /\ queue # <<>> /\ immediates # <<>> /\ ~IsTry(Head(immediates))
      /\ Head(queue) \in M /\ Head(queue).type = "Page" /\ connection = "Connected"
      /\ Reading(Head(queue)) /\ DispatchIn("Connected", "Page")
  BY HandlerRuns DEF HandlePageUntil, Dispatch, Reading
<1>2. UNCHANGED <<delivered, connection, wire, server, promised>>
  BY DEF HandlePageUntil
<1>3. CASE isDropped /\ PassDone(<<>>)
  <2>1. Unbroken' /\ pass = "second" => Reached(base, until)
    <3>1. pass = "second" => liveSub' /\ promised # -1
      BY <1>3 DEF PassDone, FirstPassDone, SecondPassDone, Protocol, Flags
    <3> QED BY <1>2, <3>1 DEF Unbroken
  <2>2. /\ Gapless(base, until, named)'
        /\ \A n \in Int : Reached(base, n) => Reached(base, n)'
    BY <1>1, <1>2, <1>3, <2>1, EmptyPassGapless
  <2>3. Underway' \subseteq Underway \cup {Subscribe}
    BY <1>1, <1>2, <1>3, PassDoneUnderway
  <2> QED BY <1>3, <2>2, <2>3
<1>4. PICK events \in Seq(Events) : /\ events = Head(queue).events
                                    /\ \A i \in DOMAIN events : events[i] < written
  <2>1. written \in Nat /\ written <= MaxEvents
    BY TypedFacts
  <2>2. /\ EventsFrom(a, b) \in Seq(Events) /\ DOMAIN EventsFrom(a, b) = 1..(b - a)
        /\ \A i \in 1..(b - a) : EventsFrom(a, b)[i] = a + i - 1
    <3>1. b <= MaxEvents
      BY <2>1, ConstantsAssumption
    <3> QED BY <3>1, EventsFromFacts
  <2>3. \A i \in DOMAIN EventsFrom(a, b) : EventsFrom(a, b)[i] < written
    BY <2>1, <2>2
  <2> QED BY <2>2, <2>3
<1>5. /\ Tries(events) \in Seq(Tasks)
      /\ \A i \in DOMAIN Tries(events) : IsTry(Tries(events)[i]) => Tries(events)[i].evt < written
  <2>1. Tries(events) \in Seq(Tasks) /\ DOMAIN Tries(events) = DOMAIN events
    BY TriesType DEF Tries
  <2>2. \A i \in DOMAIN events : Tries(events)[i].evt = events[i]
    BY TaskEvents DEF Tries
  <2> QED BY <1>4, <2>1, <2>2
<1>6. PICK last \in Int : last = Last(base)
  BY LastIsNumber
<1>7. ASSUME Unbroken
      PROVE  /\ Follows(immediates, last, Tries(events))
             /\ \A n \in Int : n <= b - 1 =>
                    Reached(base, n) \/ \E k \in DOMAIN Tries(events) : IsTry(Tries(events)[k]) /\ Tries(events)[k].evt >= n
  <2>1. immediates \in Seq(Tasks) /\ ReachedIn(immediates, last, a - 1)
    BY <1>6, <1>7, TypedFacts DEF Reached
  <2>2. b <= MaxEvents
    <3>1. written \in Nat /\ written <= MaxEvents
      BY TypedFacts
    <3> QED BY <3>1, ConstantsAssumption
  <2>3. /\ Follows(immediates, last, Tries(events))
        /\ \A n \in Int : n <= b - 1 =>
               ReachedIn(immediates, last, n) \/ \E k \in DOMAIN events : events[k] >= n
    BY <1>4, <2>1, <2>2, PageFollows
  <2>4. \A n \in Int : (\E k \in DOMAIN Tries(events) : IsTry(Tries(events)[k]) /\ Tries(events)[k].evt >= n) <=>
               \E k \in DOMAIN events : events[k] >= n
    BY TriesReach
  <2> QED BY <1>6, <2>3, <2>4 DEF Reached
<1>8. CASE done /\ PassDone(Tries(events))
  <2>1. liveSub => liveSub'
    BY <1>1, <1>2, <1>8, PassDoneUnderway
  <2>2. Unbroken' => Unbroken
    BY <1>2, <2>1 DEF Unbroken
  <2>3. /\ Unbroken' => Follows(immediates, Last(base), Tries(events))
        /\ Unbroken' /\ pass = "second" =>
               \/ Reached(base, until)
               \/ \E k \in DOMAIN Tries(events) : IsTry(Tries(events)[k]) /\ Tries(events)[k].evt >= until
    BY <1>6, <1>7, <1>8, <2>2
  <2>4. PICK tasks \in Seq(Tasks) : tasks = Tries(events)
    BY <1>5
  <2>5. /\ PassDone(tasks) /\ (Unbroken' => Follows(immediates, Last(base), tasks))
        /\ Unbroken' /\ pass = "second" =>
               \/ Reached(base, until)
               \/ \E k \in DOMAIN tasks : IsTry(tasks[k]) /\ tasks[k].evt >= until
        /\ \A i \in DOMAIN tasks : IsTry(tasks[i]) => tasks[i].evt < written
    BY <1>5, <1>8, <2>3, <2>4
  <2>6. /\ Gapless(base, until, named)'
        /\ \A n \in Int : Reached(base, n) => Reached(base, n)'
        /\ \A n \in Int : Unbroken' /\ (\E k \in DOMAIN tasks : IsTry(tasks[k]) /\ tasks[k].evt >= n) =>
               Reached(base, n)'
    BY <1>1, <1>2, <2>5, PassDoneGapless
  <2>7. Underway' \subseteq Underway \cup {Subscribe}
    BY <1>1, <1>2, <1>8, PassDoneUnderway
  <2>8. Unbroken' => Reached(base, b - 1)'
    <3>1. PICK n \in Int : n = b - 1 /\ n <= b - 1
      OBVIOUS
    <3>2. Unbroken' => Reached(base, n)'
      BY <1>7, <2>2, <2>4, <2>6, <3>1
    <3> QED BY <3>1, <3>2
  <2> QED BY <2>6, <2>7, <2>8
<1>9. CASE /\ Schedules(Tries(events), <<Read(Head(queue).next)>>)
           /\ UNCHANGED <<pass, liveSub, shouldStop, liveQueue, allowProcessing, stops, lives>>
  <2>1. PICK x \in M : x = Read(Head(queue).next)
    BY <1>1
  <2>2. PICK more \in Seq(M) : more = <<x>> /\ DOMAIN more = {1} /\ more[1] = x
    <3>1. <<x>> \in Seq(M) /\ DOMAIN <<x>> = {1} /\ <<x>>[1] = x
      OBVIOUS
    <3> QED BY <3>1
  <2>3. PICK tasks \in Seq(Tasks) : tasks = Tries(events)
    BY <1>5
  <2>4. Schedules(tasks, more) /\ x.type \notin {"Event", "Confirmed"} /\ ~Subscribing(x)
    BY <1>9, <2>1, <2>2, <2>3, Types DEF Subscribing
  <2>5. /\ UNCHANGED <<delivered, written, inbound, requests, subscribed, connection>>
        /\ UNCHANGED <<pass, liveQueue, lives, liveSub, promised>>
    BY <1>2, <1>9 DEF wire, server
  <2>6. \A n \in Int : Reached(base, n)' <=>
                  \/ Reached(base, n)
                  \/ \E k \in DOMAIN tasks : IsTry(tasks[k]) /\ tasks[k].evt >= n
    BY <1>1, <2>4, <2>5, HandlerReach
  <2>7. /\ \A n \in Int : Held(base, until, n) => Held(base, until, n)'
        /\ QueueChain(base, until) => QueueChain(base, until)'
    <3>1. until <= until /\ UNCHANGED liveQueue /\ liveQueue \in Seq(Events)
      BY <2>5, TypedFacts
    <3> QED BY <2>6, <3>1, HeldStays
  <2>8. /\ Unbroken' => Unbroken
        /\ \A i \in DOMAIN liveQueue' : liveQueue'[i] < written
        /\ pass' = "first" => until = -1
    BY <2>5 DEF Unbroken, Gapless, Exist
  <2>9. Unbroken' => /\ Follows(immediates, Last(base), tasks)
                     /\ \A n \in Int : Held(base, until, n) => Held(base, until, n)'
                     /\ QueueChain(base, until)'
                     /\ lives' = 1 => Reached(base, until)'
    <3>1. Unbroken' => QueueChain(base, until) /\ (lives = 1 => Reached(base, until))
      BY <2>8 DEF Gapless, InLine
    <3> QED BY <1>6, <1>7, <2>3, <2>5, <2>6, <2>7, <2>8, <3>1
  <2>10. \A i \in DOMAIN tasks : IsTry(tasks[i]) => tasks[i].evt < written
    BY <1>5, <2>3
  <2>11. \/ more = <<>>
         \/ \E y \in M : /\ more = <<y>> /\ y.type \notin {"Event", "Confirmed"}
                         /\ Subscribing(y) => until = -1
    BY <2>2, <2>4
  <2>12. Gapless(base, until, named)'
    BY <1>1, <2>4, <2>5, <2>8, <2>9, <2>10, <2>11, ScheduledGapless
  <2>13. Underway' \subseteq Underway \cup {Read(Head(queue).next)}
    <3>1. queue' = Tail(queue) \o more
      BY <2>4 DEF Schedules
    <3>2. Underway' \subseteq Underway \cup {more[i] : i \in DOMAIN more}
      BY <1>1, <2>5, <3>1, HandledUnderway
    <3> QED BY <2>1, <2>2, <3>2
  <2>14. Unbroken => Reached(base, b - 1)'
    <3>1. PICK n \in Int : n = b - 1 /\ n <= b - 1
      OBVIOUS
    <3>2. Unbroken => Reached(base, n)'
      BY <1>7, <2>3, <2>6, <3>1
    <3> QED BY <3>1, <3>2
  <2> QED BY <2>6, <2>8, <2>12, <2>13, <2>14
<1> QED
  BY <1>3, <1>4, <1>8, <1>9 DEF HandlePageUntil

-----------------------------------------------------------------------------
(* Steps, whatever events are compared by *)

\* What a shared step leaves of all that.
LEMMA SharedGapless ==
    ASSUME NEW M, Vocabulary(M), Typed(M), Typed(M)', Protocol, NEW base \in Int, NEW until \in Int,
           NEW named, Gapless(base, until, named), SharedNext
    PROVE  /\ Gapless(base, until, named)'
           /\ \A n \in Int : Reached(base, n) => Reached(base, n)'
           /\ Unbroken' => Unbroken
           /\ Underway' \subseteq Underway \cup Orders \cup {Subscribe}
           /\ UNCHANGED <<delivered, written>>
<1>1. CASE Quiet
  <2>1. /\ Gapless(base, until, named)'
        /\ \A n \in Int : Reached(base, n) => Reached(base, n)'
    BY <1>1, QuietGapless, QuietReach
  <2> QED BY <1>1, <2>1 DEF Quiet, Unbroken
<1>2. CASE HandleFailure
  <2>1. /\ Gapless(base, until, named)'
        /\ \A n \in Int : Reached(base, n) => Reached(base, n)'
    BY <1>2, HandleFailureGapless
  <2>2. PICK state, type : DispatchIn(state, type)
    BY <1>2 DEF HandleFailure, Dispatch
  <2>3. PassDone(<<>>) /\ UNCHANGED <<wire, server, delivered>>
    BY <1>2 DEF HandleFailure
  <2>4. Underway' \subseteq Underway \cup {Subscribe} /\ (liveSub => liveSub')
    BY <2>2, <2>3, HandlerRuns, PassDoneUnderway
  <2>5. promised' = -1 => promised = -1
    BY <1>2 DEF HandleFailure, EndPromise
  <2> QED BY <2>1, <2>3, <2>4, <2>5 DEF Unbroken, server
<1>3. CASE HandleEvent
  <2>1. /\ Gapless(base, until, named)'
        /\ \A n \in Int : Reached(base, n) => Reached(base, n)'
    BY <1>3, HandleEventGapless
  <2>2. /\ UNCHANGED <<wire, server, seen, liveSub>> /\ queue # <<>>
        /\ \E tasks : Schedules(tasks, <<>>)
    BY <1>3, HandlerRuns DEF HandleEvent, Dispatch
  <2>3. UNCHANGED <<inbound, requests, delivered, written, promised>>
    BY <2>2 DEF wire, server, seen
  <2>4. PICK more \in Seq(M) : DOMAIN more = {} /\ queue' = Tail(queue) \o more
    <3>1. <<>> \in Seq(M) /\ DOMAIN <<>> = {}
      OBVIOUS
    <3> QED BY <2>2, <3>1 DEF Schedules
  <2>5. Underway' \subseteq Underway \cup {more[i] : i \in DOMAIN more}
    BY <2>2, <2>3, <2>4, HandledUnderway
  <2>6. Underway' \subseteq Underway
    BY <2>4, <2>5
  <2>7. Unbroken' => Unbroken
    BY <2>2, <2>3 DEF Unbroken
  <2> QED BY <2>1, <2>3, <2>6, <2>7
<1> QED
  BY <1>1, <1>2, <1>3, SharedQuiet

\* What the server sends is underway.
LEMMA AnswerUnderway ==
    ASSUME NEW M, Typed(M), NEW request, NEW package \in M, Answer(request, package)
    PROVE  /\ Underway' \subseteq Underway \cup {package} /\ request \in Underway
           /\ UNCHANGED <<immediates, delivered, promised, liveSub, pass>>
<1>1. /\ UNCHANGED <<immediates, delivered, promised, liveSub, pass, queue>>
      /\ request \in requests /\ requests' = requests \ {request}
      /\ inbound' = Append(inbound, package)
  BY DEF Answer, subscription, flags, node, program, seen
<1>2. /\ DOMAIN Coming' = 1..(Len(Coming) + 1) /\ Len(Coming) \in Nat /\ DOMAIN Coming = 1..Len(Coming)
      /\ \A i \in 1..Len(Coming) : Coming'[i] = Coming[i]
      /\ Coming'[Len(Coming) + 1] = package
  BY <1>1, ComingAnswered, ComingFacts
<1>3. \A i \in DOMAIN Coming' : Coming'[i] = package \/ \E k \in DOMAIN Coming : Coming'[i] = Coming[k]
  BY <1>2
<1> QED
  BY <1>1, <1>3 DEF Underway

\* Writing puts events on the wire only.
LEMMA WriteUnderway ==
    ASSUME NEW M, Vocabulary(M), Typed(M), NEW n \in (written + 1)..MaxEvents, WriteUpTo(n)
    PROVE  /\ \A m \in Underway' : m \in Underway \/ m.type = "Event"
           /\ UNCHANGED <<immediates, delivered, promised, liveSub, pass>>
           /\ written' = n /\ written < n
<1>1. /\ UNCHANGED <<immediates, delivered, promised, liveSub, pass, queue, requests>> /\ written' = n
  BY DEF WriteUpTo, subscription, flags, node, program, seen
<1>2. written \in Nat /\ MaxEvents \in Nat /\ n \in Nat /\ written < n /\ inbound \in Seq(M)
  <2>1. written \in Nat /\ MaxEvents \in Nat /\ inbound \in Seq(M)
    BY TypedFacts, ConstantsAssumption
  <2>2. n \in Nat /\ written < n
    BY <2>1
  <2> QED BY <2>1, <2>2
<1>3. CASE subscribed
  <2> DEFINE pushed == [i \in 1..(n - written) |-> Event(written + i - 1)]
  <2>1. pushed \in Seq({m \in M : m.type = "Event"})
    <3>1. \A i \in 1..(n - written) : written + i - 1 \in Events
      <4>1. n <= MaxEvents
        BY <1>2
      <4> QED BY <1>2, <4>1 DEF Events
    <3>2. \A i \in 1..(n - written) : Event(written + i - 1) \in {m \in M : m.type = "Event"}
      BY <3>1, Types DEF Vocabulary
    <3>3. n - written \in Nat
      BY <1>2
    <3> QED BY <3>2, <3>3, IsSequence
  <2>2. inbound' = inbound \o pushed
    BY <1>3 DEF WriteUpTo
  <2> HIDE DEF pushed
  <2>3. pushed \in Seq(M) /\ \A i \in DOMAIN pushed : pushed[i].type = "Event"
    BY <2>1
  <2>4. /\ DOMAIN Coming' = 1..(Len(Coming) + Len(pushed)) /\ Len(Coming) \in Nat
        /\ DOMAIN Coming = 1..Len(Coming) /\ DOMAIN pushed = 1..Len(pushed) /\ Len(pushed) \in Nat
        /\ \A i \in 1..Len(Coming) : Coming'[i] = Coming[i]
        /\ \A i \in 1..Len(pushed) : Coming'[Len(Coming) + i] = pushed[i]
    <3>1. pushed \in Seq(M) /\ inbound' = inbound \o pushed /\ UNCHANGED queue
      BY <1>1, <2>2, <2>3
    <3>2. /\ DOMAIN Coming' = 1..(Len(Coming) + Len(pushed))
          /\ \A i \in 1..Len(Coming) : Coming'[i] = Coming[i]
          /\ \A i \in 1..Len(pushed) : Coming'[Len(Coming) + i] = pushed[i]
      BY <3>1, ComingSent
    <3>3. DOMAIN pushed = 1..Len(pushed) /\ Len(pushed) \in Nat
      BY <3>1
    <3> QED BY <3>2, <3>3, ComingFacts
  <2>5. ASSUME NEW i \in DOMAIN Coming'
        PROVE  Coming'[i].type = "Event" \/ \E k \in DOMAIN Coming : Coming'[i] = Coming[k]
    <3>1. CASE i <= Len(Coming)
      <4>1. i \in DOMAIN Coming /\ Coming'[i] = Coming[i]
        BY <2>4, <3>1
      <4> QED BY <4>1
    <3>2. CASE i > Len(Coming)
      <4>1. PICK k \in DOMAIN pushed : i = Len(Coming) + k
        <5>1. i - Len(Coming) \in DOMAIN pushed /\ i = Len(Coming) + (i - Len(Coming))
          BY <2>4, <3>2
        <5> QED BY <5>1
      <4>2. Coming'[i] = pushed[k]
        BY <2>4, <4>1
      <4> QED BY <2>3, <4>2
    <3> QED BY <2>4, <3>1, <3>2
  <2> QED BY <1>1, <1>2, <2>5 DEF Underway
<1>4. CASE ~subscribed
  <2>1. inbound' = inbound
    BY <1>4 DEF WriteUpTo
  <2>2. Coming' = Coming
    BY <1>1, <2>1 DEF Coming
  <2> QED BY <1>1, <1>2, <2>2 DEF Underway
<1> QED
  BY <1>3, <1>4

\* An event past the last one processed is the first of its kind that is tried.
Due(s, last, n) ==
    /\ last < n
    /\ \E k \in DOMAIN s : /\ s[k] = Try(n)
                           /\ \A j \in 1..(k - 1) : IsTry(s[j]) => s[j].evt < n

\* A list of tasks that reaches an event past the last one processed, without a gap, tries it.
LEMMA PendingTry ==
    ASSUME NEW s \in Seq(Tasks), NEW last \in Int, Chain(s, last), NEW n \in Int, last < n,
           ReachedIn(s, last, n)
    PROVE  Due(s, last, n)
<1> DEFINE R == OpToRel(<, Nat)
           Later == {k \in DOMAIN s : IsTry(s[k]) /\ s[k].evt >= n}
<1>1. IsWellFoundedOn(R, Nat)
  BY NatLessThanWellFounded
<1>2. \A x, y \in Nat : y < x => <<y, x>> \in R
  BY DEF OpToRel
<1>3. DOMAIN s \subseteq Nat /\ DOMAIN s = 1..Len(s) /\ Len(s) \in Nat
  OBVIOUS
<1>4. Later \subseteq Nat /\ Later # {}
  BY <1>3 DEF ReachedIn
<1> HIDE DEF R
<1>5. PICK k \in Later : \A y \in Later : ~ (<<y, k>> \in R)
  BY <1>1, <1>4, WFMin
<1>6. k \in DOMAIN s /\ IsTry(s[k]) /\ s[k].evt >= n /\ s[k] \in Tasks /\ s[k].evt \in Int
  <2>1. k \in DOMAIN s /\ IsTry(s[k]) /\ s[k].evt >= n
    BY <1>5
  <2> QED BY <2>1, TaskEvents
<1>7. ASSUME s[k].evt # n
      PROVE  FALSE
  <2>1. PICK e \in Int : e = s[k].evt - 1 /\ e >= n
    BY <1>6, <1>7
  <2>2. \/ ReachedIn(<<>>, last, e)
        \/ \E j \in 1..(k - 1) : IsTry(s[j]) /\ s[j].evt >= e
    BY <1>6, <2>1 DEF Chain, Follows
  <2>3. ~ReachedIn(<<>>, last, e)
    <3>1. DOMAIN <<>> = {}
      OBVIOUS
    <3>2. ~ (e <= last)
      BY <2>1
    <3> QED BY <3>1, <3>2 DEF ReachedIn
  <2>4. PICK j \in 1..(k - 1) : IsTry(s[j]) /\ s[j].evt >= e
    BY <2>2, <2>3
  <2>5. j \in DOMAIN s /\ j \in Nat /\ k \in Nat /\ j < k
    BY <1>3, <1>6
  <2>6. s[j].evt >= n
    <3>1. s[j].evt \in Int
      BY <2>4, <2>5, TaskEvents
    <3> QED BY <2>1, <2>4, <3>1
  <2>7. j \in Later
    BY <2>4, <2>5, <2>6
  <2> QED BY <1>2, <1>5, <2>5, <2>7
<1>8. s[k] = Try(n)
  BY <1>6, <1>7 DEF Tasks, IsTry, Try, Process, EmitDropped, EmitUnsubscribe
<1>9. ASSUME NEW j \in 1..(k - 1), IsTry(s[j])
      PROVE  s[j].evt < n
  <2>1. j \in DOMAIN s /\ j \in Nat /\ k \in Nat /\ j < k
    BY <1>3, <1>6
  <2>2. j \notin Later
    BY <1>2, <1>5, <2>1
  <2>3. s[j].evt \in Int
    BY <1>9, <2>1, TaskEvents
  <2> QED BY <1>9, <2>1, <2>2, <2>3
<1> QED
  BY <1>6, <1>8, <1>9 DEF Due

\* An event has been handed on, or will be whatever happens.
Assured(base, n) == (\E i \in DOMAIN delivered : delivered[i] = n) \/ Due(immediates, Last(base), n)

\* What is reached without a gap has been handed on or will be.
LEMMA ReachedAssured ==
    ASSUME NEW M, Typed(M), NEW base \in Int, NEW until \in Int, NEW named, InLine(base, until, named),
           NEW n \in Int, base < n, Reached(base, n)
    PROVE  Assured(base, n)
<1>1. immediates \in Seq(Tasks) /\ delivered \in Seq(Events)
  BY TypedFacts
<1>2. PICK last \in Int : last = Last(base) /\ last = base + Len(delivered)
  BY LastIsNumber DEF InLine
<1>3. CASE n <= last
  <2>1. PICK i \in DOMAIN delivered : n = base + i
    <3>1. n - base \in DOMAIN delivered /\ n = base + (n - base)
      BY <1>1, <1>2, <1>3
    <3> QED BY <3>1
  <2>2. delivered[i] = n
    BY <2>1 DEF InLine
  <2> QED BY <2>2 DEF Assured
<1>4. CASE last < n
  <2>1. Chain(immediates, last) /\ ReachedIn(immediates, last, n)
    BY <1>2 DEF InLine, Reached
  <2>2. Due(immediates, last, n)
    BY <1>1, <1>4, <2>1, PendingTry
  <2> QED BY <1>2, <2>2 DEF Assured
<1> QED
  BY <1>2, <1>3, <1>4

\* What is assured has been handed on or is pending.
LEMMA AssuredHanded ==
    ASSUME NEW base, NEW n, Assured(base, n)
    PROVE  Handed(n)
BY DEF Assured, Due, Handed

\* What is reached without a gap has been handed on or is about to be.
LEMMA ReachedHanded ==
    ASSUME NEW M, Typed(M), NEW base \in Int, NEW until \in Int, NEW named, InLine(base, until, named),
           NEW n \in Int, base < n, Reached(base, n)
    PROVE  Handed(n)
BY ReachedAssured, AssuredHanded

\* What is due stays so while other tasks come and go,
LEMMA DueMoved ==
    ASSUME NEW s \in Seq(Tasks), NEW t \in Seq(Tasks), NEW d \in {0, 1}, Moved(s, t, d),
           NEW last \in Int, NEW n \in Int, Due(s, last, n)
    PROVE  Due(t, last, n)
<1>1. PICK k \in DOMAIN s : /\ s[k] = Try(n)
                            /\ \A j \in 1..(k - 1) : IsTry(s[j]) => s[j].evt < n
  BY DEF Due
<1>2. k - d \in DOMAIN t /\ t[k - d] = Try(n)
  BY <1>1, TaskEvents DEF Moved
<1>3. ASSUME NEW j \in 1..(k - d - 1), IsTry(t[j])
      PROVE  t[j].evt < n
  <2>1. j \in DOMAIN t /\ k \in Nat /\ j + d \in 1..(k - 1)
    BY <1>2, SMTT(30)
  <2>2. s[j + d] = t[j]
    BY <1>3, <2>1 DEF Moved
  <2> QED BY <1>1, <1>3, <2>1, <2>2
<1>4. \A j \in 1..((k - d) - 1) : j \in 1..(k - d - 1)
  OBVIOUS
<1> QED
  BY <1>2, <1>3 DEF Due

\* while more is scheduled,
LEMMA DueScheduled ==
    ASSUME NEW M, Typed(M), immediates # <<>>, ~IsTry(Head(immediates)), NEW tasks \in Seq(Tasks),
           NEW more \in Seq(M), Schedules(tasks, more), NEW last \in Int, NEW n \in Int,
           Due(immediates, last, n)
    PROVE  Due(immediates', last, n)
<1>1. immediates \in Seq(Tasks)
  BY TypedFacts
<1>2. /\ immediates' \in Seq(Tasks)
      /\ \A i \in DOMAIN immediates : i # 1 =>
             i - 1 \in DOMAIN immediates' /\ immediates'[i - 1] = immediates[i]
  BY ScheduledPlaces
<1>3. PICK k \in DOMAIN immediates :
          /\ immediates[k] = Try(n)
          /\ \A j \in 1..(k - 1) : IsTry(immediates[j]) => immediates[j].evt < n
  BY DEF Due
<1>4. k # 1
  <2>1. Head(immediates) = immediates[1]
    BY <1>1
  <2> QED BY <1>3, <2>1, TaskEvents
<1>5. k - 1 \in DOMAIN immediates' /\ immediates'[k - 1] = Try(n)
  BY <1>2, <1>3, <1>4
<1>6. ASSUME NEW j \in 1..(k - 1 - 1), IsTry(immediates'[j])
      PROVE  immediates'[j].evt < n
  <2>1. j + 1 \in DOMAIN immediates /\ j + 1 # 1 /\ j + 1 \in 1..(k - 1) /\ (j + 1) - 1 = j
    BY <1>1
  <2>2. immediates'[j] = immediates[j + 1]
    BY <1>2, <2>1
  <2> QED BY <1>3, <1>6, <2>1, <2>2
<1>7. last < n
  BY DEF Due
<1> QED
  BY <1>5, <1>6, <1>7 DEF Due

\* and while others are tried.
LEMMA DueTried ==
    ASSUME NEW s \in Seq(Tasks), s # <<>>, IsTry(Head(s)), NEW last \in Int, NEW new \in Int,
           IF Head(s).evt > last THEN new = Head(s).evt ELSE new = last,
           NEW n \in Int, Due(s, last, n)
    PROVE  (Head(s).evt = n /\ n > last) \/ Due(Tail(s), new, n)
<1>1. PICK k \in DOMAIN s : /\ s[k] = Try(n)
                            /\ \A j \in 1..(k - 1) : IsTry(s[j]) => s[j].evt < n
  BY DEF Due
<1>2. last < n /\ Head(s) = s[1] /\ k \in Nat /\ k >= 1
  BY DEF Due
<1>3. CASE k = 1
  <2>1. Head(s).evt = n
    BY <1>1, <1>2, <1>3, TaskEvents
  <2> QED BY <1>2, <2>1
<1>4. CASE k # 1
  <2>1. Head(s).evt < n
    <3>1. 1 \in 1..(k - 1)
      BY <1>2, <1>4
    <3> QED BY <1>1, <1>2, <3>1
  <2>2. new < n
    BY <1>2, <2>1
  <2>3. /\ DOMAIN Tail(s) = 1..(Len(s) - 1) /\ Len(s) \in Nat /\ DOMAIN s = 1..Len(s)
        /\ \A j \in 1..(Len(s) - 1) : Tail(s)[j] = s[j + 1]
    OBVIOUS
  <2>4. k - 1 \in DOMAIN Tail(s) /\ Tail(s)[k - 1] = Try(n)
    <3>1. k - 1 \in 1..(Len(s) - 1) /\ (k - 1) + 1 = k
      BY <1>2, <1>4, <2>3
    <3> QED BY <1>1, <2>3, <3>1
  <2>5. ASSUME NEW j \in 1..(k - 1 - 1), IsTry(Tail(s)[j])
        PROVE  Tail(s)[j].evt < n
    <3>1. j \in 1..(Len(s) - 1) /\ j + 1 \in 1..(k - 1)
      BY <1>2, <2>3
    <3> QED BY <1>1, <2>3, <2>5, <3>1
  <2> QED BY <2>2, <2>4, <2>5 DEF Due
<1> QED
  BY <1>3, <1>4

\* What is assured stays so, by a step that moves tasks only,
LEMMA AssuredQuiet ==
    ASSUME NEW M, Typed(M), Typed(M)', NEW base \in Int, Quiet, NEW n \in Int, Assured(base, n)
    PROVE  Assured(base, n)'
<1>1. delivered' = delivered /\ \E d \in {0, 1} : Moved(immediates, immediates', d)
  BY DEF Quiet
<1>2. PICK last \in Int : last = Last(base) /\ last = Last(base)'
  BY <1>1, LastIsNumber DEF Last
<1>3. PICK t \in Seq(Tasks) : t = immediates'
  BY DEF Typed, SharedTypeOK
<1>4. immediates \in Seq(Tasks)
  BY TypedFacts
<1>5. Due(immediates, last, n) => Due(t, last, n)
  BY <1>1, <1>3, <1>4, DueMoved
<1> QED
  BY <1>1, <1>2, <1>3, <1>5 DEF Assured

\* by a step that schedules,
LEMMA AssuredScheduled ==
    ASSUME NEW M, Typed(M), NEW base \in Int, immediates # <<>>, ~IsTry(Head(immediates)),
           NEW tasks \in Seq(Tasks), NEW more \in Seq(M), Schedules(tasks, more), UNCHANGED delivered,
           NEW n \in Int, Assured(base, n)
    PROVE  Assured(base, n)'
<1>1. PICK last \in Int : last = Last(base) /\ last = Last(base)'
  BY LastIsNumber DEF Last
<1>2. Due(immediates, last, n) => Due(immediates', last, n)
  BY DueScheduled
<1> QED
  BY <1>1, <1>2 DEF Assured

\* by a step that hands an event on or filters it out,
LEMMA AssuredTried ==
    ASSUME NEW M, Typed(M), NEW base \in Int, NEW isNew, NEW mark, TryProcessIf(isNew, mark),
           isNew <=> Head(immediates).evt > Last(base), NEW n \in Int, Assured(base, n)
    PROVE  Assured(base, n)'
<1>1. /\ immediates # <<>> /\ IsTry(Head(immediates)) /\ immediates' = Tail(immediates)
      /\ immediates \in Seq(Tasks) /\ delivered \in Seq(Events)
  BY TypedFacts DEF TryProcessIf, Runs, IsTry
<1>2. /\ Head(immediates).evt \in Events
      /\ Last(base)' = IF isNew THEN Head(immediates).evt ELSE Last(base)
  BY TriedReach
<1>3. PICK last \in Int, new \in Int :
          /\ last = Last(base) /\ new = Last(base)'
          /\ IF Head(immediates).evt > last THEN new = Head(immediates).evt ELSE new = last
  <2>1. Head(immediates).evt \in Int
    BY <1>2, ConstantsAssumption DEF Events
  <2> QED BY <1>2, <2>1, LastIsNumber
<1>4. CASE \E i \in DOMAIN delivered : delivered[i] = n
  <2>1. PICK i \in DOMAIN delivered : delivered[i] = n
    BY <1>4
  <2>2. i \in DOMAIN delivered' /\ delivered'[i] = n
    <3>1. CASE UNCHANGED delivered
      BY <2>1, <3>1
    <3>2. CASE delivered' = Append(delivered, Head(immediates).evt)
      BY <1>1, <1>2, <2>1, <3>2
    <3> QED BY <3>1, <3>2 DEF TryProcessIf
  <2> QED BY <2>2 DEF Assured
<1>5. CASE Due(immediates, last, n)
  <2>1. (Head(immediates).evt = n /\ n > last) \/ Due(Tail(immediates), new, n)
    BY <1>1, <1>3, <1>5, DueTried
  <2>2. CASE Head(immediates).evt = n /\ n > last
    <3>1. delivered' = Append(delivered, n)
      BY <1>3, <2>2 DEF TryProcessIf
    <3>2. Len(delivered) + 1 \in DOMAIN delivered' /\ delivered'[Len(delivered) + 1] = n
      BY <1>1, <1>2, <2>2, <3>1
    <3> QED BY <3>2 DEF Assured
  <2>3. CASE Due(Tail(immediates), new, n)
    BY <1>1, <1>3, <2>3 DEF Assured
  <2> QED BY <2>1, <2>2, <2>3
<1> QED
  BY <1>3, <1>4, <1>5 DEF Assured

\* The end of a pass schedules tasks, and perhaps the subscription.
LEMMA PassDoneSchedules ==
    ASSUME NEW M, Vocabulary(M), Typed(M), NEW tasks \in Seq(Tasks), PassDone(tasks)
    PROVE  \E all \in Seq(Tasks), more \in Seq(M) : Schedules(all, more)
<1>1. /\ <<>> \in Seq(M) /\ Tries(liveQueue) \in Seq(Tasks)
  <2>1. liveQueue \in Seq(Events)
    BY TypedFacts
  <2> QED BY <2>1, TriesType
<1>2. CASE FirstPassDone(tasks)
  <2>1. PICK x \in M : x = Subscribe
    BY DEF Vocabulary
  <2>2. <<x>> \in Seq(M)
    OBVIOUS
  <2> QED BY <1>1, <1>2, <2>1, <2>2 DEF FirstPassDone
<1>3. CASE SecondPassDone(tasks)
  <2>1. PICK t \in Tasks : t = StopTask
    BY TaskKinds
  <2>2. tasks \o Tries(liveQueue) \in Seq(Tasks) /\ tasks \o <<t>> \o Tries(liveQueue) \in Seq(Tasks)
    BY <1>1
  <2> QED BY <1>1, <1>3, <2>1, <2>2 DEF SecondPassDone
<1> QED
  BY <1>2, <1>3 DEF PassDone

\* The handlers that are not quiet schedule.
LEMMA HandlerSchedules ==
    ASSUME NEW M, Vocabulary(M), Typed(M), \A m \in M : m.type = "Page" => Read(m.next) \in M,
           \/ HandleFailure \/ HandleEvent \/ \E done : HandlePageUntil(done)
           \/ \E until, at : Read(at) \in M /\ HandleConfirmedBy(until, Read(at))
    PROVE  /\ immediates # <<>> /\ ~IsTry(Head(immediates)) /\ UNCHANGED delivered
           /\ \E tasks \in Seq(Tasks), more \in Seq(M) : Schedules(tasks, more)
<1>1. <<>> \in Seq(Tasks) /\ <<>> \in Seq(M)
  OBVIOUS
<1>2. CASE HandleFailure
  <2>1. (DispatchIn("Connected", "Failure") \/ DispatchIn("Closed", "Read")) /\ PassDone(<<>>)
        /\ UNCHANGED delivered
    BY <1>2 DEF HandleFailure, Dispatch
  <2>2. immediates # <<>> /\ ~IsTry(Head(immediates))
    BY <2>1, HandlerRuns
  <2>3. PICK tasks \in Seq(Tasks) : PassDone(tasks)
    BY <1>1, <2>1
  <2> QED BY <2>1, <2>2, <2>3, PassDoneSchedules
<1>3. CASE HandleEvent
  <2>1. /\ DispatchIn("Connected", "Event") /\ UNCHANGED delivered
        /\ \/ Schedules(Tries(Append(liveQueue, Head(queue).evt)), <<>>)
           \/ Schedules(<<>>, <<>>)
    BY <1>3 DEF HandleEvent, Dispatch, seen
  <2>2. immediates # <<>> /\ ~IsTry(Head(immediates)) /\ Head(queue) \in M /\ Head(queue).type = "Event"
    BY <2>1, HandlerRuns
  <2>3. liveQueue \in Seq(Events) /\ Head(queue).evt \in Events
    BY <2>2, TypedFacts DEF Vocabulary
  <2>4. Append(liveQueue, Head(queue).evt) \in Seq(Events)
    BY <2>3
  <2>5. Tries(Append(liveQueue, Head(queue).evt)) \in Seq(Tasks)
    BY <2>4, TriesType
  <2> QED BY <1>1, <2>1, <2>2, <2>5
<1>4. ASSUME NEW done, HandlePageUntil(done)
      PROVE  /\ immediates # <<>> /\ ~IsTry(Head(immediates)) /\ UNCHANGED delivered
             /\ \E tasks \in Seq(Tasks), more \in Seq(M) : Schedules(tasks, more)
  <2>1. /\ DispatchIn("Connected", "Page") /\ UNCHANGED delivered
        /\ \/ PassDone(<<>>)
           \/ PassDone(Tries(Head(queue).events))
           \/ Schedules(Tries(Head(queue).events), <<Read(Head(queue).next)>>)
    BY <1>4 DEF HandlePageUntil, Dispatch
  <2>2. immediates # <<>> /\ ~IsTry(Head(immediates)) /\ Head(queue) \in M /\ Head(queue).type = "Page"
    BY <2>1, HandlerRuns
  <2>3. Head(queue).events \in Seq(Events)
    BY <2>2 DEF Vocabulary
  <2>4. Tries(Head(queue).events) \in Seq(Tasks)
    BY <2>3, TriesType
  <2>5. PICK x \in M : x = Read(Head(queue).next)
    BY <2>2
  <2>6. <<x>> \in Seq(M)
    OBVIOUS
  <2>7. (\E tasks \in Seq(Tasks) : PassDone(tasks)) \/ Schedules(Tries(Head(queue).events), <<x>>)
    BY <1>1, <2>1, <2>4, <2>5
  <2> QED BY <2>1, <2>2, <2>4, <2>6, <2>7, PassDoneSchedules
<1>5. ASSUME NEW until, NEW at, Read(at) \in M, HandleConfirmedBy(until, Read(at))
      PROVE  /\ immediates # <<>> /\ ~IsTry(Head(immediates)) /\ UNCHANGED delivered
             /\ \E tasks \in Seq(Tasks), more \in Seq(M) : Schedules(tasks, more)
  <2>1. DispatchIn("Connected", "Confirmed") /\ UNCHANGED delivered /\ Schedules(<<>>, <<Read(at)>>)
    BY <1>5 DEF HandleConfirmedBy, Dispatch, seen
  <2>2. immediates # <<>> /\ ~IsTry(Head(immediates))
    BY <2>1, HandlerRuns
  <2>3. PICK x \in M : x = Read(at)
    BY <1>5
  <2>4. <<x>> \in Seq(M)
    OBVIOUS
  <2> QED BY <1>1, <2>1, <2>2, <2>3, <2>4
<1> QED
  BY <1>2, <1>3, <1>4, <1>5

\* by every handler,
LEMMA AssuredHandled ==
    ASSUME NEW M, Vocabulary(M), Typed(M), \A m \in M : m.type = "Page" => Read(m.next) \in M,
           \/ HandleFailure \/ HandleEvent \/ \E done : HandlePageUntil(done)
           \/ \E until, at : Read(at) \in M /\ HandleConfirmedBy(until, Read(at)),
           NEW base \in Int, NEW n \in Int, Assured(base, n)
    PROVE  Assured(base, n)'
<1>1. /\ immediates # <<>> /\ ~IsTry(Head(immediates)) /\ UNCHANGED delivered
      /\ \E tasks \in Seq(Tasks), more \in Seq(M) : Schedules(tasks, more)
  BY HandlerSchedules
<1> QED
  BY <1>1, AssuredScheduled

\* and by every shared step.
LEMMA SharedAssured ==
    ASSUME NEW M, Vocabulary(M), Typed(M), Typed(M)', Protocol, SharedNext,
           \A m \in M : m.type = "Page" => Read(m.next) \in M,
           NEW base \in Int, NEW n \in Int, Assured(base, n)
    PROVE  Assured(base, n)'
<1>1. Quiet \/ HandleFailure \/ HandleEvent
  BY SharedQuiet
<1> QED
  BY <1>1, AssuredQuiet, AssuredHandled

\* A page that is not ignored is handled while the promise holds, and after.
LEMMA PageUnbroken ==
    ASSUME NEW M, Typed(M), Protocol, NEW done, HandlePageUntil(done), ~isDropped
    PROVE  Unbroken /\ Unbroken'
<1>1. DispatchIn("Connected", "Page") /\ UNCHANGED promised
  BY DEF HandlePageUntil, Dispatch
<1>2. Head(queue).type = "Page" /\ 1 \in DOMAIN Coming /\ Coming[1] = Head(queue)
  BY <1>1, HandlerRuns
<1>3. pass # "none"
  BY <1>2 DEF Protocol, InPhase, OfPhase, Reading
<1>4. promised # -1 => ~liveSub /\ shouldStop
  BY <1>3 DEF Protocol, Flags
<1>5. promised # -1 => ~liveSub'
  BY <1>3, <1>4 DEF HandlePageUntil, PassDone, FirstPassDone, SecondPassDone, Protocol, Flags
<1> QED
  BY <1>1, <1>4, <1>5 DEF Unbroken

-----------------------------------------------------------------------------
(* What the listener is promised *)

\* The promise ends with what was delivered by then, and what is delivered later
\* does not touch it.
LEMMA PromiseEnds ==
    ASSUME NEW M, Typed(M), UNCHANGED delivered, EndPromise \/ UNCHANGED promised
    PROVE  /\ Promised' = Promised
           /\ promised' = promised \/ (promised = -1 /\ promised' # -1)
<1>1. /\ delivered \in Seq(Events) /\ Len(delivered) \in Nat /\ promised \in -1..Len(delivered)
  BY TypedFacts
<1>2. CASE promised' = promised
  BY <1>2 DEF Promised
<1>3. CASE promised = -1 /\ promised' = Len(delivered)
  <2>1. SubSeq(delivered, 1, Len(delivered)) = delivered
    BY <1>1
  <2>2. Len(delivered) # -1
    BY <1>1
  <2> QED BY <1>3, <2>1, <2>2 DEF Promised
<1> QED
  BY <1>2, <1>3 DEF EndPromise

\* An event handed on is the next one of those promised, or none of them.
LEMMA PromiseTried ==
    ASSUME NEW M, Typed(M), NEW isNew, NEW mark, TryProcessIf(isNew, mark)
    PROVE  /\ UNCHANGED <<promised, written, drops>>
           /\ \/ Promised' = Promised
              \/ /\ promised = -1 /\ isNew
                 /\ Promised = delivered
                 /\ Promised' = Append(delivered, Head(immediates).evt)
<1>1. /\ delivered \in Seq(Events) /\ Len(delivered) \in Nat /\ promised \in -1..Len(delivered)
      /\ immediates \in Seq(Tasks)
  BY TypedFacts
<1>2. UNCHANGED <<promised, written, drops>>
  BY DEF TryProcessIf, server
<1>3. CASE UNCHANGED delivered
  BY <1>2, <1>3 DEF Promised
<1>4. CASE isNew /\ delivered' = Append(delivered, Head(immediates).evt)
  <2>1. CASE promised = -1
    BY <1>2, <1>4, <2>1 DEF Promised
  <2>2. CASE promised # -1
    <3>1. promised \in 0..Len(delivered)
      BY <1>1, <2>2
    <3>2. Head(immediates).evt \in Events
      <4>1. Head(immediates) \in Tasks /\ Head(immediates).task = "try"
        BY <1>1 DEF TryProcessIf, Runs
      <4> QED BY <4>1, TaskKinds
    <3> DEFINE longer == Append(delivered, Head(immediates).evt)
    <3>3. /\ longer \in Seq(Events) /\ Len(longer) = Len(delivered) + 1
          /\ \A i \in 1..Len(delivered) : longer[i] = delivered[i]
      BY <1>1, <3>2
    <3> HIDE DEF longer
    <3>4. SubSeq(longer, 1, promised) = SubSeq(delivered, 1, promised)
      <4>1. SubSeq(longer, 1, promised) = [i \in 1..promised |-> longer[i]]
        BY <1>1, <3>1, <3>3
      <4>2. SubSeq(delivered, 1, promised) = [i \in 1..promised |-> delivered[i]]
        BY <1>1, <3>1
      <4>3. \A i \in 1..promised : longer[i] = delivered[i]
        BY <1>1, <3>1, <3>3
      <4> QED BY <4>1, <4>2, <4>3
    <3> QED BY <1>2, <1>4, <2>2, <3>4 DEF Promised, longer
  <2> QED BY <2>1, <2>2
<1> QED
  BY <1>2, <1>3, <1>4 DEF TryProcessIf

\* Shared steps end the promise, or leave it.
LEMMA SharedPromise ==
    ASSUME NEW M, Typed(M), SharedNext
    PROVE  /\ UNCHANGED <<delivered, written>> /\ Promised' = Promised
           /\ promised' = promised \/ (promised = -1 /\ promised' # -1)
<1>1. UNCHANGED <<delivered, written>> /\ (EndPromise \/ UNCHANGED promised)
  <2>1. CASE SharedImmediate
    BY <2>1 DEF SharedImmediate, RunEmitDropped, RunUnsubscribe, IdleTick, SendRequest, HandleFailure,
                HandleEvent, HandleDropped, HandleClose, ThrowClosed, IgnorePackage, TellDropped,
                server, seen
  <2>2. CASE ~SharedImmediate
    BY <2>2 DEF SharedNext, Receive, FailRead, Drop, Stop, Close, Answer, server, seen
  <2> QED BY <2>1, <2>2
<1> QED
  BY <1>1, PromiseEnds

\* 'dropped' is emitted when no event is being delivered.
LEMMA DropsAlone ==
    ASSUME SharedNext
    PROVE  UNCHANGED delivered
<1>1. CASE SharedImmediate
  BY <1>1 DEF SharedImmediate, RunEmitDropped, RunUnsubscribe, IdleTick, SendRequest, HandleFailure,
              HandleEvent, HandleDropped, HandleClose, ThrowClosed, IgnorePackage, seen
<1> QED
  BY <1>1 DEF SharedNext, Receive, FailRead, Drop, Stop, Close, Answer, seen
=============================================================================
