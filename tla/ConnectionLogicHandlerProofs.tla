-------------------- MODULE ConnectionLogicHandlerProofs --------------------
(***************************************************************************)
(* Proofs about ConnectionLogicHandler for every set of requests, every    *)
(* choice of faults and every bound: its types, its event loop, the lives  *)
(* of the connection, of the operations and of their answers, and the      *)
(* order in which answers and pushes arrive.                               *)
(***************************************************************************)
EXTENDS ConnectionLogicHandler, TLAPS

-----------------------------------------------------------------------------
(* Type correctness *)

\* What a queued message can be, and what its handler may assume of it.
LEMMA MessageFacts ==
    ASSUME NEW m \in Messages
    PROVE  /\ m.name = "StartOperation" => m.id \in Ops
           /\ m.name = "StartSubscription" => m.id \in Subs
           /\ m.name = "HandleTcpPackage" => m.id \in Ids /\ m.type \in PackageTypes
BY DEF Messages, ControlNames

\* Messages of each shape are messages.
LEMMA MessageShapes ==
    /\ \A n \in ControlNames : Message(n, NoId, "none") \in Messages
    /\ \A t \in CloseTypes : Message("CloseConnection", NoId, t) \in Messages
    /\ \A o \in Ops : Message("StartOperation", o, "none") \in Messages
    /\ \A s \in Subs : Message("StartSubscription", s, "none") \in Messages
    /\ \A p \in Packages : Message("HandleTcpPackage", p.id, p.type) \in Messages
BY DEF Messages, Message, Packages

\* The emissions behind the current tick keep their type.
LEMMA OneTickLessType ==
    ASSUME LoopTypeOK
    PROVE  OneTickLess \in [Subs -> Nat \cup {Idle}]
BY DEF LoopTypeOK, OneTickLess, Idle

\* enqueueMessage keeps the loop's type.
LEMMA EnqueueType ==
    ASSUME LoopTypeOK, NEW m \in Messages, Enqueue(m)
    PROVE  LoopTypeOK'
BY DEF LoopTypeOK, Enqueue

\* So does a handler that returns,
LEMMA ReturnsType ==
    ASSUME LoopTypeOK, queue # <<>>, NEW more \in Seq(Messages), Returns(more)
    PROVE  LoopTypeOK'
  <1>1. /\ Tail(queue) \o more \in Seq(Messages)
        /\ ticks + Len(more) \in Nat
    BY DEF LoopTypeOK
  <1>2. QED
    BY <1>1, OneTickLessType DEF LoopTypeOK, Returns

\* and a handler that throws.
LEMMA ThrowsType ==
    ASSUME LoopTypeOK, queue # <<>>, ticks > 0, NEW why, Throws(why)
    PROVE  LoopTypeOK'
  <1>1. /\ Tail(queue) \in Seq(Messages)
        /\ ticks - 1 \in Nat
    BY DEF LoopTypeOK
  <1>2. QED
    BY <1>1, OneTickLessType DEF LoopTypeOK, Throws

\* Init has the right types.
LEMMA InitType == Init => TypeOK
BY DEF Init, TypeOK, LoopTypeOK, HandlerTypeOK, WireTypeOK, ProgramTypeOK, Idle, RequestIds

\* The loop: every action enqueues a message, returns, throws, or leaves it
\* alone, but for the emissions.
LEMMA LoopTypeStep ==
    ASSUME TypeOK, [Next]_vars
    PROVE  LoopTypeOK'
  <1> USE DEF TypeOK
  <1>1. ASSUME NEW m \in {"StartConnection", "TcpConnectionEstablished"},
               Enqueue(Message(m, NoId, "none"))
        PROVE  LoopTypeOK'
    BY <1>1, MessageShapes, EnqueueType DEF ControlNames
  <1>2. ASSUME queue # <<>>, Returns(<<>>) PROVE LoopTypeOK'
    <2>1. <<>> \in Seq(Messages)
      OBVIOUS
    <2>2. QED
      BY <1>2, <2>1, ReturnsType
  <1>3. CASE StartConnection
    <2>1. <<Message("EstablishTcpConnection", NoId, "none")>> \in Seq(Messages)
      BY MessageShapes DEF ControlNames
    <2>2. QED
      BY <1>2, <1>3, <2>1, ReturnsType DEF StartConnection, Dispatch
  <1>4. CASE EstablishTcpConnection
    BY <1>2, <1>4 DEF EstablishTcpConnection, Dispatch
  <1>5. CASE TcpConnectionEstablished
    BY <1>2, <1>5 DEF TcpConnectionEstablished, Dispatch
  <1>6. CASE StartOperation
    BY <1>2, <1>6, ThrowsType DEF StartOperation, Schedule, Dispatch
  <1>7. CASE StartSubscription
    BY <1>2, <1>7, ThrowsType DEF StartSubscription, Schedule, Dispatch
  <1>8. CASE CloseConnection
    BY <1>2, <1>8, ThrowsType DEF CloseConnection, Dispatch
  <1>9. CASE AnswerHeartbeat
    BY <1>2, <1>9, ThrowsType DEF AnswerHeartbeat, Dispatch
  <1>10. CASE FinishOperation
    BY <1>2, <1>10 DEF FinishOperation, Dispatch
  <1>11. CASE FinishSubscription
    BY <1>2, <1>11, ThrowsType DEF FinishSubscription, Dispatch
  <1>12. CASE IgnorePackage
    BY <1>2, <1>12 DEF IgnorePackage, Dispatch
  <1>13. CASE IdleTick
    BY <1>13, OneTickLessType DEF IdleTick, LoopTypeOK
  <1>14. ASSUME NEW s \in Subs, EmitUnsubscribe(s) PROVE LoopTypeOK'
    BY <1>14 DEF EmitUnsubscribe, LoopTypeOK
  <1>15. ASSUME NEW o \in Ops, ReportBadArgument(o) PROVE LoopTypeOK'
    BY <1>15 DEF ReportBadArgument, LoopTypeOK, loop
  <1>16. CASE SocketEvent
    <2>1. CASE SocketConnect
      BY <1>1, <2>1 DEF SocketConnect
    <2>2. CASE SocketData
      <3>1. Head(inbound) \in Packages
        BY <2>2 DEF SocketData, WireTypeOK
      <3>2. QED
        BY <2>2, <3>1, MessageShapes, EnqueueType DEF SocketData
    <2>3. QED
      BY <1>16, <2>1, <2>2 DEF SocketEvent, SocketError, SocketEnd, SocketClose, LoopTypeOK, loop
  <1>17. CASE Server
    BY <1>17 DEF Server, Reply, Beat, Push, ServerEnd, SendUnder, Send, LoopTypeOK, loop
  <1>18. CASE Program
    <2>1. ASSUME NEW o \in Ops, IssueOperation(o) PROVE LoopTypeOK'
      BY <2>1, MessageShapes, EnqueueType DEF IssueOperation
    <2>2. ASSUME NEW s \in Subs, Subscribe(s) PROVE LoopTypeOK'
      BY <2>2, MessageShapes, EnqueueType DEF Subscribe
    <2>3. ASSUME NEW s \in Subs, Unsubscribe(s) PROVE LoopTypeOK'
      BY <2>3 DEF Unsubscribe, BehindTicks, LoopTypeOK
    <2>4. ASSUME NEW t \in CloseTypes, Close(t) PROVE LoopTypeOK'
      BY <2>4, MessageShapes, EnqueueType DEF Close
    <2>5. QED
      BY <1>1, <1>18, <2>1, <2>2, <2>3, <2>4
         DEF Program, Connect, IssueInvalid, LoopTypeOK, loop
  <1>19. CASE UNCHANGED vars
    BY <1>19 DEF vars, loop, LoopTypeOK
  <1>20. QED
    BY <1>3, <1>4, <1>5, <1>6, <1>7, <1>8, <1>9, <1>10, <1>11, <1>12, <1>13, <1>14, <1>15,
       <1>16, <1>17, <1>18, <1>19 DEF Next, Immediate, Handler

\* The handler's state and its maps: a message brings an id of the right kind.
LEMMA HandlerTypeStep ==
    ASSUME TypeOK, [Next]_vars
    PROVE  HandlerTypeOK'
  <1> USE DEF TypeOK, HandlerTypeOK, RequestIds
  <1>1. queue # <<>> => Head(queue) \in Messages
    BY DEF LoopTypeOK
  <1>2. CASE StartConnection
    BY <1>2 DEF StartConnection, machine, managers
  <1>3. CASE EstablishTcpConnection
    BY <1>3 DEF EstablishTcpConnection, managers
  <1>4. CASE TcpConnectionEstablished
    BY <1>4 DEF TcpConnectionEstablished, machine, managers
  <1>5. CASE StartOperation
    <2>1. Head(queue).id \in Ops
      BY <1>1, <1>5, MessageFacts DEF StartOperation, Dispatch
    <2>2. QED
      BY <1>5, <2>1 DEF StartOperation, Schedule, machine, managers
  <1>6. CASE StartSubscription
    <2>1. Head(queue).id \in Subs
      BY <1>1, <1>6, MessageFacts DEF StartSubscription, Dispatch
    <2>2. QED
      BY <1>6, <2>1 DEF StartSubscription, Schedule, machine, managers
  <1>7. CASE CloseConnection
    BY <1>7 DEF CloseConnection, managers
  <1>8. CASE FinishOperation
    BY <1>8 DEF FinishOperation, CompleteActive, machine
  <1>9. QED
    BY <1>2, <1>3, <1>4, <1>5, <1>6, <1>7, <1>8
       DEF Next, Immediate, Handler, AnswerHeartbeat, FinishSubscription, IgnorePackage,
           IdleTick, EmitUnsubscribe, ReportBadArgument, SocketEvent, SocketConnect,
           SocketError, SocketData, SocketEnd, SocketClose, Server, Reply, Beat, Push,
           ServerEnd, SendUnder, Send, Program, Connect, Close, IssueOperation, IssueInvalid,
           Subscribe, Unsubscribe, machine, managers, vars

\* The wire.
LEMMA WireTypeStep ==
    ASSUME TypeOK, [Next]_vars
    PROVE  WireTypeOK'
  <1> USE DEF TypeOK, WireTypeOK, Ids, RequestIds
  <1>1. queue # <<>> => Head(queue) \in Messages
    BY DEF LoopTypeOK
  <1>2. CASE StartOperation
    <2>1. Head(queue).id \in Ops
      BY <1>1, <1>2, MessageFacts DEF StartOperation, Dispatch
    <2>2. QED
      BY <1>2, <2>1 DEF StartOperation, Schedule
  <1>3. CASE StartSubscription
    <2>1. Head(queue).id \in Subs
      BY <1>1, <1>3, MessageFacts DEF StartSubscription, Dispatch
    <2>2. QED
      BY <1>3, <2>1 DEF StartSubscription, Schedule
  <1>4. CASE AnswerHeartbeat
    <2>1. Head(queue).id \in Ids
      BY <1>1, <1>4, MessageFacts DEF AnswerHeartbeat, Dispatch
    <2>2. QED
      BY <1>4, <2>1 DEF AnswerHeartbeat
  <1>5. CASE CloseConnection
    <2>1. <<>> \in Seq(Packages \cup {Fin})
      OBVIOUS
    <2> DEFINE hasCallback == Head(queue).type = "callback"
    <2>2. /\ socket' \in {"None", "Opening", "Open", "Closing", "Closed"}
          /\ closeCallbacks' \in {closeCallbacks, Append(closeCallbacks, hasCallback)}
          /\ UNCHANGED <<written, unsubscribed, replied>>
      BY <1>5 DEF CloseConnection
    <2>3. hasCallback \in BOOLEAN
      OBVIOUS
    <2> HIDE DEF hasCallback
    <2>4. closeCallbacks' \in Seq(BOOLEAN)
      BY <2>2, <2>3
    <2>5. inbound' = <<>> \/ inbound' = inbound
      BY <1>5 DEF CloseConnection
    <2>6. QED
      BY <2>1, <2>2, <2>4, <2>5
  <1>6. CASE EstablishTcpConnection
    BY <1>6 DEF EstablishTcpConnection
  <1>7. ASSUME NEW s \in Subs, EmitUnsubscribe(s) PROVE WireTypeOK'
    BY <1>7 DEF EmitUnsubscribe
  <1>8. CASE SocketEvent
    <2>1. CASE SocketClose
      <3>1. <<>> \in Seq(BOOLEAN)
        OBVIOUS
      <3>2. QED
        BY <2>1, <3>1 DEF SocketClose
    <2>2. QED
      BY <1>8, <2>1, SMTT(30) DEF SocketEvent, SocketConnect, SocketError, SocketData, SocketEnd, wire
  <1>9. CASE Server
    <2>1. ASSUME NEW id \in Ids, NEW type \in PackageTypes, NEW bound, SendUnder(id, type, bound)
          PROVE  WireTypeOK'
      BY <2>1 DEF SendUnder, Send, Packages
    <2>2. CASE ServerEnd
      BY <2>2 DEF ServerEnd, Send
    <2>3. Replies \subseteq PackageTypes /\ PushTypes \subseteq PackageTypes
          /\ "HeartbeatRequestCommand" \in PackageTypes
      BY ConstantsAssumption DEF PackageTypes
    <2>4. QED
      BY <1>9, <2>1, <2>2, <2>3 DEF Server, Reply, Beat, Push
  <1>10. QED
    BY <1>2, <1>3, <1>4, <1>5, <1>6, <1>7, <1>8, <1>9
       DEF Next, Immediate, Handler, StartConnection, TcpConnectionEstablished, FinishOperation,
           FinishSubscription, IgnorePackage, IdleTick, ReportBadArgument, Program, Connect,
           Close, IssueOperation, IssueInvalid, Subscribe, Unsubscribe, wire, vars

\* What the program has been told.
LEMMA TellType ==
    ASSUME ProgramTypeOK, NEW id, NEW what \in Notices, Tell(id, what)
    PROVE  callbacks' \in [RequestIds -> Seq(Notices)]
  <1>1. \A r \in RequestIds : Append(callbacks[r], what) \in Seq(Notices)
    BY DEF ProgramTypeOK
  <1>2. QED
    BY <1>1 DEF ProgramTypeOK, Tell

\* The program's view.
LEMMA ProgramTypeStep ==
    ASSUME TypeOK, [Next]_vars
    PROVE  ProgramTypeOK'
  <1> USE DEF TypeOK
  <1>1. CASE TcpConnectionEstablished
    BY <1>1 DEF TcpConnectionEstablished, Returns, ProgramTypeOK, calls
  <1>2. CASE StartOperation
    BY <1>2, TellType DEF Notices, StartOperation, Schedule, Returns, Throws, RaiseClosed, RaiseNotActive,
                          ProgramTypeOK, calls
  <1>3. CASE StartSubscription
    BY <1>3 DEF StartSubscription, Schedule, Returns, Throws, ProgramTypeOK, calls, told
  <1>4. CASE CloseConnection
    BY <1>4, SMTT(30) DEF CloseConnection, Returns, Throws, ProgramTypeOK, calls
  <1>5. CASE AnswerHeartbeat
    BY <1>5 DEF AnswerHeartbeat, Returns, Throws, ProgramTypeOK, calls, told
  <1>6. CASE FinishOperation
    <2>1. \A k, t : Outcome(k, t) \in {"error", "result"}
      BY DEF Outcome
    <2>2. QED
      BY <1>6, <2>1, TellType DEF Notices, FinishOperation, Returns, ProgramTypeOK, calls
  <1>7. CASE FinishSubscription
    <2>1. \A t : Announced(t) \in {"confirmed", "event", "dropped", "error"}
      BY DEF Announced, Emits
    <2>2. QED
      BY <1>7, <2>1, TellType DEF Notices, FinishSubscription, Returns, Throws, ProgramTypeOK,
                            calls
  <1>8. ASSUME NEW o \in Ops, ReportBadArgument(o) PROVE ProgramTypeOK'
    BY <1>8, TellType DEF Notices, ReportBadArgument, ProgramTypeOK
  <1>9. CASE SocketEvent
    <2>1. CASE SocketClose
      <3>1. PICK n \in 0..Len(closeCallbacks) :
                /\ closeAnswers' = closeAnswers + n
                /\ crash' \in {crash, "NoCloseCallback"}
        BY <2>1 DEF SocketClose
      <3>2. n \in Nat /\ closeAnswers' \in Nat
        BY <3>1 DEF WireTypeOK, ProgramTypeOK
      <3>3. QED
        BY <2>1, <3>1, <3>2 DEF SocketClose, ProgramTypeOK, calls
    <2>2. QED
      BY <1>9, <2>1 DEF SocketEvent, SocketConnect, SocketError, SocketData, SocketEnd,
                        ProgramTypeOK, calls, told
  <1>10. CASE Program
    BY <1>10 DEF Program, Connect, Close, IssueOperation, IssueInvalid, Subscribe, Unsubscribe,
                 MayIssue, RequestIds, ProgramTypeOK, told
  <1>11. QED
    BY <1>1, <1>2, <1>3, <1>4, <1>5, <1>6, <1>7, <1>8, <1>9, <1>10
       DEF Next, Immediate, Handler, StartConnection, EstablishTcpConnection, IgnorePackage,
           IdleTick, EmitUnsubscribe, Server, Reply, Beat, Push, ServerEnd, SendUnder, Send,
           Returns, ProgramTypeOK, calls, told, vars

\* Every reachable state is well typed: in particular each handler finds in its
\* message the id of a request of its own kind.
THEOREM TypeCorrect == Spec => []TypeOK
  <1>1. TypeOK /\ [Next]_vars => TypeOK'
    BY LoopTypeStep, HandlerTypeStep, WireTypeStep, ProgramTypeStep DEF TypeOK
  <1>2. QED
    BY InitType, <1>1, PTL DEF Spec
-----------------------------------------------------------------------------
(* The event loop: no message is stranded, no unsubscription overtakes *)

\* A pending emission has no more ticks ahead of it than there are.
EmissionsScheduled == \A s \in Subs : unsub[s] <= ticks

\* Only a subscription that was handed to the API is queued or unsubscribed.
SubscriptionsIssued ==
    /\ \A i \in DOMAIN queue : queue[i].name = "StartSubscription" => queue[i].id \in issued
    /\ \A s \in Subs : unsub[s] # Idle => s \in issued

LoopSafe == /\ EveryMessageHasTick
            /\ EmissionsScheduled
            /\ SubscriptionsIssued
            /\ UnsubscribeNeverOvertakes

\* The inductive invariant.
LoopInv == TypeOK /\ LoopSafe

\* A message enqueued is the last one: it can only be overtaken if it starts a
\* subscription that an emission is already pending for.
LEMMA EnqueueSafe ==
    ASSUME LoopInv, NEW m \in Messages, Enqueue(m), issued \subseteq issued',
           m.name = "StartSubscription" => m.id \in issued' /\ unsub[m.id] = Idle
    PROVE  LoopSafe'
  <1> USE DEF LoopInv, TypeOK, LoopTypeOK, LoopSafe
  <1>1. /\ queue' = Append(queue, m) /\ ticks' = ticks + 1 /\ unsub' = unsub
        /\ Len(queue') = Len(queue) + 1
        /\ \A i \in DOMAIN queue' : \/ i \in DOMAIN queue /\ queue'[i] = queue[i]
                                    \/ i = Len(queue) + 1 /\ queue'[i] = m
    BY DEF Enqueue
  <1>2. EveryMessageHasTick'
    BY <1>1 DEF EveryMessageHasTick
  <1>3. EmissionsScheduled'
    BY <1>1 DEF EmissionsScheduled, Idle
  <1>4. SubscriptionsIssued'
    BY <1>1 DEF SubscriptionsIssued
  <1>5. UnsubscribeNeverOvertakes'
    BY <1>1 DEF UnsubscribeNeverOvertakes
  <1>6. QED
    BY <1>2, <1>3, <1>4, <1>5

\* When a tick shifts a message, every other one and every emission behind the
\* tick move up by one alike.
LEMMA ShiftSafe ==
    ASSUME LoopInv, LoopTypeOK', issued' = issued,
           EveryMessageHasTick', ticks' >= ticks - 1,
           \A i \in DOMAIN queue' : queue'[i].name = "StartSubscription" =>
                i + 1 \in DOMAIN queue /\ queue'[i] = queue[i + 1],
           \A s \in Subs : \/ unsub'[s] = Idle
                           \/ unsub[s] # Idle /\ unsub'[s] = unsub[s] - 1
    PROVE  LoopSafe'
  <1> USE DEF LoopInv, TypeOK, LoopTypeOK, LoopSafe
  <1>1. EmissionsScheduled'
    BY DEF EmissionsScheduled, Idle
  <1>2. SubscriptionsIssued'
    BY DEF SubscriptionsIssued
  <1>3. UnsubscribeNeverOvertakes'
    <2> SUFFICES ASSUME NEW s \in Subs, NEW i \in DOMAIN queue',
                        queue'[i].name = "StartSubscription", queue'[i].id = s,
                        unsub'[s] # Idle
                 PROVE  i <= unsub'[s]
      BY DEF UnsubscribeNeverOvertakes
    <2>1. /\ i \in Nat /\ i + 1 \in DOMAIN queue /\ i + 1 <= Len(queue)
          /\ queue[i + 1].name = "StartSubscription" /\ queue[i + 1].id = s
      OBVIOUS
    <2>2. CASE unsub[s] # Idle /\ unsub'[s] = unsub[s] - 1
      <3>1. i + 1 <= unsub[s]
        BY <2>1, <2>2 DEF UnsubscribeNeverOvertakes
      <3>2. QED
        BY <2>1, <2>2, <3>1
    <2>3. QED
      BY <2>2
  <1>4. QED
    BY <1>1, <1>2, <1>3

\* A message is shifted by a tick with no emission due.
Shifts == /\ queue # <<>> /\ ticks > 0
          /\ \A s \in Subs : unsub[s] # 0
          /\ issued' = issued

\* What is left of the queue.
LEMMA TailFacts ==
    ASSUME LoopTypeOK, queue # <<>>
    PROVE  /\ Tail(queue) \in Seq(Messages)
           /\ Len(Tail(queue)) = Len(queue) - 1 /\ Len(queue) \in Nat
           /\ \A i \in DOMAIN Tail(queue) : i + 1 \in DOMAIN queue /\ Tail(queue)[i] = queue[i + 1]
BY DEF LoopTypeOK

\* The emissions behind a tick.
LEMMA EmissionsFacts ==
    ASSUME LoopTypeOK, \A s \in Subs : unsub[s] # 0
    PROVE  \A s \in Subs : \/ OneTickLess[s] = Idle
                           \/ unsub[s] # Idle /\ OneTickLess[s] = unsub[s] - 1
BY DEF LoopTypeOK, OneTickLess, Idle

\* A handler that returns, having enqueued one control message at most,
LEMMA ReturnsSafe ==
    ASSUME LoopInv, LoopTypeOK', Shifts, NEW m \in Messages, m.name # "StartSubscription",
           Returns(<<>>) \/ Returns(<<m>>)
    PROVE  LoopSafe'
  <1> USE DEF LoopInv, TypeOK, Shifts
  <1>1. CASE Returns(<<>>)
    <2>1. queue' = Tail(queue) /\ ticks' = ticks /\ unsub' = OneTickLess
      BY <1>1, TailFacts DEF Returns, LoopTypeOK
    <2>2. EveryMessageHasTick'
      BY <2>1, TailFacts DEF LoopTypeOK, LoopSafe, EveryMessageHasTick
    <2>3. ticks' >= ticks - 1
      BY <2>1 DEF LoopTypeOK
    <2>4. QED
      BY <2>1, <2>2, <2>3, TailFacts, EmissionsFacts, ShiftSafe
  <1>2. CASE Returns(<<m>>)
    <2>1. queue' = Append(Tail(queue), m) /\ ticks' = ticks + 1 /\ unsub' = OneTickLess
      BY <1>2, TailFacts DEF Returns, LoopTypeOK
    <2>2. /\ Len(queue') = Len(queue)
          /\ \A i \in DOMAIN queue' : \/ i \in DOMAIN Tail(queue) /\ queue'[i] = Tail(queue)[i]
                                      \/ queue'[i] = m
      BY <2>1, TailFacts
    <2>3. EveryMessageHasTick'
      BY <2>1, <2>2, TailFacts DEF LoopTypeOK, LoopSafe, EveryMessageHasTick
    <2>4. ticks' >= ticks - 1
      BY <2>1 DEF LoopTypeOK
    <2>5. QED
      BY <2>1, <2>2, <2>3, <2>4, TailFacts, EmissionsFacts, ShiftSafe
  <1>3. QED
    BY <1>1, <1>2

\* or that throws.
LEMMA ThrowsSafe ==
    ASSUME LoopInv, LoopTypeOK', Shifts, NEW why, Throws(why)
    PROVE  LoopSafe'
  <1> USE DEF LoopInv, TypeOK, Shifts
  <1>1. queue' = Tail(queue) /\ ticks' = ticks - 1 /\ unsub' = OneTickLess
    BY DEF Throws
  <1>2. EveryMessageHasTick'
    BY <1>1, TailFacts DEF LoopTypeOK, LoopSafe, EveryMessageHasTick
  <1>3. ticks' >= ticks - 1
    BY <1>1 DEF LoopTypeOK
  <1>4. QED
    BY <1>1, <1>2, <1>3, TailFacts, EmissionsFacts, ShiftSafe

\* Steps that leave the loop alone.
LEMMA UnchangedSafe ==
    ASSUME LoopSafe, UNCHANGED loop, issued \subseteq issued'
    PROVE  LoopSafe'
BY DEF LoopSafe, loop, EveryMessageHasTick, EmissionsScheduled, SubscriptionsIssued,
       UnsubscribeNeverOvertakes

\* Every step keeps the loop safe: it enqueues, shifts a message, runs an idle
\* tick, schedules or runs an emission, or leaves the loop alone.
LEMMA LoopSafeStep ==
    ASSUME LoopInv, [Next]_vars
    PROVE  LoopSafe'
  <1> DEFINE m == Message("EstablishTcpConnection", NoId, "none")
  <1>0. /\ LoopTypeOK'
        /\ m \in Messages /\ m.name # "StartSubscription"
    BY LoopTypeStep, MessageShapes DEF LoopInv, ControlNames, Message
  <1> HIDE DEF m
  <1> USE DEF LoopInv
  <1>1. ASSUME NEW n \in ControlNames, Enqueue(Message(n, NoId, "none")), issued' = issued
        PROVE  LoopSafe'
    BY <1>1, MessageShapes, EnqueueSafe DEF Message, ControlNames
  <1>2. CASE StartConnection
    BY <1>0, <1>2, ReturnsSafe DEF StartConnection, Dispatch, Shifts, calls, m
  <1>3. CASE FinishSubscription
    <2>1. Shifts
      BY <1>3 DEF FinishSubscription, Dispatch, Shifts, calls
    <2>2. QED
      BY <1>0, <1>3, <2>1, ReturnsSafe, ThrowsSafe DEF FinishSubscription
  <1>4. CASE EstablishTcpConnection \/ TcpConnectionEstablished \/ CloseConnection
    BY <1>0, <1>4, ReturnsSafe, ThrowsSafe
       DEF EstablishTcpConnection, TcpConnectionEstablished, CloseConnection, Dispatch, Shifts,
           calls
  <1>5. CASE StartOperation
    BY <1>5, <1>0, ReturnsSafe, ThrowsSafe
       DEF StartOperation, Schedule, Dispatch, Shifts, calls
  <1>6. CASE StartSubscription
    BY <1>6, <1>0, ReturnsSafe, ThrowsSafe
       DEF StartSubscription, Schedule, Dispatch, Shifts, calls
  <1>7. CASE AnswerHeartbeat \/ FinishOperation \/ IgnorePackage
    BY <1>0, <1>7, ReturnsSafe, ThrowsSafe
       DEF AnswerHeartbeat, FinishOperation, IgnorePackage, Dispatch, Shifts, calls
  <1>8. CASE IdleTick
    <2>1. /\ queue = <<>> /\ queue' = queue /\ issued' = issued
          /\ ticks > 0 /\ ticks' = ticks - 1 /\ unsub' = OneTickLess
      BY <1>8 DEF IdleTick, calls
    <2>2. EveryMessageHasTick' /\ ticks' >= ticks - 1
      BY <2>1 DEF TypeOK, LoopTypeOK, EveryMessageHasTick
    <2>3. \A s \in Subs : OneTickLess[s] = Idle \/ (unsub[s] # Idle /\ OneTickLess[s] = unsub[s] - 1)
      <3>1. LoopTypeOK /\ \A s \in Subs : unsub[s] # 0
        BY <1>8 DEF IdleTick, TypeOK
      <3>2. QED
        BY <3>1, EmissionsFacts
    <2>4. DOMAIN queue' = {}
      BY <2>1
    <2>5. \A s \in Subs : unsub'[s] = Idle \/ (unsub[s] # Idle /\ unsub'[s] = unsub[s] - 1)
      BY <2>1, <2>3
    <2>6. QED
      BY <1>0, <2>1, <2>2, <2>4, <2>5, ShiftSafe
  <1>9. ASSUME NEW s \in Subs, EmitUnsubscribe(s) PROVE LoopSafe'
    <2>1. /\ queue' = queue /\ ticks' = ticks /\ issued' = issued
          /\ \A t \in Subs : unsub'[t] \in {Idle, unsub[t]}
      BY <1>9 DEF EmitUnsubscribe, TypeOK, LoopTypeOK, calls
    <2>2. EveryMessageHasTick' /\ EmissionsScheduled' /\ SubscriptionsIssued'
      BY <2>1 DEF TypeOK, LoopTypeOK, LoopSafe, EveryMessageHasTick, EmissionsScheduled,
                  SubscriptionsIssued, Idle
    <2>3. UnsubscribeNeverOvertakes'
      BY <2>1 DEF LoopSafe, UnsubscribeNeverOvertakes
    <2>4. QED
      BY <2>2, <2>3 DEF LoopSafe
  <1>10. CASE SocketEvent
    <2>1. CASE SocketConnect
      BY <1>1, <2>1 DEF SocketConnect, ControlNames, calls
    <2>2. CASE SocketData
      <3>1. Head(inbound) \in Packages
        BY <2>2 DEF SocketData, TypeOK, WireTypeOK
      <3>2. Message("HandleTcpPackage", Head(inbound).id, Head(inbound).type) \in Messages
        BY <3>1, MessageShapes
      <3>3. QED
        BY <2>2, <3>2, EnqueueSafe DEF SocketData, Message, calls
    <2>3. QED
      BY <1>10, <2>1, <2>2, UnchangedSafe
         DEF SocketEvent, SocketError, SocketEnd, SocketClose, calls
  <1>11. CASE Server
    BY <1>11, UnchangedSafe DEF Server, Reply, Beat, Push, ServerEnd, SendUnder, Send, calls
  <1>12. CASE Program
    <2>1. ASSUME NEW o \in Ops, IssueOperation(o) PROVE LoopSafe'
      BY <2>1, MessageShapes, EnqueueSafe DEF IssueOperation, Message
    <2>2. ASSUME NEW s \in Subs, Subscribe(s) PROVE LoopSafe'
      <3>1. unsub[s] = Idle
        BY <2>2 DEF Subscribe, MayIssue, LoopSafe, SubscriptionsIssued
      <3>2. QED
        BY <2>2, <3>1, MessageShapes, EnqueueSafe DEF Subscribe, Message
    <2>3. ASSUME NEW s \in Subs, Unsubscribe(s) PROVE LoopSafe'
      <3>1. /\ queue' = queue /\ ticks' = ticks /\ issued' = issued
            /\ s \in issued /\ unsub'[s] = ticks
            /\ \A t \in Subs : t # s => unsub'[t] = unsub[t]
        BY <2>3 DEF Unsubscribe, BehindTicks, TypeOK, LoopTypeOK
      <3>2. \A i \in DOMAIN queue : i <= ticks
        BY DEF TypeOK, LoopTypeOK, LoopSafe, EveryMessageHasTick
      <3>3. UnsubscribeNeverOvertakes'
        BY <3>1, <3>2 DEF LoopSafe, UnsubscribeNeverOvertakes
      <3>4. EveryMessageHasTick' /\ EmissionsScheduled' /\ SubscriptionsIssued'
        BY <3>1 DEF TypeOK, LoopTypeOK, LoopSafe, EveryMessageHasTick, EmissionsScheduled,
                    SubscriptionsIssued
      <3>5. QED
        BY <3>3, <3>4 DEF LoopSafe
    <2>4. CASE Connect \/ \E t \in CloseTypes : Close(t)
      BY <1>1, <2>4, MessageShapes, EnqueueSafe DEF Connect, Close, ControlNames, Message
    <2>5. ASSUME NEW o \in Ops, IssueInvalid(o) PROVE LoopSafe'
      BY <2>5, UnchangedSafe DEF IssueInvalid
    <2>6. QED
      BY <1>12, <2>1, <2>2, <2>3, <2>4, <2>5 DEF Program
  <1>13. ASSUME NEW o \in Ops, ReportBadArgument(o) PROVE LoopSafe'
    BY <1>13, UnchangedSafe DEF ReportBadArgument
  <1>14. CASE UNCHANGED vars
    BY <1>14, UnchangedSafe DEF vars, calls
  <1>15. QED
    BY <1>2, <1>3, <1>4, <1>5, <1>6, <1>7, <1>8, <1>9, <1>10, <1>11, <1>12, <1>13, <1>14
       DEF Next, Immediate, Handler
\* LoopInv is inductive.
LEMMA LoopInvariant == Spec => []LoopInv
  <1>1. Init => LoopInv
    <2>1. Init => LoopSafe
      BY DEF Init, LoopSafe, EveryMessageHasTick, EmissionsScheduled, SubscriptionsIssued,
             UnsubscribeNeverOvertakes, Idle
    <2>2. QED
      BY <2>1, InitType DEF LoopInv
  <1>2. LoopInv /\ [Next]_vars => LoopInv'
    BY LoopSafeStep, LoopTypeStep, HandlerTypeStep, WireTypeStep, ProgramTypeStep
       DEF LoopInv, TypeOK
  <1>3. QED
    BY <1>1, <1>2, PTL DEF Spec

\* However messages, throws and emissions interleave, every queued message has an
\* immediate of its own left to shift it.
THEOREM NoMessageStranded == Spec => []EveryMessageHasTick
  <1>1. LoopInv => EveryMessageHasTick
    BY DEF LoopInv, LoopSafe
  <1>2. QED
    BY <1>1, LoopInvariant, PTL

\* unsubscribe() may follow subscribeToStream() at once, from anywhere: its
\* emission always comes after the message that installs the listener.
THEOREM UnsubscribeHeard == Spec => []UnsubscribeNeverOvertakes
  <1>1. LoopInv => UnsubscribeNeverOvertakes
    BY DEF LoopInv, LoopSafe
  <1>2. QED
    BY <1>1, LoopInvariant, PTL

-----------------------------------------------------------------------------
(* Closing *)

\* A closed handler has no socket that is or could become writable.
ClosedMeansShut == state = "Closed" => socket \notin {"Opening", "Open"}

\* Closing shuts the socket, and nothing opens one in the Closed state.
LEMMA ClosedMeansShutStep ==
    ASSUME TypeOK, ClosedMeansShut, [Next]_vars
    PROVE  ClosedMeansShut'
  <1> USE DEF ClosedMeansShut
  <1>1. CASE CloseConnection
    BY <1>1 DEF CloseConnection, AnswersAtOnce, TypeOK, WireTypeOK
  <1>2. CASE StartConnection
    BY <1>2 DEF StartConnection, Starts, wire, machine
  <1>3. CASE EstablishTcpConnection
    BY <1>3 DEF EstablishTcpConnection
  <1>4. CASE TcpConnectionEstablished
    BY <1>4 DEF TcpConnectionEstablished, wire, machine
  <1>5. CASE StartOperation \/ StartSubscription \/ AnswerHeartbeat
    BY <1>5 DEF StartOperation, StartSubscription, AnswerHeartbeat, machine
  <1>6. CASE FinishOperation \/ FinishSubscription \/ IgnorePackage \/ IdleTick
    BY <1>6 DEF FinishOperation, FinishSubscription, IgnorePackage, IdleTick, machine, wire
  <1>7. CASE SocketEvent
    BY <1>7 DEF SocketEvent, SocketConnect, SocketError, SocketData, SocketEnd, SocketClose,
                machine, wire
  <1>8. CASE Server
    BY <1>8 DEF Server, Reply, Beat, Push, ServerEnd, SendUnder, Send, machine
  <1>9. CASE Program
    BY <1>9 DEF Program, Connect, Close, IssueOperation, IssueInvalid, Subscribe, Unsubscribe,
                machine, wire
  <1>10. QED
    BY <1>1, <1>2, <1>3, <1>4, <1>5, <1>6, <1>7, <1>8, <1>9
       DEF Next, Immediate, Handler, EmitUnsubscribe, ReportBadArgument, machine, wire, vars

\* What a request can be told in the Closed state.
ToldClosed == \A r \in RequestIds :
    callbacks'[r] \in {callbacks[r]}
        \cup {Append(callbacks[r], w) : w \in {"closed", "badArgument"}}

\* The telling of one request leaves the others alone.
LEMMA TellOne ==
    ASSUME TypeOK, NEW id \in RequestIds, NEW what \in {"closed", "badArgument"}, Tell(id, what)
    PROVE  ToldClosed
  <1>1. ASSUME NEW r \in RequestIds
        PROVE  callbacks'[r] = callbacks[r] \/ callbacks'[r] = Append(callbacks[r], what)
    BY DEF Tell, TypeOK, ProgramTypeOK
  <1>2. QED
    BY <1>1 DEF ToldClosed

\* A step of a closed handler.
LEMMA ClosedStep ==
    ASSUME TypeOK, ClosedMeansShut, [Next]_vars, state = "Closed"
    PROVE  /\ state' = "Closed"
           /\ UNCHANGED <<written, unsubscribed, active>>
           /\ ToldClosed
  <1>0. queue # <<>> => Head(queue) \in Messages
    BY DEF TypeOK, LoopTypeOK
  <1>1. ASSUME UNCHANGED callbacks PROVE ToldClosed
    BY <1>1 DEF ToldClosed
  <1>2. CASE StartConnection \/ EstablishTcpConnection \/ TcpConnectionEstablished
    BY <1>1, <1>2 DEF StartConnection, Starts, EstablishTcpConnection, TcpConnectionEstablished,
                      machine, managers, wire, told
  <1>3. CASE StartOperation
    <2>1. Head(queue).id \in Ops
      BY <1>0, <1>3, MessageFacts DEF StartOperation, Dispatch
    <2>2. Tell(Head(queue).id, "closed")
      BY <1>3 DEF StartOperation, RaiseClosed
    <2>3. ToldClosed
      BY <2>1, <2>2, TellOne DEF RequestIds
    <2>4. QED
      BY <1>3, <2>3 DEF StartOperation, machine, managers
  <1>4. CASE StartSubscription
    BY <1>1, <1>4 DEF StartSubscription, machine, managers, told
  <1>5. CASE CloseConnection
    BY <1>1, <1>5 DEF CloseConnection, managers
  <1>6. CASE AnswerHeartbeat \/ FinishOperation \/ FinishSubscription
    BY <1>6 DEF AnswerHeartbeat, FinishOperation, FinishSubscription, HandlesPackages
  <1>7. CASE IgnorePackage \/ IdleTick
    BY <1>1, <1>7 DEF IgnorePackage, IdleTick, machine, managers, wire, told
  <1>8. ASSUME NEW s \in Subs, EmitUnsubscribe(s)
        PROVE  /\ state' = "Closed" /\ UNCHANGED <<written, unsubscribed, active>> /\ ToldClosed
    BY <1>1, <1>8 DEF EmitUnsubscribe, ListenerWrites, Writable, ClosedMeansShut, machine,
                      managers, told
  <1>9. ASSUME NEW o \in Ops, ReportBadArgument(o)
        PROVE  /\ state' = "Closed" /\ UNCHANGED <<written, unsubscribed, active>> /\ ToldClosed
    <2>1. ToldClosed
      BY <1>9, TellOne DEF ReportBadArgument, RequestIds
    <2>2. QED
      BY <1>9, <2>1 DEF ReportBadArgument, machine, managers, wire
  <1>10. CASE SocketEvent
    BY <1>1, <1>10 DEF SocketEvent, SocketConnect, SocketError, SocketData, SocketEnd,
                       SocketClose, machine, managers, wire, told
  <1>11. CASE Server
    BY <1>1, <1>11 DEF Server, Reply, Beat, Push, ServerEnd, SendUnder, Send, machine, managers,
                       told
  <1>12. CASE Program
    BY <1>1, <1>12 DEF Program, Connect, Close, IssueOperation, IssueInvalid, Subscribe,
                       Unsubscribe, machine, managers, wire, told
  <1>13. CASE UNCHANGED vars
    BY <1>1, <1>13 DEF vars, machine, managers, wire, told
  <1>14. QED
    BY <1>2, <1>3, <1>4, <1>5, <1>6, <1>7, <1>8, <1>9, <1>10, <1>11, <1>12, <1>13
       DEF Next, Immediate, Handler

\* Once closed, the connection stays closed, writes nothing and tells nobody
\* anything but that it is closed, whatever is still queued or on its way.
THEOREM ClosedIsQuiet == Spec => QuietAfterClose
  <1>1. Init => ClosedMeansShut
    BY DEF Init, ClosedMeansShut
  <1>2. TypeOK /\ ClosedMeansShut /\ [Next]_vars => ClosedMeansShut'
    BY ClosedMeansShutStep
  <1>3. TypeOK /\ ClosedMeansShut /\ [Next]_vars =>
           [state = "Closed" =>
              /\ state' = "Closed"
              /\ UNCHANGED <<written, unsubscribed, active>>
              /\ \A r \in RequestIds :
                    callbacks'[r] \in {callbacks[r]}
                        \cup {Append(callbacks[r], w) : w \in {"closed", "badArgument"}}]_vars
    BY ClosedStep DEF ToldClosed
  <1>4. QED
    BY <1>1, <1>2, <1>3, TypeCorrect, PTL DEF Spec, QuietAfterClose

-----------------------------------------------------------------------------
(* Connecting *)

\* The socket has been connected, whatever became of it since.
BeenOpen == socket \notin {"None", "Opening"}

EstablishedQueued == \E i \in DOMAIN queue : queue[i].name = "TcpConnectionEstablished"

\* What the handler must remember for its 'connect' event to be true: no socket
\* before the end point is known, and the news of one queued only when it opened.
LinkInv == /\ ConnectedMeansEstablished
           /\ state \in {"Init", "Connecting"} => connectEvents = 0
           /\ state = "Init" => phase = "Invalid"
           /\ phase \in {"Invalid", "EndPointDiscovery"} => socket = "None"
           /\ EstablishedQueued => BeenOpen

\* A queue that was shifted, or had another message added, brings no such news.
LEMMA NoNews ==
    ASSUME LoopTypeOK, NEW m \in Messages, m.name # "TcpConnectionEstablished",
           \/ queue' = queue
           \/ Enqueue(m)
           \/ queue # <<>> /\ queue' = Tail(queue)
           \/ queue # <<>> /\ queue' = Append(Tail(queue), m)
    PROVE  EstablishedQueued' => EstablishedQueued
  <1> USE DEF LoopTypeOK
  <1>1. ASSUME NEW i \in DOMAIN queue', queue'[i] # m
        PROVE  \E j \in DOMAIN queue : queue'[i] = queue[j]
    <2>1. CASE queue' = queue
      BY <1>1, <2>1
    <2>2. CASE Enqueue(m)
      BY <1>1, <2>2 DEF Enqueue
    <2>3. CASE queue # <<>> /\ queue' = Tail(queue)
      BY <1>1, <2>3, TailFacts
    <2>4. CASE queue # <<>> /\ queue' = Append(Tail(queue), m)
      BY <1>1, <2>4, TailFacts
    <2>5. QED
      BY <2>1, <2>2, <2>3, <2>4
  <1>2. QED
    BY <1>1 DEF EstablishedQueued

\* Steps that leave the link alone.
LEMMA LinkUnchanged ==
    ASSUME LinkInv, EstablishedQueued' => EstablishedQueued,
           UNCHANGED <<state, phase, connectEvents>>,
           \/ socket' = socket
           \/ BeenOpen' /\ (socket # "None")
    PROVE  LinkInv'
BY DEF LinkInv, ConnectedMeansEstablished, BeenOpen

\* The socket leaves None when it is opened and Opening when it connects, is
\* refused or is closed, and comes back to neither.
LEMMA LinkStep ==
    ASSUME TypeOK, LinkInv, [Next]_vars
    PROVE  LinkInv'
  <1> USE DEF TypeOK
  <1>0. /\ queue # <<>> => Head(queue) \in Messages
        /\ \A n \in ControlNames : Message(n, NoId, "none") \in Messages
    BY MessageShapes DEF LoopTypeOK
  <1>1. ASSUME queue # <<>>, \/ Returns(<<>>)
                             \/ \E why : Throws(why)
        PROVE  EstablishedQueued' => EstablishedQueued
    <2>1. queue' = Tail(queue)
      BY <1>1, TailFacts DEF Returns, Throws
    <2>2. Message("StartConnection", NoId, "none") \in Messages
      BY <1>0 DEF ControlNames
    <2>3. QED
      BY <1>1, <2>1, <2>2, NoNews DEF Message
  <1>2. ASSUME UNCHANGED queue PROVE EstablishedQueued' => EstablishedQueued
    BY <1>2 DEF EstablishedQueued
  <1>3. ASSUME NEW m \in Messages, m.name # "TcpConnectionEstablished", Enqueue(m)
        PROVE  EstablishedQueued' => EstablishedQueued
    BY <1>3, NoNews
  <1>4. CASE StartConnection
    <2>1. CASE Starts
      <3> DEFINE m == Message("EstablishTcpConnection", NoId, "none")
      <3>1. m \in Messages /\ m.name # "TcpConnectionEstablished"
        BY <1>0 DEF ControlNames, Message
      <3>2. queue # <<>> /\ Returns(<<m>>) /\ state' = "Connecting" /\ phase' = "EndPointDiscovery"
        BY <1>4, <2>1 DEF StartConnection, Dispatch
      <3>3. UNCHANGED <<socket, connectEvents>>
        BY <1>4 DEF StartConnection, wire, told
      <3> HIDE DEF m
      <3>4. queue' = Append(Tail(queue), m)
        <4>1. Tail(queue) \in Seq(Messages) /\ queue' = Tail(queue) \o <<m>>
          BY <3>2, TailFacts DEF Returns
        <4>2. QED
          BY <3>1, <4>1, SMTT(30)
      <3>5. EstablishedQueued' => EstablishedQueued
        BY <3>1, <3>2, <3>4, NoNews
      <3>6. QED
        <4>1. ~EstablishedQueued' /\ connectEvents = 0 /\ socket = "None"
          BY <2>1, <3>5 DEF Starts, LinkInv, BeenOpen
        <4>2. QED
          BY <3>2, <3>3, <4>1 DEF LinkInv, ConnectedMeansEstablished
    <2>2. CASE ~Starts
      BY <1>1, <1>4, <2>2, LinkUnchanged DEF StartConnection, Dispatch, machine, wire, told
    <2>3. QED
      BY <2>1, <2>2
  <1>5. CASE EstablishTcpConnection
    <2>1. EstablishedQueued' => EstablishedQueued
      BY <1>1, <1>5 DEF EstablishTcpConnection, Dispatch
    <2>2. UNCHANGED <<state, connectEvents>>
      BY <1>5 DEF EstablishTcpConnection, told
    <2>3. CASE state = "Connecting" /\ phase = "EndPointDiscovery"
      <3>1. phase' = "ConnectionEstablishing" /\ ~EstablishedQueued
        BY <1>5, <2>3 DEF EstablishTcpConnection, LinkInv, BeenOpen
      <3>2. QED
        BY <2>1, <2>2, <2>3, <3>1 DEF LinkInv, ConnectedMeansEstablished
    <2>4. CASE ~(state = "Connecting" /\ phase = "EndPointDiscovery")
      BY <1>5, <2>1, <2>2, <2>4, LinkUnchanged DEF EstablishTcpConnection
    <2>5. QED
      BY <2>3, <2>4
  <1>6. CASE TcpConnectionEstablished
    <2>1. EstablishedQueued' => EstablishedQueued
      BY <1>1, <1>6 DEF TcpConnectionEstablished, Dispatch
    <2>2. EstablishedQueued /\ socket' = socket
      BY <1>6 DEF TcpConnectionEstablished, Dispatch, LoopTypeOK, EstablishedQueued, wire
    <2>3. CASE state = "Connecting"
      BY <1>6, <2>2, <2>3
         DEF TcpConnectionEstablished, LinkInv, ConnectedMeansEstablished, BeenOpen
    <2>4. CASE state # "Connecting"
      BY <1>6, <2>1, <2>2, <2>4, LinkUnchanged DEF TcpConnectionEstablished, machine
    <2>5. QED
      BY <2>3, <2>4
  <1>7. CASE CloseConnection
    <2>1. EstablishedQueued' => EstablishedQueued
      BY <1>1, <1>7 DEF CloseConnection, Dispatch
    <2>2. /\ state' = "Closed" /\ UNCHANGED <<phase, connectEvents>>
          /\ socket' = socket \/ (BeenOpen' /\ socket # "None")
      BY <1>7 DEF CloseConnection, AnswersAtOnce, BeenOpen
    <2>3. QED
      BY <2>1, <2>2 DEF LinkInv, ConnectedMeansEstablished, BeenOpen
  <1>8. CASE StartOperation \/ StartSubscription \/ AnswerHeartbeat
    <2>1. EstablishedQueued' => EstablishedQueued
      BY <1>1, <1>8 DEF StartOperation, StartSubscription, AnswerHeartbeat, Schedule, Dispatch
    <2>2. UNCHANGED <<state, phase, connectEvents, socket>>
      BY <1>8 DEF StartOperation, StartSubscription, AnswerHeartbeat, machine, told
    <2>3. QED
      BY <2>1, <2>2, LinkUnchanged
  <1>9. CASE FinishOperation \/ FinishSubscription \/ IgnorePackage
    <2>1. EstablishedQueued' => EstablishedQueued
      BY <1>1, <1>9 DEF FinishOperation, FinishSubscription, IgnorePackage, Dispatch
    <2>2. UNCHANGED <<state, phase, connectEvents, socket>>
      BY <1>9 DEF FinishOperation, FinishSubscription, IgnorePackage, machine, wire, told
    <2>3. QED
      BY <2>1, <2>2, LinkUnchanged
  <1>10. CASE SocketEvent
    <2>1. CASE SocketConnect
      BY <2>1 DEF SocketConnect, LinkInv, ConnectedMeansEstablished, BeenOpen, machine, told
    <2>2. CASE SocketData
      <3>1. Head(inbound) \in Packages
        BY <2>2 DEF SocketData, WireTypeOK
      <3>2. Message("HandleTcpPackage", Head(inbound).id, Head(inbound).type) \in Messages
        BY <3>1, MessageShapes
      <3>3. EstablishedQueued' => EstablishedQueued
        BY <1>3, <2>2, <3>2 DEF SocketData, Message
      <3>4. QED
        BY <2>2, <3>3, LinkUnchanged DEF SocketData, machine, told
    <2>3. CASE SocketError \/ SocketEnd \/ SocketClose
      <3>1. EstablishedQueued' => EstablishedQueued
        BY <1>2, <2>3 DEF SocketError, SocketEnd, SocketClose, loop
      <3>2. QED
        BY <2>3, <3>1, LinkUnchanged
           DEF SocketError, SocketEnd, SocketClose, BeenOpen, machine, wire, told
    <2>4. QED
      BY <1>10, <2>1, <2>2, <2>3 DEF SocketEvent
  <1>11. CASE Server
    <2>1. UNCHANGED <<queue, state, phase, connectEvents, socket>>
      BY <1>11 DEF Server, Reply, Beat, Push, ServerEnd, SendUnder, Send, loop, machine, told
    <2>2. QED
      BY <1>2, <2>1, LinkUnchanged
  <1>12. CASE Program
    <2>1. UNCHANGED <<state, phase, connectEvents, socket>>
      BY <1>12 DEF Program, Connect, Close, IssueOperation, IssueInvalid, Subscribe, Unsubscribe,
                   machine, wire, told
    <2>2. CASE Connect \/ \E t \in CloseTypes : Close(t)
      BY <1>0, <1>3, <2>1, <2>2, MessageShapes, LinkUnchanged DEF Connect, Close, Message, ControlNames
    <2>3. ASSUME NEW o \in Ops, IssueOperation(o) PROVE LinkInv'
      BY <1>3, <2>1, <2>3, MessageShapes, LinkUnchanged DEF IssueOperation, Message
    <2>4. ASSUME NEW s \in Subs, Subscribe(s) PROVE LinkInv'
      BY <1>3, <2>1, <2>4, MessageShapes, LinkUnchanged DEF Subscribe, Message
    <2>5. ASSUME UNCHANGED queue PROVE LinkInv'
      BY <1>2, <2>1, <2>5, LinkUnchanged
    <2>6. QED
      BY <1>12, <2>2, <2>3, <2>4, <2>5 DEF Program, IssueInvalid, Unsubscribe, loop
  <1>13. CASE \/ IdleTick
              \/ \E s \in Subs : EmitUnsubscribe(s)
              \/ \E o \in Ops : ReportBadArgument(o)
              \/ UNCHANGED vars
    <2>1. UNCHANGED <<queue, state, phase, connectEvents, socket>>
      BY <1>13 DEF IdleTick, EmitUnsubscribe, ReportBadArgument, vars, loop, machine, wire, told
    <2>2. QED
      BY <1>2, <2>1, LinkUnchanged
  <1>14. QED
    BY <1>4, <1>5, <1>6, <1>7, <1>8, <1>9, <1>10, <1>11, <1>12, <1>13
       DEF Next, Immediate, Handler

\* The program hears 'connect' at most once, and only of a socket that got
\* connected, whatever is called, refused or closed around it.
THEOREM ConnectTold == Spec => []ConnectedMeansEstablished
  <1>1. Init => LinkInv
    BY DEF Init, LinkInv, ConnectedMeansEstablished, EstablishedQueued, BeenOpen
  <1>2. TypeOK /\ LinkInv /\ [Next]_vars => LinkInv'
    BY LinkStep
  <1>3. LinkInv => ConnectedMeansEstablished
    BY DEF LinkInv
  <1>4. QED
    BY <1>1, <1>2, <1>3, TypeCorrect, PTL DEF Spec

-----------------------------------------------------------------------------
(* The life of an operation *)

IsStart(message, o) == message.name = "StartOperation" /\ message.id = o

\* The conjunct of OneHomePerOperation about one operation.
OneHome(o) ==
    /\ o \in issued <=>
          (o \in rejected \/ Queued(o) \/ o \in waiting \/ o \in active \/ Answered(o))
    /\ o \in rejected => ~(Queued(o) \/ o \in waiting \/ o \in active \/ Answered(o))
    /\ Queued(o)      => ~(o \in waiting \/ o \in active \/ Answered(o))
    /\ o \in waiting  => ~(o \in active \/ Answered(o))
    /\ o \in active   => ~Answered(o)

\* An operation is enqueued once: shifting its message leaves none behind.
QueuedOnce(o) ==
    \A i, j \in DOMAIN queue : IsStart(queue[i], o) /\ IsStart(queue[j], o) => i = j

HomeInv == \A o \in Ops : OneHome(o) /\ QueuedOnce(o)

\* Every message but the first moves up by one when the queue is shifted.
LEMMA Shifted ==
    ASSUME LoopTypeOK, queue # <<>>
    PROVE  /\ \A i \in DOMAIN Tail(queue) : i \in Int
           /\ \A i \in DOMAIN queue : queue[i] # Head(queue) =>
                i \in Int /\ i - 1 \in DOMAIN Tail(queue) /\ Tail(queue)[i - 1] = queue[i]
BY DEF LoopTypeOK

\* The queue of one operation through a step that adds or shifts no message of it,
LEMMA OtherMessage ==
    ASSUME LoopTypeOK, NEW o, QueuedOnce(o), NEW m \in Messages, ~IsStart(m, o),
           \/ queue' = queue
           \/ Enqueue(m)
           \/ /\ queue # <<>> /\ ~IsStart(Head(queue), o)
              /\ queue' = Tail(queue) \/ queue' = Append(Tail(queue), m)
    PROVE  (Queued(o)' <=> Queued(o)) /\ QueuedOnce(o)'
  <1> USE DEF LoopTypeOK, IsStart, Queued, QueuedOnce
  <1>1. CASE queue' = queue
    BY <1>1
  <1>2. CASE Enqueue(m)
    <2>1. /\ Len(queue') = Len(queue) + 1 /\ queue'[Len(queue) + 1] = m
          /\ \A i \in DOMAIN queue : i \in DOMAIN queue' /\ queue'[i] = queue[i]
          /\ \A i \in DOMAIN queue' : i \in DOMAIN queue \/ i = Len(queue) + 1
      BY <1>2 DEF Enqueue
    <2>2. QED
      BY <2>1
  <1>3. CASE queue # <<>> /\ ~IsStart(Head(queue), o) /\ queue' = Tail(queue)
    <2>1. /\ \A i \in DOMAIN queue' : i \in Int /\ i + 1 \in DOMAIN queue /\ queue'[i] = queue[i + 1]
          /\ \A i \in DOMAIN queue : IsStart(queue[i], o) =>
                i \in Int /\ i - 1 \in DOMAIN queue' /\ queue'[i - 1] = queue[i]
      BY <1>3, TailFacts, Shifted
    <2>2. QED
      BY <2>1, SMTT(30)
  <1>4. CASE queue # <<>> /\ ~IsStart(Head(queue), o) /\ queue' = Append(Tail(queue), m)
    <2>1. /\ \A i \in DOMAIN queue' : IsStart(queue'[i], o) =>
                i \in Int /\ i + 1 \in DOMAIN queue /\ queue'[i] = queue[i + 1]
          /\ \A i \in DOMAIN queue : IsStart(queue[i], o) =>
                i \in Int /\ i - 1 \in DOMAIN queue' /\ queue'[i - 1] = queue[i]
      BY <1>4, TailFacts, Shifted
    <2>2. QED
      BY <2>1, SMTT(30)
  <1>5. QED
    BY <1>1, <1>2, <1>3, <1>4

\* through the step that enqueues its message,
LEMMA OwnMessage ==
    ASSUME LoopTypeOK, NEW o, ~Queued(o), NEW m \in Messages, IsStart(m, o), Enqueue(m)
    PROVE  Queued(o)' /\ QueuedOnce(o)'
  <1>1. /\ Len(queue) + 1 \in DOMAIN queue' /\ queue'[Len(queue) + 1] = m
        /\ \A i \in DOMAIN queue' : (i \in DOMAIN queue /\ queue'[i] = queue[i]) \/ i = Len(queue) + 1
    BY DEF LoopTypeOK, Enqueue
  <1>2. QED
    BY <1>1 DEF IsStart, Queued, QueuedOnce

\* and through the step that shifts it.
LEMMA OwnShift ==
    ASSUME LoopTypeOK, NEW o, QueuedOnce(o), queue # <<>>, IsStart(Head(queue), o),
           queue' = Tail(queue)
    PROVE  Queued(o) /\ ~Queued(o)' /\ QueuedOnce(o)'
  <1>1. 1 \in DOMAIN queue /\ Head(queue) = queue[1]
    BY DEF LoopTypeOK
  <1>2. \A i \in DOMAIN queue' : /\ i + 1 \in DOMAIN queue /\ queue'[i] = queue[i + 1]
                                 /\ i + 1 # 1
    BY DEF LoopTypeOK
  <1>3. Queued(o)
    BY <1>1 DEF Queued, IsStart
  <1>4. ASSUME NEW i \in DOMAIN queue' PROVE ~IsStart(queue'[i], o)
    BY <1>1, <1>2 DEF QueuedOnce
  <1>5. QED
    BY <1>3, <1>4 DEF Queued, QueuedOnce, IsStart

\* A step that tells a request makes it answered, and tells no other.
LEMMA TellAnswers ==
    ASSUME ProgramTypeOK, NEW o \in Ops, NEW r \in RequestIds, NEW what, Tell(r, what)
    PROVE  /\ r = o => Answered(o)'
           /\ r # o => callbacks'[o] = callbacks[o]
  <1>1. o \in RequestIds /\ callbacks[o] \in Seq(Notices)
    BY DEF ProgramTypeOK, RequestIds
  <1>2. callbacks'[r] = Append(callbacks[r], what)
    BY DEF ProgramTypeOK, Tell
  <1>3. r # o => callbacks'[o] = callbacks[o]
    BY <1>1 DEF ProgramTypeOK, Tell
  <1>4. Append(callbacks[o], what) # <<>>
    BY <1>1
  <1>5. QED
    BY <1>2, <1>3, <1>4 DEF Answered

\* An operation no step moves stays at home.
LEMMA SameHome ==
    ASSUME NEW o, OneHome(o), Queued(o)' <=> Queued(o), callbacks'[o] = callbacks[o],
           o \in issued' <=> o \in issued, o \in rejected' <=> o \in rejected,
           o \in waiting' <=> o \in waiting, o \in active' <=> o \in active
    PROVE  OneHome(o)'
BY DEF OneHome, Answered

\* Only a request moves through the API's two outcomes, its own message and its
\* first answer: each takes it from one home to the next.
LEMMA HomeStep ==
    ASSUME TypeOK, NEW o \in Ops, OneHome(o), QueuedOnce(o), [Next]_vars
    PROVE  OneHome(o)' /\ QueuedOnce(o)'
  <1> USE DEF TypeOK
  <1>0. /\ queue # <<>> => Head(queue) \in Messages
        /\ \A n \in ControlNames : Message(n, NoId, "none") \in Messages
        /\ o \in RequestIds /\ o \notin Subs
    BY MessageShapes, ConstantsAssumption DEF LoopTypeOK, RequestIds
  <1> DEFINE aside == Message("StartConnection", NoId, "none")
  <1>1. aside \in Messages /\ ~IsStart(aside, o)
    BY <1>0 DEF ControlNames, IsStart, Message
  <1> HIDE DEF aside
  <1> DEFINE SameQueue == (Queued(o)' <=> Queued(o)) /\ QueuedOnce(o)'
  <1>2. ASSUME UNCHANGED queue PROVE SameQueue
    BY <1>1, <1>2, OtherMessage
  <1>3. ASSUME NEW m \in Messages, ~IsStart(m, o), Enqueue(m) PROVE SameQueue
    BY <1>3, OtherMessage
  <1>4. ASSUME queue # <<>>, \/ Returns(<<>>)
                             \/ \E why : Throws(why)
        PROVE  queue' = Tail(queue)
    BY <1>4, TailFacts DEF Returns, Throws
  <1>5. ASSUME queue # <<>>, queue' = Tail(queue), ~IsStart(Head(queue), o)
        PROVE  SameQueue
    BY <1>1, <1>5, OtherMessage
  <1> HIDE DEF SameQueue
  <1>6. CASE StartConnection
    <2> DEFINE m == Message("EstablishTcpConnection", NoId, "none")
    <2>1. m \in Messages /\ ~IsStart(m, o)
      BY <1>0 DEF ControlNames, IsStart, Message
    <2>2. /\ queue # <<>> /\ ~IsStart(Head(queue), o)
          /\ Returns(<<>>) \/ Returns(<<m>>)
      BY <1>6 DEF StartConnection, Dispatch, IsStart
    <2>3. UNCHANGED <<issued, rejected, waiting, active, callbacks>>
      BY <1>6 DEF StartConnection, managers, calls, told
    <2> HIDE DEF m
    <2>4. CASE Returns(<<>>)
      BY <1>4, <1>5, <2>2, <2>3, <2>4, SameHome DEF SameQueue
    <2>5. CASE Returns(<<m>>)
      <3>1. Tail(queue) \in Seq(Messages) /\ queue' = Tail(queue) \o <<m>>
        BY <2>2, <2>5, TailFacts DEF Returns
      <3>2. queue' = Append(Tail(queue), m)
        BY <2>1, <3>1
      <3>3. (Queued(o)' <=> Queued(o)) /\ QueuedOnce(o)'
        BY <2>1, <2>2, <3>2, OtherMessage
      <3>4. QED
        BY <2>3, <3>3, SameHome, SMTT(30)
    <2>6. QED
      BY <2>2, <2>4, <2>5
  <1>7. CASE \/ EstablishTcpConnection \/ TcpConnectionEstablished \/ CloseConnection
             \/ AnswerHeartbeat \/ IgnorePackage
    <2>1. /\ queue # <<>> /\ ~IsStart(Head(queue), o)
          /\ Returns(<<>>) \/ \E why : Throws(why)
      BY <1>7 DEF EstablishTcpConnection, TcpConnectionEstablished, CloseConnection,
                  AnswerHeartbeat, IgnorePackage, Dispatch, IsStart
    <2>2. UNCHANGED <<issued, rejected, waiting, active, callbacks>>
      BY <1>7 DEF EstablishTcpConnection, TcpConnectionEstablished, CloseConnection,
                  AnswerHeartbeat, IgnorePackage, managers, calls, told
    <2>3. QED
      BY <1>4, <1>5, <2>1, <2>2, SameHome DEF SameQueue
  <1>8. CASE StartOperation
    <2> DEFINE id == Head(queue).id
    <2>1. /\ queue # <<>> /\ id \in Ops /\ id \in RequestIds
          /\ IsStart(Head(queue), o) <=> id = o
      BY <1>0, <1>8, MessageFacts DEF StartOperation, Dispatch, IsStart, RequestIds
    <2>2. queue' = Tail(queue) /\ UNCHANGED <<issued, rejected>>
      BY <1>4, <1>8, <2>1 DEF StartOperation, Schedule, calls
    <2>3. \/ UNCHANGED managers /\ (Tell(id, "closed") \/ Tell(id, "notActive"))
          \/ waiting' = waiting \cup {id} /\ UNCHANGED <<active, callbacks>>
          \/ active' = active \cup {id} /\ UNCHANGED <<waiting, callbacks>>
      BY <1>8 DEF StartOperation, Schedule, RaiseClosed, RaiseNotActive
    <2> HIDE DEF id
    <2>4. CASE id = o
      <3>1. Queued(o) /\ ~Queued(o)' /\ QueuedOnce(o)'
        BY <2>1, <2>2, <2>4, OwnShift
      <3>2. CASE UNCHANGED managers /\ (Tell(id, "closed") \/ Tell(id, "notActive"))
        <4>1. Answered(o)'
          BY <2>1, <2>4, <3>2, TellAnswers
        <4>2. QED
          BY <2>2, <3>1, <3>2, <4>1 DEF OneHome, managers
      <3>3. CASE waiting' = waiting \cup {id} /\ UNCHANGED <<active, callbacks>>
        BY <2>2, <2>4, <3>1, <3>3 DEF OneHome, Answered
      <3>4. CASE active' = active \cup {id} /\ UNCHANGED <<waiting, callbacks>>
        BY <2>2, <2>4, <3>1, <3>4 DEF OneHome, Answered
      <3>5. QED
        BY <2>3, <3>2, <3>3, <3>4
    <2>5. CASE id # o
      <3>1. callbacks'[o] = callbacks[o]
        BY <2>1, <2>3, <2>5, TellAnswers
      <3>2. (o \in waiting' <=> o \in waiting) /\ (o \in active' <=> o \in active)
        BY <2>3, <2>5 DEF managers
      <3>3. QED
        BY <1>5, <2>1, <2>2, <2>5, <3>1, <3>2, SameHome DEF SameQueue
    <2>6. QED
      BY <2>4, <2>5
  <1>9. CASE StartSubscription
    <2>1. queue # <<>> /\ Head(queue).id \in Subs /\ ~IsStart(Head(queue), o)
      BY <1>0, <1>9, MessageFacts DEF StartSubscription, Dispatch, IsStart
    <2>2. /\ queue' = Tail(queue) /\ UNCHANGED <<issued, rejected, callbacks>>
          /\ (o \in waiting' <=> o \in waiting) /\ (o \in active' <=> o \in active)
      BY <1>0, <1>4, <1>9, <2>1 DEF StartSubscription, Schedule, managers, calls, told
    <2>3. QED
      BY <1>5, <2>1, <2>2, SameHome DEF SameQueue
  <1>10. CASE FinishOperation
    <2> DEFINE id == Head(queue).id
    <2>1. /\ queue # <<>> /\ ~IsStart(Head(queue), o) /\ Returns(<<>>)
          /\ id \in active \cap Ops /\ active' = active \ {id}
          /\ \E what : Tell(id, what)
          /\ UNCHANGED <<issued, rejected, waiting>>
      BY <1>10 DEF FinishOperation, CompleteActive, Dispatch, IsStart, calls
    <2>2. SameQueue
      BY <1>4, <1>5, <2>1
    <2>3. id \in RequestIds
      BY <2>1 DEF RequestIds
    <2> HIDE DEF id
    <2>4. CASE id = o
      <3>1. Answered(o)'
        BY <2>1, <2>3, <2>4, TellAnswers
      <3>2. QED
        BY <2>1, <2>2, <2>4, <3>1 DEF SameQueue, OneHome
    <2>5. CASE id # o
      <3>1. callbacks'[o] = callbacks[o]
        BY <2>1, <2>3, <2>5, TellAnswers
      <3>2. QED
        BY <2>1, <2>2, <2>5, <3>1, SameHome DEF SameQueue
    <2>6. QED
      BY <2>4, <2>5
  <1>11. CASE FinishSubscription
    <2>1. /\ queue # <<>> /\ ~IsStart(Head(queue), o)
          /\ Returns(<<>>) \/ \E why : Throws(why)
          /\ Head(queue).id \in Subs
          /\ UNCHANGED <<issued, rejected, waiting, active>>
          /\ UNCHANGED callbacks \/ \E what : Tell(Head(queue).id, what)
      BY <1>11 DEF FinishSubscription, Dispatch, IsStart, managers, calls
    <2>2. Head(queue).id \in RequestIds /\ Head(queue).id # o
      BY <1>0, <2>1 DEF RequestIds
    <2>3. callbacks'[o] = callbacks[o]
      BY <2>1, <2>2, TellAnswers
    <2>4. SameQueue
      BY <1>4, <1>5, <2>1
    <2>5. QED
      BY <2>1, <2>3, <2>4, SameHome DEF SameQueue
  <1>12. ASSUME NEW p \in Ops, ReportBadArgument(p) PROVE OneHome(o)' /\ QueuedOnce(o)'
    <2>1. /\ UNCHANGED <<queue, issued, waiting, active>>
          /\ p \in rejected /\ rejected' = rejected \ {p} /\ Tell(p, "badArgument")
          /\ p \in RequestIds
      BY <1>12 DEF ReportBadArgument, loop, managers, RequestIds
    <2>2. SameQueue
      BY <1>2, <2>1
    <2>3. CASE p = o
      <3>1. Answered(o)'
        BY <2>1, <2>3, TellAnswers
      <3>2. QED
        BY <2>1, <2>2, <2>3, <3>1 DEF SameQueue, OneHome
    <2>4. CASE p # o
      <3>1. callbacks'[o] = callbacks[o]
        BY <2>1, <2>4, TellAnswers
      <3>2. QED
        BY <2>1, <2>2, <2>4, <3>1, SameHome DEF SameQueue
    <2>5. QED
      BY <2>3, <2>4
  <1>13. CASE SocketEvent
    <2>1. UNCHANGED <<issued, rejected, waiting, active, callbacks>>
      BY <1>13 DEF SocketEvent, SocketConnect, SocketError, SocketData, SocketEnd, SocketClose,
                   managers, calls, told
    <2>2. CASE SocketConnect
      <3>1. Enqueue(Message("TcpConnectionEstablished", NoId, "none"))
        BY <2>2 DEF SocketConnect
      <3>2. SameQueue
        BY <1>0, <1>3, <3>1 DEF IsStart, Message, ControlNames
      <3>3. QED
        BY <2>1, <3>2, SameHome DEF SameQueue
    <2>3. CASE SocketData
      <3>1. Head(inbound) \in Packages
        BY <2>3 DEF SocketData, WireTypeOK
      <3>2. Message("HandleTcpPackage", Head(inbound).id, Head(inbound).type) \in Messages
        BY <3>1, MessageShapes
      <3>3. SameQueue
        BY <1>3, <2>3, <3>2 DEF SocketData, IsStart, Message
      <3>4. QED
        BY <2>1, <3>3, SameHome DEF SameQueue
    <2>4. CASE SocketError \/ SocketEnd \/ SocketClose
      BY <1>2, <2>1, <2>4, SameHome DEF SameQueue, SocketError, SocketEnd, SocketClose, loop
    <2>5. QED
      BY <1>13, <2>2, <2>3, <2>4 DEF SocketEvent
  <1>14. CASE Server
    <2>1. UNCHANGED <<queue, issued, rejected, waiting, active, callbacks>>
      BY <1>14 DEF Server, Reply, Beat, Push, ServerEnd, SendUnder, Send, loop, managers, calls,
                   told
    <2>2. QED
      BY <1>2, <2>1, SameHome DEF SameQueue
  <1>15. CASE Program
    <2>1. UNCHANGED <<waiting, active, callbacks>>
      BY <1>15 DEF Program, Connect, Close, IssueOperation, IssueInvalid, Subscribe, Unsubscribe,
                   managers, told
    <2>2. CASE Connect \/ \E t \in CloseTypes : Close(t)
      <3>1. SameQueue
        BY <1>0, <1>3, <2>2, MessageShapes DEF Connect, Close, IsStart, Message, ControlNames
      <3>2. QED
        BY <2>1, <2>2, <3>1, SameHome DEF SameQueue, Connect, Close
    <2>3. ASSUME NEW p \in Ops, IssueOperation(p) PROVE OneHome(o)' /\ QueuedOnce(o)'
      <3> DEFINE m == Message("StartOperation", p, "none")
      <3>1. m \in Messages /\ (IsStart(m, o) <=> p = o)
        BY MessageShapes DEF IsStart, Message
      <3>2. p \notin issued /\ issued' = issued \cup {p} /\ Enqueue(m) /\ UNCHANGED rejected
        BY <2>3 DEF IssueOperation, MayIssue
      <3> HIDE DEF m
      <3>3. CASE p = o
        <4>1. ~Queued(o)
          BY <3>2, <3>3 DEF OneHome
        <4>2. Queued(o)' /\ QueuedOnce(o)'
          BY <3>1, <3>2, <3>3, <4>1, OwnMessage
        <4>3. QED
          BY <2>1, <3>2, <3>3, <4>2 DEF OneHome, Answered
      <3>4. CASE p # o
        BY <1>3, <2>1, <3>1, <3>2, <3>4, SameHome DEF SameQueue
      <3>5. QED
        BY <3>3, <3>4
    <2>4. ASSUME NEW p \in Ops, IssueInvalid(p) PROVE OneHome(o)' /\ QueuedOnce(o)'
      <3>1. /\ p \notin issued /\ issued' = issued \cup {p} /\ rejected' = rejected \cup {p}
            /\ UNCHANGED queue
        BY <2>4 DEF IssueInvalid, MayIssue, loop
      <3>2. SameQueue
        BY <1>2, <3>1
      <3>3. CASE p = o
        BY <2>1, <3>1, <3>2, <3>3 DEF SameQueue, OneHome, Answered
      <3>4. CASE p # o
        BY <2>1, <3>1, <3>2, <3>4, SameHome DEF SameQueue
      <3>5. QED
        BY <3>3, <3>4
    <2>5. ASSUME NEW s \in Subs, Subscribe(s) PROVE OneHome(o)' /\ QueuedOnce(o)'
      <3>1. SameQueue
        BY <1>3, <2>5, MessageShapes DEF Subscribe, IsStart, Message
      <3>2. (o \in issued' <=> o \in issued) /\ UNCHANGED rejected
        BY <1>0, <2>5 DEF Subscribe
      <3>3. QED
        BY <2>1, <3>1, <3>2, SameHome DEF SameQueue
    <2>6. ASSUME NEW s \in Subs, Unsubscribe(s) PROVE OneHome(o)' /\ QueuedOnce(o)'
      BY <1>2, <2>1, <2>6, SameHome DEF SameQueue, Unsubscribe
    <2>7. QED
      BY <1>15, <2>2, <2>3, <2>4, <2>5, <2>6 DEF Program
  <1>16. CASE \/ IdleTick
              \/ \E s \in Subs : EmitUnsubscribe(s)
              \/ UNCHANGED vars
    <2>1. UNCHANGED <<queue, issued, rejected, waiting, active, callbacks>>
      BY <1>16 DEF IdleTick, EmitUnsubscribe, vars, loop, managers, calls, told
    <2>2. QED
      BY <1>2, <2>1, SameHome DEF SameQueue
  <1>17. QED
    BY <1>6, <1>7, <1>8, <1>9, <1>10, <1>11, <1>12, <1>13, <1>14, <1>15, <1>16
       DEF Next, Immediate, Handler

\* No operation handed to the API is ever lost, and none can be called back twice.
THEOREM OperationsAtHome == Spec => []OneHomePerOperation
  <1>1. Init => HomeInv
    BY DEF Init, HomeInv, OneHome, QueuedOnce, Queued, Answered, RequestIds
  <1>2. TypeOK /\ HomeInv /\ [Next]_vars => HomeInv'
    BY HomeStep DEF HomeInv
  <1>3. HomeInv => OneHomePerOperation
    BY DEF HomeInv, OneHome, OneHomePerOperation
  <1>4. QED
    BY <1>1, <1>2, <1>3, TypeCorrect, PTL DEF Spec

-----------------------------------------------------------------------------
(* The order of answers and pushes *)

\* What is on its way to the handler, in the order it will get there: the messages
\* queued and the packages behind them in the socket.  Only packages have an id.
Way(q, packages) ==
    [i \in 1..(Len(q) + Len(packages)) |->
        CASE i > Len(q) -> packages[i - Len(q)]
          [] i <= Len(q) /\ q[i].name = "HandleTcpPackage" -> [id |-> q[i].id, type |-> q[i].type]
          [] OTHER -> [id |-> NoId, type |-> "none"]]

\* The packages under an id that are on their way are those of list behind the
\* first n, in their order.
Placed(way, id, list, n) ==
    /\ n <= Len(list)
    /\ \E f \in [(n + 1)..Len(list) -> DOMAIN way] :
           /\ \A k \in (n + 1)..Len(list) : way[f[k]].id = id /\ way[f[k]].type = list[k]
           /\ \A j, k \in (n + 1)..Len(list) : j < k => f[j] < f[k]
           /\ \A i \in DOMAIN way : way[i].id = id => \E k \in (n + 1)..Len(list) : f[k] = i

\* How many of a request's packages have been handled: each push is told, and an
\* operation has had none as long as it is active.
Heard(r) == IF r \in Subs THEN Len(callbacks[r]) ELSE 0

\* Packages can still be handled.
Alive == Running /\ state # "Closed"

\* A request's packages arrive as they were sent: none before it is written,
\* and those not heard yet are on their way while it is active.
Channel(r) ==
    /\ r \notin written => replied[r] = <<>>
    /\ \A k \in DOMAIN replied[r] : replied[r][k] # "HeartbeatRequestCommand"
    /\ r \in written => r \in active \/ (r \in Ops /\ Answered(r))
    /\ Alive /\ (r \in active \/ r \notin written) =>
           Placed(Way(queue, inbound), r, replied[r], Heard(r))

\* Requests are active from 'connect' on.
ActiveConnected == active # {} => state \in {"Connected", "Closed"}

\* g takes the packages under an id to where they are there: to all of them, and
\* none overtakes another.
Moves(g, id, way, there) ==
    /\ \A i \in DOMAIN way : way[i].id = id =>
           g[i] \in DOMAIN there /\ there[g[i]].id = id /\ there[g[i]].type = way[i].type
    /\ \A i, j \in DOMAIN way : way[i].id = id /\ way[j].id = id /\ i < j => g[i] < g[j]
    /\ \A i \in DOMAIN there : there[i].id = id => \E j \in DOMAIN way : way[j].id = id /\ g[j] = i

\* Packages that are moved stay in order.
LEMMA PlacedMoved ==
    ASSUME NEW way, NEW there, DOMAIN way \subseteq Int, DOMAIN there \subseteq Int,
           NEW id, NEW list, Len(list) \in Nat, NEW n \in Nat, Placed(way, id, list, n),
           NEW g, Moves(g, id, way, there)
    PROVE  Placed(there, id, list, n)
  <1> DEFINE K == (n + 1)..Len(list)
  <1>1. n <= Len(list)
    BY DEF Placed
  <1>2. PICK f \in [K -> DOMAIN way] :
            /\ \A k \in K : way[f[k]].id = id /\ way[f[k]].type = list[k]
            /\ \A j, k \in K : j < k => f[j] < f[k]
            /\ \A i \in DOMAIN way : way[i].id = id => \E k \in K : f[k] = i
    BY DEF Placed
  <1> DEFINE h == [k \in K |-> g[f[k]]]
  <1>3. \A k \in K : f[k] \in DOMAIN way /\ h[k] = g[f[k]]
    BY <1>2
  <1> HIDE DEF h
  <1>4. \A k \in K : h[k] \in DOMAIN there /\ there[h[k]].id = id /\ there[h[k]].type = list[k]
    BY <1>2, <1>3 DEF Moves
  <1>5. ASSUME NEW j \in K, NEW k \in K, j < k PROVE h[j] < h[k]
    <2>1. f[j] < f[k] /\ way[f[j]].id = id /\ way[f[k]].id = id
      BY <1>2, <1>5
    <2>2. f[j] \in DOMAIN way /\ f[k] \in DOMAIN way
      BY <1>3
    <2>3. g[f[j]] < g[f[k]]
      BY <2>1, <2>2 DEF Moves
    <2>4. QED
      BY <1>3, <2>3
  <1>6. \A i \in DOMAIN there : there[i].id = id => \E k \in K : h[k] = i
    <2> SUFFICES ASSUME NEW i \in DOMAIN there, there[i].id = id PROVE \E k \in K : h[k] = i
      OBVIOUS
    <2>1. PICK j \in DOMAIN way : way[j].id = id /\ g[j] = i
      BY DEF Moves
    <2>2. PICK k \in K : f[k] = j
      BY <1>2, <2>1
    <2>3. QED
      BY <1>3, <2>1, <2>2
  <1>7. h \in [K -> DOMAIN there]
    BY <1>4 DEF h
  <1> HIDE DEF K
  <1>8. \E m \in [K -> DOMAIN there] :
            /\ \A k \in K : there[m[k]].id = id /\ there[m[k]].type = list[k]
            /\ \A j, k \in K : j < k => m[j] < m[k]
            /\ \A i \in DOMAIN there : there[i].id = id => \E k \in K : m[k] = i
    BY <1>4, <1>5, <1>6, <1>7
  <1>9. QED
    BY <1>1, <1>8 DEF Placed, K

\* The places of the messages queued and of the packages behind them.
LEMMA WayPlaces ==
    ASSUME NEW q \in Seq(Messages), NEW packages \in Seq(Packages \cup {Fin})
    PROVE  /\ Len(q) \in Nat /\ Len(packages) \in Nat
           /\ DOMAIN Way(q, packages) = 1..(Len(q) + Len(packages))
           /\ \A i \in 1..Len(q) :
                  Way(q, packages)[i] = IF q[i].name = "HandleTcpPackage"
                                        THEN [id |-> q[i].id, type |-> q[i].type]
                                        ELSE [id |-> NoId, type |-> "none"]
           /\ \A i \in 1..(Len(q) + Len(packages)) :
                  i > Len(q) => Way(q, packages)[i] = packages[i - Len(q)]
  <1>1. Len(q) \in Nat /\ Len(packages) \in Nat
    OBVIOUS
  <1>2. DOMAIN Way(q, packages) = 1..(Len(q) + Len(packages))
    BY DEF Way
  <1>3. ASSUME NEW i \in 1..Len(q)
        PROVE  Way(q, packages)[i] = IF q[i].name = "HandleTcpPackage"
                                     THEN [id |-> q[i].id, type |-> q[i].type]
                                     ELSE [id |-> NoId, type |-> "none"]
    <2>1. i \in 1..(Len(q) + Len(packages)) /\ i <= Len(q) /\ ~(i > Len(q))
      BY <1>1
    <2> QED
      BY <2>1 DEF Way
  <1>4. ASSUME NEW i \in 1..(Len(q) + Len(packages)), i > Len(q)
        PROVE  Way(q, packages)[i] = packages[i - Len(q)]
    BY <1>4 DEF Way
  <1>5. QED
    BY <1>1, <1>2, <1>3, <1>4

\* A message that is no package takes a place behind the queue.
LEMMA PlacedEnqueue ==
    ASSUME NEW q \in Seq(Messages), NEW packages \in Seq(Packages \cup {Fin}),
           NEW m \in Messages, m.name # "HandleTcpPackage",
           NEW r \in Ids, NEW list, Len(list) \in Nat, NEW n \in Nat,
           Placed(Way(q, packages), r, list, n)
    PROVE  Placed(Way(Append(q, m), packages), r, list, n)
  <1> DEFINE more == Append(q, m)
             way == Way(q, packages)
             there == Way(more, packages)
             g == [i \in DOMAIN way |-> IF i <= Len(q) THEN i ELSE i + 1]
  <1>1. /\ more \in Seq(Messages) /\ Len(more) = Len(q) + 1
        /\ \A i \in 1..Len(q) : more[i] = q[i]
        /\ more[Len(q) + 1] = m
    OBVIOUS
  <1> HIDE DEF more
  <1>2. /\ Len(q) \in Nat /\ Len(packages) \in Nat
        /\ DOMAIN way = 1..(Len(q) + Len(packages))
        /\ \A i \in 1..Len(q) :
               way[i] = IF q[i].name = "HandleTcpPackage"
                        THEN [id |-> q[i].id, type |-> q[i].type]
                        ELSE [id |-> NoId, type |-> "none"]
        /\ \A i \in 1..(Len(q) + Len(packages)) : i > Len(q) => way[i] = packages[i - Len(q)]
    BY WayPlaces
  <1>3. /\ DOMAIN there = 1..(Len(q) + 1 + Len(packages))
        /\ \A i \in 1..(Len(q) + 1) :
               there[i] = IF more[i].name = "HandleTcpPackage"
                          THEN [id |-> more[i].id, type |-> more[i].type]
                          ELSE [id |-> NoId, type |-> "none"]
        /\ \A i \in 1..(Len(q) + 1 + Len(packages)) :
               i > Len(q) + 1 => there[i] = packages[i - (Len(q) + 1)]
    <2>1. /\ DOMAIN there = 1..(Len(more) + Len(packages))
          /\ \A i \in 1..Len(more) :
                 there[i] = IF more[i].name = "HandleTcpPackage"
                            THEN [id |-> more[i].id, type |-> more[i].type]
                            ELSE [id |-> NoId, type |-> "none"]
          /\ \A i \in 1..(Len(more) + Len(packages)) :
                 i > Len(more) => there[i] = packages[i - Len(more)]
      BY <1>1, WayPlaces
    <2>2. QED
      BY <1>1, <2>1, Zenon
  <1> HIDE DEF way, there
  <1>4. \A i \in DOMAIN way : i \in Int /\ g[i] = IF i <= Len(q) THEN i ELSE i + 1
    BY <1>2
  <1> HIDE DEF g
  <1>5. ASSUME NEW i \in DOMAIN way
        PROVE  g[i] \in DOMAIN there /\ there[g[i]] = way[i]
    <2>1. CASE i <= Len(q)
      <3>1. i \in 1..Len(q) /\ i \in 1..(Len(q) + 1) /\ g[i] = i /\ i \in DOMAIN there
        BY <1>2, <1>3, <1>4, <2>1
      <3>2. more[i] = q[i]
        BY <1>1, <3>1
      <3>3. QED
        BY <1>2, <1>3, <3>1, <3>2
    <2>2. CASE i > Len(q)
      <3>1. /\ g[i] = i + 1 /\ i + 1 \in 1..(Len(q) + 1 + Len(packages)) /\ i + 1 > Len(q) + 1
            /\ i + 1 - (Len(q) + 1) = i - Len(q)
        BY <1>2, <1>3, <1>4, <2>2
      <3>2. there[i + 1] = packages[i - Len(q)]
        <4>1. PICK j \in Int : j = i + 1
          BY <3>1
        <4>2. j - (Len(q) + 1) = i - Len(q)
          BY <1>2, <1>4, <3>1, <4>1
        <4>3. j \in 1..(Len(q) + 1 + Len(packages)) /\ j > Len(q) + 1
          BY <1>2, <1>4, <3>1, <4>1
        <4>4. there[j] = packages[j - (Len(q) + 1)]
          BY <1>3, <4>3
        <4>5. QED
          BY <4>1, <4>2, <4>4
      <3>3. way[i] = packages[i - Len(q)]
        BY <1>2, <2>2
      <3>4. QED
        BY <1>3, <3>1, <3>2, <3>3
    <2>3. QED
      BY <1>2, <2>1, <2>2
  <1>6. \A i, j \in DOMAIN way : i < j => g[i] < g[j]
    BY <1>2, <1>4
  <1>7. ASSUME NEW i \in DOMAIN there, there[i].id = r
        PROVE  \E j \in DOMAIN way : way[j].id = r /\ g[j] = i
    <2>0. Len(q) + 1 \in 1..(Len(q) + 1)
      BY <1>2
    <2>1. there[Len(q) + 1].id = NoId
      <3>1. ~(more[Len(q) + 1].name = "HandleTcpPackage")
        BY <1>1
      <3>2. there[Len(q) + 1] = [id |-> NoId, type |-> "none"]
        BY <1>3, <2>0, <3>1
      <3>3. QED
        BY <3>2
    <2>2. i # Len(q) + 1
      BY <1>7, <2>1, ConstantsAssumption
    <2>3. PICK j \in DOMAIN way : g[j] = i
      <3>1. CASE i <= Len(q)
        <4>1. i \in DOMAIN way /\ g[i] = i
          BY <1>2, <1>3, <1>4, <3>1
        <4>2. QED
          BY <4>1
      <3>2. CASE i > Len(q) + 1
        <4>1. i - 1 \in DOMAIN way /\ g[i - 1] = i
          BY <1>2, <1>3, <1>4, <3>2
        <4>2. QED
          BY <4>1
      <3>3. QED
        BY <1>2, <1>3, <2>2, <3>1, <3>2
    <2>4. QED
      BY <1>5, <1>7, <2>3
  <1>8. DOMAIN way \subseteq Int /\ DOMAIN there \subseteq Int
    BY <1>2, <1>3
  <1>9. Placed(there, r, list, n)
    <2>1. Placed(way, r, list, n)
      BY DEF way
    <2>2. \A i \in DOMAIN way : way[i].id = r =>
              g[i] \in DOMAIN there /\ there[g[i]].id = r /\ there[g[i]].type = way[i].type
      BY <1>5
    <2>3. \A i, j \in DOMAIN way : way[i].id = r /\ way[j].id = r /\ i < j => g[i] < g[j]
      BY <1>6
    <2>4. \A i \in DOMAIN there : there[i].id = r =>
              \E j \in DOMAIN way : way[j].id = r /\ g[j] = i
      BY <1>7
    <2>5. Moves(g, r, way, there)
      BY <2>2, <2>3, <2>4 DEF Moves
    <2>6. QED
      BY <1>8, <2>1, <2>5, PlacedMoved
  <1>10. QED
    BY <1>9 DEF there, more

\* The first message is shifted: everything behind it moves up.
LEMMA WayShifted ==
    ASSUME NEW q \in Seq(Messages), NEW packages \in Seq(Packages \cup {Fin}), q # <<>>
    PROVE  /\ Len(Tail(q)) = Len(q) - 1 /\ Tail(q) \in Seq(Messages)
           /\ DOMAIN Way(q, packages) = 1..(Len(q) + Len(packages))
           /\ DOMAIN Way(Tail(q), packages) = 1..(Len(q) - 1 + Len(packages))
           /\ \A i \in 1..(Len(q) - 1 + Len(packages)) :
                  Way(Tail(q), packages)[i] = Way(q, packages)[i + 1]
           /\ Len(q) \in Nat /\ Len(packages) \in Nat /\ Len(q) >= 1
           /\ Way(q, packages)[1] = IF Head(q).name = "HandleTcpPackage"
                                    THEN [id |-> Head(q).id, type |-> Head(q).type]
                                    ELSE [id |-> NoId, type |-> "none"]
  <1> DEFINE way == Way(q, packages)
             rest == Tail(q)
             there == Way(rest, packages)
  <1>1. /\ Len(rest) = Len(q) - 1 /\ rest \in Seq(Messages)
        /\ \A i \in 1..(Len(q) - 1) : rest[i] = q[i + 1]
        /\ Len(q) \in Nat /\ Len(packages) \in Nat /\ Len(q) >= 1 /\ Head(q) = q[1]
    OBVIOUS
  <1> HIDE DEF rest
  <1>2. /\ DOMAIN way = 1..(Len(q) + Len(packages))
        /\ \A i \in 1..Len(q) :
               way[i] = IF q[i].name = "HandleTcpPackage"
                        THEN [id |-> q[i].id, type |-> q[i].type]
                        ELSE [id |-> NoId, type |-> "none"]
        /\ \A i \in 1..(Len(q) + Len(packages)) : i > Len(q) => way[i] = packages[i - Len(q)]
    BY WayPlaces
  <1>3. /\ DOMAIN there = 1..(Len(q) - 1 + Len(packages))
        /\ \A i \in 1..(Len(q) - 1) :
               there[i] = IF rest[i].name = "HandleTcpPackage"
                          THEN [id |-> rest[i].id, type |-> rest[i].type]
                          ELSE [id |-> NoId, type |-> "none"]
        /\ \A i \in 1..(Len(q) - 1 + Len(packages)) :
               i > Len(q) - 1 => there[i] = packages[i - (Len(q) - 1)]
    <2>1. /\ DOMAIN there = 1..(Len(rest) + Len(packages))
          /\ \A i \in 1..Len(rest) :
                 there[i] = IF rest[i].name = "HandleTcpPackage"
                            THEN [id |-> rest[i].id, type |-> rest[i].type]
                            ELSE [id |-> NoId, type |-> "none"]
          /\ \A i \in 1..(Len(rest) + Len(packages)) :
                 i > Len(rest) => there[i] = packages[i - Len(rest)]
      BY <1>1, WayPlaces
    <2>2. QED
      BY <1>1, <2>1, Zenon
  <1> HIDE DEF way, there
  <1>4. ASSUME NEW i \in 1..(Len(q) - 1 + Len(packages)) PROVE there[i] = way[i + 1]
    <2>1. CASE i <= Len(q) - 1
      <3>1. i \in 1..(Len(q) - 1) /\ i + 1 \in 1..Len(q)
        BY <1>1, <2>1
      <3>2. QED
        BY <1>1, <1>2, <1>3, <3>1, ZenonT(60)
    <2>2. CASE i > Len(q) - 1
      <3>1. /\ i + 1 \in 1..(Len(q) + Len(packages)) /\ i + 1 > Len(q)
            /\ i + 1 - Len(q) = i - (Len(q) - 1)
        BY <1>1, <2>2
      <3>2. there[i] = packages[i - (Len(q) - 1)]
        BY <1>3, <2>2
      <3>3. way[i + 1] = packages[i - (Len(q) - 1)]
        <4>1. PICK j \in Int : j = i + 1
          BY <3>1
        <4>2. way[j] = packages[j - Len(q)] /\ j - Len(q) = i - (Len(q) - 1)
          BY <1>2, <3>1, <4>1
        <4>3. QED
          BY <4>1, <4>2
      <3>4. QED
        BY <3>1, <3>2, <3>3
    <2>3. QED
      BY <1>1, <2>1, <2>2
  <1>5. 1 \in 1..Len(q)
    BY <1>1
  <1>6. QED
    BY <1>1, <1>2, <1>3, <1>4, <1>5 DEF way, there, rest

\* Other requests' packages stay in order when a message is shifted that is not
\* theirs.
LEMMA PlacedShift ==
    ASSUME NEW q \in Seq(Messages), NEW packages \in Seq(Packages \cup {Fin}), q # <<>>,
           NEW r \in Ids, ~(Head(q).name = "HandleTcpPackage" /\ Head(q).id = r),
           NEW list, Len(list) \in Nat, NEW n \in Nat, Placed(Way(q, packages), r, list, n)
    PROVE  Placed(Way(Tail(q), packages), r, list, n)
  <1> DEFINE way == Way(q, packages)
             there == Way(Tail(q), packages)
             g == [i \in DOMAIN way |-> i - 1]
  <1>1. /\ DOMAIN way = 1..(Len(q) + Len(packages))
        /\ DOMAIN there = 1..(Len(q) - 1 + Len(packages))
        /\ \A i \in 1..(Len(q) - 1 + Len(packages)) : there[i] = way[i + 1]
        /\ Len(q) \in Nat /\ Len(packages) \in Nat
    BY WayShifted
  <1>2. way[1] = IF Head(q).name = "HandleTcpPackage"
                 THEN [id |-> Head(q).id, type |-> Head(q).type]
                 ELSE [id |-> NoId, type |-> "none"]
    BY WayShifted
  <1>3. way[1].id # r
    BY <1>2, ConstantsAssumption
  <1>4. Placed(way, r, list, n)
    OBVIOUS
  <1> HIDE DEF way, there
  <1>5. \A i \in DOMAIN way : g[i] = i - 1
    OBVIOUS
  <1> HIDE DEF g
  <1>6. ASSUME NEW i \in DOMAIN way, way[i].id = r
        PROVE  g[i] \in DOMAIN there /\ there[g[i]] = way[i]
    <2>1. i \in 1..(Len(q) + Len(packages)) /\ i # 1
      BY <1>1, <1>3, <1>6
    <2>2. i - 1 \in 1..(Len(q) - 1 + Len(packages)) /\ i - 1 + 1 = i
      BY <1>1, <2>1
    <2>3. QED
      BY <1>1, <1>5, <2>2
  <1>7. \A i, j \in DOMAIN way : i < j => g[i] < g[j]
    BY <1>1, <1>5
  <1>8. ASSUME NEW i \in DOMAIN there, there[i].id = r
        PROVE  \E j \in DOMAIN way : way[j].id = r /\ g[j] = i
    <2>1. i + 1 \in DOMAIN way /\ i + 1 - 1 = i /\ way[i + 1] = there[i]
      BY <1>1
    <2>2. PICK j \in DOMAIN way : j = i + 1
      BY <2>1
    <2>3. way[j].id = r
      BY <1>8, <2>1, <2>2
    <2>4. g[j] = j - 1 /\ j - 1 = i
      BY <1>1, <1>5, <2>2
    <2>5. QED
      BY <2>3, <2>4
  <1>9. DOMAIN way \subseteq Int /\ DOMAIN there \subseteq Int
    BY <1>1
  <1>10. Placed(there, r, list, n)
    <2>1. \A i \in DOMAIN way : way[i].id = r =>
              g[i] \in DOMAIN there /\ there[g[i]].id = r /\ there[g[i]].type = way[i].type
      BY <1>6
    <2>2. \A i, j \in DOMAIN way : way[i].id = r /\ way[j].id = r /\ i < j => g[i] < g[j]
      BY <1>7
    <2>3. \A i \in DOMAIN there : there[i].id = r =>
              \E j \in DOMAIN way : way[j].id = r /\ g[j] = i
      BY <1>8
    <2>4. Moves(g, r, way, there)
      BY <2>1, <2>2, <2>3 DEF Moves
    <2>5. QED
      BY <1>4, <1>9, <2>4, PlacedMoved
  <1>11. QED
    BY <1>10 DEF there

\* A request's package that is handled is the first it has not heard yet.
LEMMA PlacedTaken ==
    ASSUME NEW q \in Seq(Messages), NEW packages \in Seq(Packages \cup {Fin}), q # <<>>,
           NEW r \in Ids, Head(q).name = "HandleTcpPackage", Head(q).id = r,
           NEW list, Len(list) \in Nat, NEW n \in Nat, Placed(Way(q, packages), r, list, n)
    PROVE  /\ n + 1 <= Len(list) /\ Head(q).type = list[n + 1]
           /\ Placed(Way(Tail(q), packages), r, list, n + 1)
  <1> DEFINE way == Way(q, packages)
             there == Way(Tail(q), packages)
             K == (n + 1)..Len(list)
             L == (n + 2)..Len(list)
  <1>1. /\ DOMAIN way = 1..(Len(q) + Len(packages))
        /\ DOMAIN there = 1..(Len(q) - 1 + Len(packages))
        /\ \A i \in 1..(Len(q) - 1 + Len(packages)) : there[i] = way[i + 1]
        /\ Len(q) \in Nat /\ Len(packages) \in Nat /\ Len(q) >= 1
    BY WayShifted
  <1>2. way[1] = [id |-> r, type |-> Head(q).type]
    BY WayShifted
  <1>3. PICK f \in [K -> DOMAIN way] :
            /\ \A k \in K : way[f[k]].id = r /\ way[f[k]].type = list[k]
            /\ \A j, k \in K : j < k => f[j] < f[k]
            /\ \A i \in DOMAIN way : way[i].id = r => \E k \in K : f[k] = i
    BY DEF Placed
  <1> HIDE DEF way, there
  <1>4. 1 \in DOMAIN way
    BY <1>1
  <1>5. PICK k \in K : f[k] = 1
    BY <1>2, <1>3, <1>4
  <1>6. n + 1 \in K
    BY <1>5
  <1>7. f[n + 1] \in DOMAIN way
    BY <1>3, <1>6
  <1>8. k = n + 1
    <2>1. n + 1 < k => f[n + 1] < f[k]
      BY <1>3, <1>5, <1>6
    <2>2. ~(f[n + 1] < 1)
      BY <1>1, <1>7
    <2>3. QED
      BY <1>5, <2>1, <2>2
  <1>9. /\ n + 1 <= Len(list) /\ Head(q).type = list[n + 1]
    BY <1>2, <1>3, <1>5, <1>6, <1>8
  <1>10. \A j \in L : j \in K /\ n + 1 < j
    OBVIOUS
  <1>11. \A j \in L : f[j] \in DOMAIN way /\ f[j] > 1
    <2> SUFFICES ASSUME NEW j \in L PROVE f[j] \in DOMAIN way /\ f[j] > 1
      OBVIOUS
    <2>1. f[n + 1] < f[j] /\ f[j] \in DOMAIN way
      BY <1>3, <1>6, <1>10
    <2>2. QED
      BY <1>1, <1>5, <1>8, <2>1
  <1> DEFINE h == [j \in L |-> f[j] - 1]
  <1>12. \A j \in L : h[j] = f[j] - 1
    OBVIOUS
  <1> HIDE DEF h
  <1>13. \A j \in L : h[j] \in DOMAIN there /\ there[h[j]] = way[f[j]]
    <2> SUFFICES ASSUME NEW j \in L PROVE h[j] \in DOMAIN there /\ there[h[j]] = way[f[j]]
      OBVIOUS
    <2>1. f[j] \in 1..(Len(q) + Len(packages)) /\ f[j] > 1
      BY <1>1, <1>11
    <2>2. f[j] - 1 \in 1..(Len(q) - 1 + Len(packages)) /\ f[j] - 1 + 1 = f[j]
      BY <1>1, <2>1, SMTT(30)
    <2>3. QED
      BY <1>1, <1>12, <2>2
  <1>14. h \in [L -> DOMAIN there]
    BY <1>13 DEF h
  <1>15. \A j \in L : there[h[j]].id = r /\ there[h[j]].type = list[j]
    BY <1>3, <1>10, <1>13, SMTT(30)
  <1>16. ASSUME NEW i \in L, NEW j \in L, i < j PROVE h[i] < h[j]
    <2>1. f[i] < f[j] /\ f[i] \in DOMAIN way /\ f[j] \in DOMAIN way
      BY <1>3, <1>10, <1>16
    <2>2. f[i] \in Int /\ f[j] \in Int /\ h[i] = f[i] - 1 /\ h[j] = f[j] - 1
      BY <1>1, <1>12, <2>1
    <2>3. QED
      BY <2>1, <2>2
  <1>17. ASSUME NEW i \in DOMAIN there, there[i].id = r PROVE \E j \in L : h[j] = i
    <2>1. i + 1 \in DOMAIN way /\ i + 1 # 1 /\ way[i + 1] = there[i] /\ i \in Int
      BY <1>1, SMTT(30)
    <2>2. PICK j \in K : f[j] = i + 1
      BY <1>3, <1>17, <2>1
    <2>3. j # n + 1
      BY <1>5, <1>8, <2>1, <2>2
    <2>4. j \in L
      BY <2>3
    <2>5. h[j] = i
      BY <1>12, <2>1, <2>2, <2>4, SMTT(30)
    <2>6. QED
      BY <2>4, <2>5
  <1>18. (n + 1 + 1)..Len(list) = L
    OBVIOUS
  <1> HIDE DEF L, K
  <1>19. \E m \in [L -> DOMAIN there] :
             /\ \A j \in L : there[m[j]].id = r /\ there[m[j]].type = list[j]
             /\ \A i, j \in L : i < j => m[i] < m[j]
             /\ \A i \in DOMAIN there : there[i].id = r => \E j \in L : m[j] = i
    BY <1>14, <1>15, <1>16, <1>17
  <1>20. Placed(there, r, list, n + 1)
    BY <1>9, <1>18, <1>19 DEF Placed
  <1>21. QED
    BY <1>9, <1>20 DEF there

\* A package that leaves the socket takes the same place at the end of the queue.
LEMMA PlacedData ==
    ASSUME NEW q \in Seq(Messages), NEW packages \in Seq(Packages \cup {Fin}),
           packages # <<>>, NEW m \in Messages, m.name = "HandleTcpPackage",
           m.id = Head(packages).id, m.type = Head(packages).type,
           NEW r \in Ids, NEW list, Len(list) \in Nat, NEW n \in Nat,
           Placed(Way(q, packages), r, list, n)
    PROVE  Placed(Way(Append(q, m), Tail(packages)), r, list, n)
  <1> DEFINE more == Append(q, m)
             rest == Tail(packages)
             way == Way(q, packages)
             there == Way(more, rest)
             g == [i \in DOMAIN way |-> i]
  <1>1. /\ more \in Seq(Messages) /\ Len(more) = Len(q) + 1
        /\ \A i \in 1..Len(q) : more[i] = q[i]
        /\ more[Len(q) + 1] = m
    OBVIOUS
  <1>2. /\ rest \in Seq(Packages \cup {Fin}) /\ Len(rest) = Len(packages) - 1
        /\ \A i \in 1..(Len(packages) - 1) : rest[i] = packages[i + 1]
        /\ packages[1] = Head(packages) /\ Len(packages) >= 1
    OBVIOUS
  <1> HIDE DEF more, rest
  <1>3. /\ Len(q) \in Nat /\ Len(packages) \in Nat
        /\ DOMAIN way = 1..(Len(q) + Len(packages))
        /\ \A i \in 1..Len(q) :
               way[i] = IF q[i].name = "HandleTcpPackage"
                        THEN [id |-> q[i].id, type |-> q[i].type]
                        ELSE [id |-> NoId, type |-> "none"]
        /\ \A i \in 1..(Len(q) + Len(packages)) : i > Len(q) => way[i] = packages[i - Len(q)]
    BY WayPlaces
  <1>4. /\ DOMAIN there = 1..(Len(more) + Len(rest))
        /\ \A i \in 1..Len(more) :
               there[i] = IF more[i].name = "HandleTcpPackage"
                          THEN [id |-> more[i].id, type |-> more[i].type]
                          ELSE [id |-> NoId, type |-> "none"]
        /\ \A i \in 1..(Len(more) + Len(rest)) : i > Len(more) => there[i] = rest[i - Len(more)]
    BY <1>1, <1>2, WayPlaces
  <1>5. Placed(way, r, list, n)
    OBVIOUS
  <1> HIDE DEF way, there
  <1>6. DOMAIN there = DOMAIN way
    BY <1>1, <1>2, <1>3, <1>4
  <1>7. \A i \in DOMAIN way : g[i] = i
    OBVIOUS
  <1> HIDE DEF g
  <1>8. ASSUME NEW i \in DOMAIN way
        PROVE  there[i].id = way[i].id /\ there[i].type = way[i].type
    <2>1. i \in 1..(Len(q) + Len(packages)) /\ i \in 1..(Len(more) + Len(rest)) /\ i \in Int
      BY <1>3, <1>4, <1>6
    <2>2. CASE i <= Len(q)
      <3>1. i \in 1..Len(q) /\ i \in 1..Len(more)
        BY <1>1, <1>3, <2>1, <2>2
      <3>2. more[i] = q[i]
        BY <1>1, <3>1
      <3>3. there[i] = way[i]
        BY <1>3, <1>4, <3>1, <3>2
      <3>4. QED
        BY <3>3
    <2>3. CASE i = Len(q) + 1
      <3>1. i \in 1..Len(more) /\ i > Len(q) /\ i - Len(q) = 1
        BY <1>1, <1>3, <2>3
      <3>2. way[i] = packages[1]
        BY <1>3, <2>1, <3>1
      <3>3. there[i] = [id |-> m.id, type |-> m.type]
        BY <1>1, <1>4, <2>3, <3>1
      <3>4. QED
        BY <1>2, <3>2, <3>3
    <2>4. CASE i > Len(q) + 1
      <3>1. i > Len(more) /\ i > Len(q)
        BY <1>1, <1>3, <2>1, <2>4
      <3>2. way[i] = packages[i - Len(q)] /\ there[i] = rest[i - Len(more)]
        BY <1>3, <1>4, <2>1, <3>1
      <3>3. PICK j \in Int : j = i - Len(more)
        BY <1>1, <1>3, <2>1
      <3>4. j \in 1..(Len(packages) - 1) /\ j + 1 = i - Len(q)
        BY <1>1, <1>3, <2>1, <2>4, <3>3, SMTT(30)
      <3>5. rest[j] = packages[j + 1]
        BY <1>2, <3>4
      <3>6. there[i] = way[i]
        BY <3>2, <3>3, <3>4, <3>5
      <3>7. QED
        BY <3>6
    <2>5. QED
      BY <1>3, <2>1, <2>2, <2>3, <2>4
  <1>9. Moves(g, r, way, there)
    BY <1>6, <1>7, <1>8 DEF Moves
  <1>10. DOMAIN way \subseteq Int /\ DOMAIN there \subseteq Int
    BY <1>3, <1>6
  <1>11. Placed(there, r, list, n)
    BY <1>5, <1>9, <1>10, PlacedMoved
  <1>12. QED
    BY <1>11 DEF there, more, rest

\* The remote end's FIN is taken from the socket.
LEMMA PlacedEnd ==
    ASSUME NEW q \in Seq(Messages), NEW packages \in Seq(Packages \cup {Fin}),
           packages # <<>>, Head(packages) = Fin,
           NEW r \in Ids, NEW list, Len(list) \in Nat, NEW n \in Nat,
           Placed(Way(q, packages), r, list, n)
    PROVE  Placed(Way(q, Tail(packages)), r, list, n)
  <1> DEFINE rest == Tail(packages)
             way == Way(q, packages)
             there == Way(q, rest)
             g == [i \in DOMAIN way |-> IF i <= Len(q) THEN i ELSE i - 1]
  <1>1. /\ rest \in Seq(Packages \cup {Fin}) /\ Len(rest) = Len(packages) - 1
        /\ \A i \in 1..(Len(packages) - 1) : rest[i] = packages[i + 1]
        /\ packages[1] = Head(packages) /\ Len(packages) >= 1
    OBVIOUS
  <1> HIDE DEF rest
  <1>2. /\ Len(q) \in Nat /\ Len(packages) \in Nat
        /\ DOMAIN way = 1..(Len(q) + Len(packages))
        /\ \A i \in 1..Len(q) :
               way[i] = IF q[i].name = "HandleTcpPackage"
                        THEN [id |-> q[i].id, type |-> q[i].type]
                        ELSE [id |-> NoId, type |-> "none"]
        /\ \A i \in 1..(Len(q) + Len(packages)) : i > Len(q) => way[i] = packages[i - Len(q)]
    BY WayPlaces
  <1>3. /\ DOMAIN there = 1..(Len(q) + Len(rest))
        /\ \A i \in 1..Len(q) :
               there[i] = IF q[i].name = "HandleTcpPackage"
                          THEN [id |-> q[i].id, type |-> q[i].type]
                          ELSE [id |-> NoId, type |-> "none"]
        /\ \A i \in 1..(Len(q) + Len(rest)) : i > Len(q) => there[i] = rest[i - Len(q)]
    BY <1>1, WayPlaces
  <1>4. Placed(way, r, list, n)
    OBVIOUS
  <1> HIDE DEF way, there
  <1>5. DOMAIN there = 1..(Len(q) + Len(packages) - 1)
    BY <1>1, <1>2, <1>3
  <1>6. \A i \in DOMAIN way : g[i] = IF i <= Len(q) THEN i ELSE i - 1
    OBVIOUS
  <1> HIDE DEF g
  <1>7. ASSUME NEW i \in 1..(Len(q) + Len(packages) - 1)
        PROVE  there[i] = IF i <= Len(q) THEN way[i] ELSE way[i + 1]
    <2>1. i \in 1..(Len(q) + Len(rest)) /\ i \in 1..(Len(q) + Len(packages)) /\ i \in Int
      BY <1>1, <1>2
    <2>2. CASE i <= Len(q)
      <3>1. i \in 1..Len(q)
        BY <1>2, <2>2
      <3>2. QED
        BY <1>2, <1>3, <2>2, <3>1
    <2>3. CASE i > Len(q)
      <3>1. there[i] = rest[i - Len(q)]
        BY <1>3, <2>1, <2>3
      <3>0. i - Len(q) \in Int
        BY <1>2, <2>1
      <3>2. PICK j \in Int : j = i - Len(q)
        BY <3>0
      <3>3. PICK k \in Int : k = i + 1
        BY <2>1
      <3>4. j \in 1..(Len(packages) - 1) /\ k - Len(q) = j + 1 /\ k > Len(q)
            /\ k \in 1..(Len(q) + Len(packages))
        BY <1>2, <2>1, <2>3, <3>2, <3>3
      <3>5. rest[j] = packages[j + 1]
        BY <1>1, <3>4
      <3>6. way[k] = packages[k - Len(q)]
        BY <1>2, <3>4
      <3>7. ~(i <= Len(q))
        BY <1>2, <2>1, <2>3
      <3>8. QED
        BY <3>1, <3>2, <3>3, <3>4, <3>5, <3>6, <3>7
    <2>4. QED
      BY <1>2, <2>1, <2>2, <2>3
  <1>8. way[Len(q) + 1].id = NoId
    <2>1. PICK k \in Int : k = Len(q) + 1
      BY <1>2
    <2>2. k - Len(q) = 1 /\ k > Len(q) /\ k \in 1..(Len(q) + Len(packages))
      BY <1>1, <1>2, <2>1
    <2>3. way[k] = packages[1]
      BY <1>2, <2>2
    <2>4. QED
      BY <1>1, <2>1, <2>3 DEF Fin
  <1>9. ASSUME NEW i \in DOMAIN way, way[i].id = r
        PROVE  g[i] \in DOMAIN there /\ there[g[i]] = way[i]
    <2>1. i # Len(q) + 1
      BY <1>8, <1>9, ConstantsAssumption
    <2>2. i \in 1..(Len(q) + Len(packages)) /\ i \in Int
      BY <1>2
    <2>3. CASE i <= Len(q)
      <3>1. i \in 1..(Len(q) + Len(packages) - 1) /\ g[i] = i
        BY <1>1, <1>2, <1>6, <2>2, <2>3
      <3>2. QED
        BY <1>5, <1>7, <2>3, <3>1
    <2>4. CASE i > Len(q) + 1
      <3>1. PICK j \in Int : j = i - 1
        BY <2>2
      <3>2. /\ j \in 1..(Len(q) + Len(packages) - 1) /\ ~(j <= Len(q)) /\ j + 1 = i
            /\ ~(i <= Len(q))
        BY <1>2, <2>2, <2>4, <3>1, SMTT(30)
      <3>3. there[j] = way[j + 1]
        BY <1>7, <3>2
      <3>4. g[i] = j
        BY <1>6, <3>1, <3>2
      <3>5. QED
        BY <1>5, <3>2, <3>3, <3>4
    <2>5. QED
      BY <1>2, <2>1, <2>2, <2>3, <2>4
  <1>10. ASSUME NEW i \in DOMAIN way, way[i].id = r, NEW j \in DOMAIN way, way[j].id = r, i < j
         PROVE  g[i] < g[j]
    <2>1. i # Len(q) + 1 /\ j # Len(q) + 1
      BY <1>8, <1>10, ConstantsAssumption
    <2>2. i \in Int /\ j \in Int
      BY <1>2
    <2>3. /\ g[i] = IF i <= Len(q) THEN i ELSE i - 1
          /\ g[j] = IF j <= Len(q) THEN j ELSE j - 1
      BY <1>6
    <2>4. QED
      BY <1>2, <1>10, <2>1, <2>2, <2>3
  <1>11. ASSUME NEW i \in DOMAIN there, there[i].id = r
         PROVE  \E j \in DOMAIN way : way[j].id = r /\ g[j] = i
    <2>1. i \in 1..(Len(q) + Len(packages) - 1) /\ i \in Int
      BY <1>5
    <2>2. CASE i <= Len(q)
      <3>1. i \in DOMAIN way /\ way[i].id = r
        BY <1>2, <1>7, <1>11, <2>1, <2>2, SMTT(30)
      <3>2. g[i] = i
        BY <1>6, <2>2, <3>1
      <3>3. QED
        BY <3>1, <3>2
    <2>3. CASE i > Len(q)
      <3>1. PICK j \in Int : j = i + 1
        BY <2>1
      <3>2. j \in DOMAIN way /\ ~(j <= Len(q)) /\ ~(i <= Len(q)) /\ j - 1 = i
        BY <1>2, <2>1, <2>3, <3>1, SMTT(30)
      <3>3. way[j].id = r
        BY <1>7, <1>11, <2>1, <3>1, <3>2
      <3>4. g[j] = i
        BY <1>6, <3>2
      <3>5. QED
        BY <3>2, <3>3, <3>4
    <2>4. QED
      BY <1>2, <2>1, <2>2, <2>3
  <1>12. Moves(g, r, way, there)
    <2>1. \A i \in DOMAIN way : way[i].id = r =>
              g[i] \in DOMAIN there /\ there[g[i]].id = r /\ there[g[i]].type = way[i].type
      BY <1>9
    <2>2. \A i, j \in DOMAIN way : way[i].id = r /\ way[j].id = r /\ i < j => g[i] < g[j]
      BY <1>10
    <2>3. \A i \in DOMAIN there : there[i].id = r =>
              \E j \in DOMAIN way : way[j].id = r /\ g[j] = i
      BY <1>11
    <2>4. QED
      BY <2>1, <2>2, <2>3 DEF Moves
  <1>13. DOMAIN way \subseteq Int /\ DOMAIN there \subseteq Int
    BY <1>2, <1>5
  <1>14. Placed(there, r, list, n)
    BY <1>4, <1>12, <1>13, PlacedMoved
  <1>15. QED
    BY <1>14 DEF there, rest

\* What the server sends goes behind everything on its way.
LEMMA WaySent ==
    ASSUME NEW q \in Seq(Messages), NEW packages \in Seq(Packages \cup {Fin}),
           NEW p \in Packages \cup {Fin}
    PROVE  /\ Append(packages, p) \in Seq(Packages \cup {Fin})
           /\ Len(q) + Len(packages) \in Nat
           /\ DOMAIN Way(q, packages) = 1..(Len(q) + Len(packages))
           /\ DOMAIN Way(q, Append(packages, p)) = 1..(Len(q) + Len(packages) + 1)
           /\ \A i \in 1..(Len(q) + Len(packages)) :
                  Way(q, Append(packages, p))[i] = Way(q, packages)[i]
           /\ Way(q, Append(packages, p))[Len(q) + Len(packages) + 1] = p
  <1> DEFINE more == Append(packages, p)
             way == Way(q, packages)
             there == Way(q, more)
  <1>1. /\ more \in Seq(Packages \cup {Fin}) /\ Len(more) = Len(packages) + 1
        /\ \A i \in 1..Len(packages) : more[i] = packages[i]
        /\ more[Len(packages) + 1] = p
    OBVIOUS
  <1> HIDE DEF more
  <1>2. /\ Len(q) \in Nat /\ Len(packages) \in Nat
        /\ DOMAIN way = 1..(Len(q) + Len(packages))
        /\ \A i \in 1..Len(q) :
               way[i] = IF q[i].name = "HandleTcpPackage"
                        THEN [id |-> q[i].id, type |-> q[i].type]
                        ELSE [id |-> NoId, type |-> "none"]
        /\ \A i \in 1..(Len(q) + Len(packages)) : i > Len(q) => way[i] = packages[i - Len(q)]
    BY WayPlaces
  <1>3. /\ DOMAIN there = 1..(Len(q) + Len(more))
        /\ \A i \in 1..Len(q) :
               there[i] = IF q[i].name = "HandleTcpPackage"
                          THEN [id |-> q[i].id, type |-> q[i].type]
                          ELSE [id |-> NoId, type |-> "none"]
        /\ \A i \in 1..(Len(q) + Len(more)) : i > Len(q) => there[i] = more[i - Len(q)]
    BY <1>1, WayPlaces
  <1> HIDE DEF way, there
  <1>4. DOMAIN there = 1..(Len(q) + Len(packages) + 1)
    BY <1>1, <1>2, <1>3
  <1>5. ASSUME NEW i \in 1..(Len(q) + Len(packages)) PROVE there[i] = way[i]
    <2>1. i \in 1..(Len(q) + Len(more)) /\ i \in Int
      BY <1>1, <1>2
    <2>2. CASE i <= Len(q)
      <3>1. i \in 1..Len(q)
        BY <1>2, <2>2
      <3>2. QED
        BY <1>2, <1>3, <3>1
    <2>3. CASE i > Len(q)
      <3>0. i - Len(q) \in Int
        BY <1>2, <2>1
      <3>1. PICK j \in Int : j = i - Len(q)
        BY <3>0
      <3>2. j \in 1..Len(packages)
        BY <1>2, <2>1, <2>3, <3>1
      <3>3. more[j] = packages[j]
        BY <1>1, <3>2
      <3>4. way[i] = packages[i - Len(q)] /\ there[i] = more[i - Len(q)]
        BY <1>2, <1>3, <2>1, <2>3
      <3>5. QED
        BY <3>1, <3>3, <3>4
    <2>4. QED
      BY <1>2, <2>1, <2>2, <2>3
  <1>6. there[Len(q) + Len(packages) + 1] = p
    <2>1. PICK k \in Int : k = Len(q) + Len(packages) + 1
      BY <1>2
    <2>2. k \in 1..(Len(q) + Len(more)) /\ k > Len(q) /\ k - Len(q) = Len(packages) + 1
      BY <1>1, <1>2, <2>1
    <2>3. there[k] = more[k - Len(q)]
      BY <1>3, <2>2
    <2>4. QED
      BY <1>1, <2>1, <2>2, <2>3
  <1>7. Len(q) + Len(packages) \in Nat
    BY <1>2
  <1>8. QED
    BY <1>1, <1>2, <1>4, <1>5, <1>6, <1>7 DEF way, there, more

\* Another request's package, or the FIN.
LEMMA PlacedOther ==
    ASSUME NEW q \in Seq(Messages), NEW packages \in Seq(Packages \cup {Fin}),
           NEW p \in Packages \cup {Fin}, NEW r \in Ids, p.id # r,
           NEW list, Len(list) \in Nat, NEW n \in Nat, Placed(Way(q, packages), r, list, n)
    PROVE  Placed(Way(q, Append(packages, p)), r, list, n)
  <1> DEFINE way == Way(q, packages)
             there == Way(q, Append(packages, p))
             N == Len(q) + Len(packages)
             g == [i \in DOMAIN way |-> i]
  <1>1. /\ N \in Nat /\ DOMAIN way = 1..N /\ DOMAIN there = 1..(N + 1)
        /\ \A i \in 1..N : there[i] = way[i]
        /\ there[N + 1] = p
    BY WaySent
  <1>2. Placed(way, r, list, n)
    OBVIOUS
  <1> HIDE DEF way, there, N
  <1>3. \A i \in DOMAIN way : g[i] = i
    OBVIOUS
  <1> HIDE DEF g
  <1>4. \A i \in DOMAIN way : i \in DOMAIN there /\ there[i] = way[i]
    BY <1>1
  <1>5. ASSUME NEW i \in DOMAIN there, there[i].id = r
        PROVE  i \in DOMAIN way /\ way[i].id = r
    <2>1. i # N + 1
      BY <1>1, <1>5
    <2>2. i \in 1..N
      BY <1>1, <2>1
    <2>3. QED
      BY <1>1, <1>5, <2>2
  <1>6. Moves(g, r, way, there)
    BY <1>3, <1>4, <1>5 DEF Moves
  <1>7. DOMAIN way \subseteq Int /\ DOMAIN there \subseteq Int
    BY <1>1
  <1>8. Placed(there, r, list, n)
    BY <1>2, <1>6, <1>7, PlacedMoved
  <1>9. QED
    BY <1>8 DEF there

\* A request's own package is the last of its list.
LEMMA PlacedOwn ==
    ASSUME NEW q \in Seq(Messages), NEW packages \in Seq(Packages \cup {Fin}),
           NEW p \in Packages \cup {Fin}, NEW r \in Ids, p.id = r,
           NEW list \in Seq(PackageTypes), NEW n \in Nat, p.type \in PackageTypes,
           Placed(Way(q, packages), r, list, n)
    PROVE  Placed(Way(q, Append(packages, p)), r, Append(list, p.type), n)
  <1> DEFINE way == Way(q, packages)
             there == Way(q, Append(packages, p))
             more == Append(list, p.type)
             N == Len(q) + Len(packages)
             K == (n + 1)..Len(list)
             L == (n + 1)..Len(more)
  <1>1. /\ N \in Nat /\ DOMAIN way = 1..N /\ DOMAIN there = 1..(N + 1)
        /\ \A i \in 1..N : there[i] = way[i]
        /\ there[N + 1] = p
    BY WaySent
  <1>2. /\ Len(list) \in Nat /\ Len(more) = Len(list) + 1
        /\ \A k \in 1..Len(list) : more[k] = list[k]
        /\ more[Len(list) + 1] = p.type
    OBVIOUS
  <1>3. n <= Len(list)
    BY DEF Placed
  <1>4. PICK f \in [K -> DOMAIN way] :
            /\ \A k \in K : way[f[k]].id = r /\ way[f[k]].type = list[k]
            /\ \A j, k \in K : j < k => f[j] < f[k]
            /\ \A i \in DOMAIN way : way[i].id = r => \E k \in K : f[k] = i
    BY DEF Placed
  <1> HIDE DEF way, there, more, N
  <1> DEFINE h == [k \in L |-> IF k <= Len(list) THEN f[k] ELSE N + 1]
  <1>5. \A k \in L : h[k] = IF k <= Len(list) THEN f[k] ELSE N + 1
    OBVIOUS
  <1> HIDE DEF h
  <1>6. \A k \in L : (k \in K /\ k <= Len(list) /\ k \in 1..Len(list)) \/ k = Len(list) + 1
    BY <1>2
  <1>7. \A k \in K : f[k] \in 1..N /\ f[k] \in Int /\ k \in L /\ h[k] = f[k] /\ k \in 1..Len(list)
    <2>1. \A k \in K : f[k] \in DOMAIN way /\ k \in L /\ k <= Len(list) /\ k \in 1..Len(list)
      BY <1>2
    <2>2. QED
      BY <1>1, <1>5, <2>1
  <1>8. Len(list) + 1 \in L /\ h[Len(list) + 1] = N + 1
    <2>1. Len(list) + 1 \in L /\ ~(Len(list) + 1 <= Len(list))
      BY <1>2, <1>3
    <2>2. QED
      BY <1>5, <2>1
  <1> HIDE DEF K, L
  <1>9. \A k \in L : h[k] \in DOMAIN there /\ there[h[k]].id = r /\ there[h[k]].type = more[k]
    <2> SUFFICES ASSUME NEW k \in L
                 PROVE  h[k] \in DOMAIN there /\ there[h[k]].id = r /\ there[h[k]].type = more[k]
      OBVIOUS
    <2>1. CASE k \in K
      <3>1. f[k] \in DOMAIN there /\ there[f[k]] = way[f[k]]
        BY <1>1, <1>7, <2>1
      <3>2. QED
        BY <1>2, <1>4, <1>7, <2>1, <3>1
    <2>2. CASE k = Len(list) + 1
      <3>1. N + 1 \in DOMAIN there
        BY <1>1
      <3>2. QED
        BY <1>1, <1>2, <1>8, <2>2, <3>1
    <2>3. QED
      BY <1>6, <2>1, <2>2
  <1>10. ASSUME NEW j \in L, NEW k \in L, j < k PROVE h[j] < h[k]
    <2>1. CASE j \in K /\ k \in K
      BY <1>4, <1>7, <1>10, <2>1
    <2>2. CASE j \in K /\ k = Len(list) + 1
      BY <1>1, <1>7, <1>8, <2>2
    <2>3. ~(j = Len(list) + 1)
      <3>1. j = Len(list) + 1 => ~(k \in K) /\ ~(k = Len(list) + 1)
        BY <1>2, <1>7, <1>10
      <3>2. QED
        BY <1>6, <3>1
    <2>4. QED
      BY <1>6, <2>1, <2>2, <2>3
  <1>11. ASSUME NEW i \in DOMAIN there, there[i].id = r PROVE \E k \in L : h[k] = i
    <2>1. CASE i = N + 1
      BY <1>8, <2>1
    <2>2. CASE i \in 1..N
      <3>1. i \in DOMAIN way /\ way[i].id = r
        BY <1>1, <1>11, <2>2
      <3>2. PICK k \in K : f[k] = i
        BY <1>4, <3>1
      <3>3. QED
        BY <1>7, <3>2
    <2>3. QED
      BY <1>1, <2>1, <2>2
  <1>12. h \in [L -> DOMAIN there]
    BY <1>9 DEF h
  <1>13. \E m \in [L -> DOMAIN there] :
             /\ \A k \in L : there[m[k]].id = r /\ there[m[k]].type = more[k]
             /\ \A j, k \in L : j < k => m[j] < m[k]
             /\ \A i \in DOMAIN there : there[i].id = r => \E k \in L : m[k] = i
    BY <1>9, <1>10, <1>11, <1>12
  <1>14. n <= Len(more)
    BY <1>2, <1>3
  <1>15. Placed(there, r, more, n)
    BY <1>13, <1>14 DEF Placed, L
  <1>16. QED
    BY <1>15 DEF there, more

\* What a request is told comes behind what it was told before, and no other is told.
LEMMA TellHeard ==
    ASSUME ProgramTypeOK, NEW r \in RequestIds, NEW id \in RequestIds, NEW what, Tell(id, what)
    PROVE  /\ id = r => callbacks'[r] = Append(callbacks[r], what)
           /\ id # r => callbacks'[r] = callbacks[r]
           /\ Answered(r) => Answered(r)'
           /\ id = r => Answered(r)'
  <1>1. id = r => callbacks'[r] = Append(callbacks[r], what)
    BY DEF ProgramTypeOK, Tell
  <1>2. id # r => callbacks'[r] = callbacks[r]
    BY DEF ProgramTypeOK, Tell
  <1>3. Append(callbacks[r], what) # <<>>
    BY DEF ProgramTypeOK
  <1>4. QED
    BY <1>1, <1>2, <1>3 DEF Answered

\* What a channel holds.
LEMMA ChannelTypes ==
    ASSUME TypeOK, NEW r \in RequestIds
    PROVE  /\ queue \in Seq(Messages) /\ inbound \in Seq(Packages \cup {Fin})
           /\ r \in Ids /\ replied[r] \in Seq(PackageTypes) /\ Len(replied[r]) \in Nat
           /\ callbacks[r] \in Seq(Notices) /\ Heard(r) \in Nat
  <1>1. /\ queue \in Seq(Messages) /\ inbound \in Seq(Packages \cup {Fin})
        /\ r \in Ids /\ replied[r] \in Seq(PackageTypes) /\ callbacks[r] \in Seq(Notices)
    BY DEF TypeOK, LoopTypeOK, WireTypeOK, ProgramTypeOK, Ids
  <1>2. Len(replied[r]) \in Nat /\ Len(callbacks[r]) \in Nat
    BY <1>1
  <1>3. QED
    BY <1>1, <1>2 DEF Heard

\* A channel is kept by a step that only moves its packages.
LEMMA ChannelKept ==
    ASSUME NEW r, Channel(r), replied'[r] = replied[r],
           r \in written' <=> r \in written, r \in active' <=> r \in active,
           r \in Ops /\ Answered(r) => Answered(r)', Heard(r)' = Heard(r), Alive' => Alive,
           Alive' /\ (r \in active \/ r \notin written)
               /\ Placed(Way(queue, inbound), r, replied[r], Heard(r))
               => Placed(Way(queue', inbound'), r, replied[r], Heard(r))
    PROVE  Channel(r)'
BY DEF Channel

\* A package of a request that is active, or not written, is its next one: of an
\* unwritten request there is none.
LEMMA NextPackage ==
    ASSUME TypeOK, NEW r \in RequestIds, Channel(r), Alive, r \in active \/ r \notin written,
           queue # <<>>, Head(queue).name = "HandleTcpPackage", Head(queue).id = r
    PROVE  /\ Heard(r) + 1 \in DOMAIN replied[r] /\ Head(queue).type = replied[r][Heard(r) + 1]
           /\ Head(queue).type # "HeartbeatRequestCommand"
           /\ r \in written /\ r \in active
           /\ Placed(Way(Tail(queue), inbound), r, replied[r], Heard(r) + 1)
  <1>1. Placed(Way(queue, inbound), r, replied[r], Heard(r))
    BY DEF Channel
  <1>2. /\ Heard(r) + 1 <= Len(replied[r]) /\ Head(queue).type = replied[r][Heard(r) + 1]
        /\ Placed(Way(Tail(queue), inbound), r, replied[r], Heard(r) + 1)
    BY <1>1, ChannelTypes, PlacedTaken, SMTT(30)
  <1>3. Heard(r) + 1 \in DOMAIN replied[r]
    BY <1>2, ChannelTypes
  <1>4. r \in written
    <2>1. <<>> # replied[r]
      BY <1>3
    <2>2. QED
      BY <2>1 DEF Channel
  <1>5. QED
    BY <1>2, <1>3, <1>4 DEF Channel

\* The channel of a request through the step that enters it, or another, in the
\* active map and writes it.
LEMMA ChannelScheduled ==
    ASSUME TypeOK, NEW r \in RequestIds, Channel(r), queue # <<>>,
           Head(queue).name # "HandleTcpPackage",
           NEW id, NEW why, why # "none", Schedule(id, why), Running,
           id = r => r \in active \/ r \notin written,
           UNCHANGED <<state, inbound, replied, callbacks>>
    PROVE  Channel(r)'
  <1>1. /\ active' = active \cup {id}
        /\ \/ written' = written \cup {id} /\ queue' = Tail(queue) /\ crash' = crash
           \/ written' = written /\ queue' = Tail(queue) /\ crash' # "none"
    <2>1. Tail(queue) \o <<>> = Tail(queue)
      BY DEF TypeOK, LoopTypeOK
    <2>2. QED
      BY <2>1 DEF Schedule, Returns, Throws
  <1>2. /\ UNCHANGED <<replied, state, inbound, callbacks>> /\ queue' = Tail(queue)
        /\ Heard(r)' = Heard(r) /\ (Answered(r)' <=> Answered(r)) /\ (Alive' => Alive)
    BY <1>1 DEF Heard, Answered, Alive, Running
  <1>3. ASSUME r \in active \/ r \notin written, Alive
        PROVE  Placed(Way(queue', inbound'), r, replied[r], Heard(r))
    <2>1. Placed(Way(queue, inbound), r, replied[r], Heard(r))
      BY <1>3 DEF Channel
    <2>2. Placed(Way(Tail(queue), inbound), r, replied[r], Heard(r))
      BY <2>1, ChannelTypes, PlacedShift
    <2>3. QED
      BY <1>2, <2>2
  <1>4. CASE id # r
    <2>1. (r \in active' <=> r \in active) /\ (r \in written' <=> r \in written)
      BY <1>1, <1>4
    <2>2. QED
      BY <1>2, <1>3, <2>1, ChannelKept
  <1>5. CASE id = r
    <2>1. r \in active' /\ (r \notin written' => r \notin written)
      BY <1>1, <1>5
    <2>2. QED
      BY <1>2, <1>3, <1>5, <2>1 DEF Channel
  <1>6. QED
    BY <1>4, <1>5

\* Every step keeps every request's channel.
LEMMA ChannelStep ==
    ASSUME TypeOK, HomeInv, ActiveConnected, NEW r \in RequestIds, Channel(r), [Next]_vars
    PROVE  Channel(r)'
  <1> DEFINE Still(q, packages) ==
                 Placed(Way(queue, inbound), r, replied[r], Heard(r))
                     => Placed(Way(q, packages), r, replied[r], Heard(r))
             SameRequest ==
                 /\ UNCHANGED replied
                 /\ (r \in written' <=> r \in written) /\ (r \in active' <=> r \in active)
                 /\ (Answered(r) => Answered(r)') /\ Heard(r)' = Heard(r)
  <1>1. /\ queue \in Seq(Messages) /\ inbound \in Seq(Packages \cup {Fin})
        /\ r \in Ids /\ replied[r] \in Seq(PackageTypes) /\ Len(replied[r]) \in Nat
        /\ callbacks[r] \in Seq(Notices) /\ Heard(r) \in Nat
    BY ChannelTypes
  <1>2. /\ queue # <<>> => Head(queue) \in Messages
        /\ \A n \in ControlNames : Message(n, NoId, "none") \in Messages
        /\ \A n \in ControlNames : Message(n, NoId, "none").name # "HandleTcpPackage"
        /\ ProgramTypeOK
    BY <1>1, MessageShapes DEF Message, ControlNames, TypeOK
  <1>3. ASSUME SameRequest, Alive' => Alive,
               Alive' /\ (r \in active \/ r \notin written) => Still(queue', inbound')
        PROVE  Channel(r)'
    BY <1>3, ChannelKept
  <1>4. ASSUME NEW m \in Messages, m.name # "HandleTcpPackage" PROVE Still(Append(queue, m), inbound)
    BY <1>1, <1>4, PlacedEnqueue
  <1>5. ASSUME queue # <<>>, ~(Head(queue).name = "HandleTcpPackage" /\ Head(queue).id = r)
        PROVE  Still(Tail(queue), inbound)
    BY <1>1, <1>5, PlacedShift
  <1>6. ASSUME queue # <<>>, Returns(<<>>) \/ \E why : Throws(why) PROVE queue' = Tail(queue)
    <2>1. Tail(queue) \o <<>> = Tail(queue)
      BY <1>1, <1>6
    <2>2. QED
      BY <1>6, <2>1 DEF Returns, Throws
  <1>7. UNCHANGED callbacks => Heard(r)' = Heard(r) /\ (Answered(r) => Answered(r)')
    BY DEF Heard, Answered
  <1>8. UNCHANGED crash /\ (UNCHANGED state \/ state = "Init" \/ state = "Connecting") => (Alive' => Alive)
    BY DEF Alive, Running
  <1> HIDE DEF Still
  <1>9. CASE StartConnection
    <2> DEFINE m == Message("EstablishTcpConnection", NoId, "none")
    <2>1. m \in Messages /\ m.name # "HandleTcpPackage"
      BY <1>2 DEF ControlNames
    <2>2. /\ queue # <<>> /\ Head(queue).name # "HandleTcpPackage"
          /\ Returns(<<>>) \/ Returns(<<m>>)
          /\ UNCHANGED state \/ state = "Init"
      BY <1>9 DEF StartConnection, Dispatch, Starts, machine
    <2>3. UNCHANGED <<inbound, replied, written, active, callbacks, crash>>
      BY <1>9 DEF StartConnection, managers, wire, told, Returns
    <2> HIDE DEF m
    <2>4. Still(Tail(queue), inbound)
      BY <1>5, <2>2
    <2>5. CASE Returns(<<>>)
      BY <1>3, <1>6, <1>7, <1>8, <2>2, <2>3, <2>4, <2>5
    <2>6. CASE Returns(<<m>>)
      <3>1. Tail(queue) \in Seq(Messages)
        BY <1>1, <2>2
      <3>2. queue' = Append(Tail(queue), m)
        BY <2>1, <2>6, <3>1 DEF Returns
      <3>3. Still(Append(Tail(queue), m), inbound)
        <4>1. ASSUME Placed(Way(Tail(queue), inbound), r, replied[r], Heard(r))
              PROVE  Placed(Way(Append(Tail(queue), m), inbound), r, replied[r], Heard(r))
          BY <1>1, <2>1, <3>1, <4>1, PlacedEnqueue
        <4>2. QED
          BY <2>4, <4>1 DEF Still
      <3>4. QED
        BY <1>3, <1>7, <1>8, <2>2, <2>3, <3>2, <3>3
    <2>7. QED
      BY <2>2, <2>5, <2>6
  <1>10. CASE EstablishTcpConnection \/ TcpConnectionEstablished
    <2>1. /\ queue # <<>> /\ Head(queue).name # "HandleTcpPackage" /\ Returns(<<>>)
          /\ UNCHANGED state \/ state = "Connecting"
      BY <1>10 DEF EstablishTcpConnection, TcpConnectionEstablished, Dispatch, machine
    <2>2. UNCHANGED <<inbound, replied, written, active, callbacks, crash>>
      BY <1>10 DEF EstablishTcpConnection, TcpConnectionEstablished, managers, wire, told, Returns
    <2>3. QED
      BY <1>3, <1>5, <1>6, <1>7, <1>8, <2>1, <2>2
  <1>11. CASE CloseConnection
    <2>1. UNCHANGED <<replied, written, active, callbacks>> /\ ~Alive'
      BY <1>11 DEF CloseConnection, managers, Alive
    <2>2. QED
      BY <1>3, <1>7, <2>1
  <1>12. CASE StartOperation
    <2> DEFINE id == Head(queue).id
    <2>1. /\ queue # <<>> /\ Head(queue).name = "StartOperation" /\ id \in Ops /\ id \in RequestIds
          /\ Running
      BY <1>2, <1>12, MessageFacts DEF StartOperation, Dispatch, RequestIds
    <2>2. UNCHANGED <<inbound, replied, state>>
      BY <1>12 DEF StartOperation, machine
    <2>3. \/ /\ Returns(<<>>) /\ UNCHANGED <<active, written>>
             /\ Tell(id, "closed") \/ Tell(id, "notActive")
          \/ Returns(<<>>) /\ UNCHANGED <<active, written, callbacks>>
          \/ Schedule(id, "Write") /\ UNCHANGED callbacks
      BY <1>12 DEF StartOperation, RaiseClosed, RaiseNotActive, managers
    <2>4. Returns(<<>>) => Still(queue', inbound') /\ (Alive' => Alive)
      BY <1>5, <1>6, <1>8, <2>1, <2>2 DEF Returns
    <2>5. CASE Returns(<<>>) /\ UNCHANGED <<active, written, callbacks>>
      BY <1>3, <1>7, <2>2, <2>4, <2>5
    <2>6. CASE /\ Returns(<<>>) /\ UNCHANGED <<active, written>>
               /\ Tell(id, "closed") \/ Tell(id, "notActive")
      <3>1. (id # r => callbacks'[r] = callbacks[r]) /\ (Answered(r) => Answered(r)')
        BY <1>2, <2>1, <2>6, TellHeard
      <3>2. Heard(r)' = Heard(r)
        BY <2>1, <3>1, ConstantsAssumption DEF Heard
      <3>3. QED
        BY <1>3, <2>2, <2>4, <2>6, <3>1, <3>2
    <2>7. CASE Schedule(id, "Write") /\ UNCHANGED callbacks
      <3>1. id = r => r \notin written
        <4>1. ASSUME id = r PROVE r \notin written
          <5>1. 1 \in DOMAIN queue /\ queue[1] = Head(queue)
            BY <1>1, <2>1
          <5>2. Queued(r) /\ OneHome(r)
            BY <2>1, <4>1, <5>1 DEF Queued, HomeInv
          <5>3. r \notin active /\ ~Answered(r)
            BY <5>2 DEF OneHome
          <5>4. QED
            BY <5>3 DEF Channel
        <4>2. QED
          BY <4>1
      <3>2. "Write" # "none" /\ Head(queue).name # "HandleTcpPackage"
        BY <2>1
      <3> HIDE DEF id
      <3>3. QED
        BY <2>1, <2>2, <2>7, <3>1, <3>2, ChannelScheduled
    <2>8. QED
      BY <2>3, <2>5, <2>6, <2>7
  <1>13. CASE StartSubscription
    <2> DEFINE id == Head(queue).id
    <2>1. /\ queue # <<>> /\ Head(queue).name = "StartSubscription" /\ id \in Subs /\ Running
      BY <1>2, <1>13, MessageFacts DEF StartSubscription, Dispatch
    <2>2. UNCHANGED <<inbound, replied, state, callbacks>>
      BY <1>13 DEF StartSubscription, machine, told
    <2>3. \/ Throws("NoCallback") /\ UNCHANGED <<active, written>>
          \/ Returns(<<>>) /\ UNCHANGED <<active, written>>
          \/ Schedule(id, "SubscriptionWrite")
      BY <1>13 DEF StartSubscription, managers
    <2>4. Returns(<<>>) => Still(queue', inbound') /\ (Alive' => Alive)
      BY <1>5, <1>6, <1>8, <2>1, <2>2 DEF Returns
    <2>5. CASE Returns(<<>>) /\ UNCHANGED <<active, written>>
      BY <1>3, <1>7, <2>2, <2>4, <2>5
    <2>6. CASE Throws("NoCallback") /\ UNCHANGED <<active, written>>
      <3>1. ~Alive'
        BY <2>6 DEF Throws, Alive, Running
      <3>2. QED
        BY <1>3, <1>7, <2>2, <2>6, <3>1
    <2>7. CASE Schedule(id, "SubscriptionWrite")
      <3>1. id = r => r \in active \/ r \notin written
        BY <2>1, ConstantsAssumption DEF Channel
      <3>2. "SubscriptionWrite" # "none" /\ Head(queue).name # "HandleTcpPackage"
        BY <2>1
      <3> HIDE DEF id
      <3>3. QED
        BY <2>1, <2>2, <2>7, <3>1, <3>2, ChannelScheduled
    <2>8. QED
      BY <2>3, <2>5, <2>6, <2>7
  <1>14. CASE AnswerHeartbeat
    <2>1. /\ queue # <<>> /\ Head(queue).name = "HandleTcpPackage"
          /\ Head(queue).type = "HeartbeatRequestCommand" /\ Alive
          /\ Returns(<<>>) \/ Throws("Write")
          /\ written' \in {written, written \cup {Head(queue).id}}
      BY <1>14 DEF AnswerHeartbeat, Dispatch, HandlesPackages, Alive
    <2>2. UNCHANGED <<inbound, replied, active, callbacks>>
      BY <1>14 DEF AnswerHeartbeat, managers, told
    <2>3. queue' = Tail(queue)
      BY <1>6, <2>1
    <2>4. Head(queue).id = r => ~(r \in active \/ r \notin written)
      BY <2>1, NextPackage
    <2>5. r \in written' <=> r \in written
      BY <2>1, <2>4
    <2>6. r \in active \/ r \notin written => Still(queue', inbound')
      BY <1>5, <2>1, <2>2, <2>3, <2>4
    <2>7. QED
      BY <1>3, <1>7, <2>1, <2>2, <2>5, <2>6
  <1>15. CASE FinishOperation
    <2> DEFINE id == Head(queue).id
               what == Outcome(Kind[id], Head(queue).type)
    <2>1. /\ queue # <<>> /\ Head(queue).name = "HandleTcpPackage"
          /\ Alive /\ Returns(<<>>) /\ id \in active \cap Ops
          /\ active' = active \ {id} /\ Tell(id, what)
      BY <1>15 DEF FinishOperation, Dispatch, HandlesPackages, Alive, CompleteActive
    <2>2. UNCHANGED <<inbound, replied, written>> /\ queue' = Tail(queue)
      BY <1>6, <1>15, <2>1 DEF FinishOperation, wire
    <2>3. id \in RequestIds
      BY <2>1 DEF RequestIds
    <2> HIDE DEF what
    <2>4. /\ id # r => callbacks'[r] = callbacks[r]
          /\ id = r => callbacks'[r] = Append(callbacks[r], what)
          /\ Answered(r) => Answered(r)'
      BY <1>2, <2>1, <2>3, TellHeard
    <2>5. CASE id # r
      <3>1. Heard(r)' = Heard(r)
        BY <2>4, <2>5 DEF Heard
      <3>2. Still(queue', inbound')
        BY <1>5, <2>1, <2>2, <2>5
      <3>3. QED
        BY <1>3, <2>1, <2>2, <2>4, <2>5, <3>1, <3>2
    <2>6. CASE id = r
      <3>1. r \in written /\ r \in active
        BY <2>1, <2>6, NextPackage
      <3>2. Answered(r)'
        BY <1>2, <2>1, <2>3, <2>6, TellHeard
      <3>3. r \in written' /\ r \notin active' /\ r \in Ops
        BY <2>1, <2>2, <2>6, <3>1
      <3>4. QED
        BY <2>2, <3>2, <3>3 DEF Channel
    <2>7. QED
      BY <2>5, <2>6
  <1>16. CASE FinishSubscription
    <2> DEFINE id == Head(queue).id
               what == Announced(Head(queue).type)
    <2>1. /\ queue # <<>> /\ Head(queue).name = "HandleTcpPackage" /\ Alive
          /\ id \in active \cap Subs
          /\ \/ Tell(id, what) /\ Returns(<<>>)
             \/ Throws("UnreadablePackage")
      BY <1>16 DEF FinishSubscription, Dispatch, HandlesPackages, Alive
    <2>2. UNCHANGED <<inbound, replied, written, active>> /\ queue' = Tail(queue)
      BY <1>6, <1>16, <2>1 DEF FinishSubscription, wire, managers
    <2>3. id \in RequestIds
      BY <2>1 DEF RequestIds
    <2>4. CASE Throws("UnreadablePackage")
      <3>1. ~Alive'
        BY <2>4 DEF Throws, Alive, Running
      <3>2. Answered(r) => Answered(r)'
        BY <1>2, <1>16, <2>3, TellHeard DEF FinishSubscription, Answered
      <3>3. QED
        BY <2>2, <3>1, <3>2 DEF Channel
    <2> HIDE DEF what
    <2>5. CASE Tell(id, what) /\ Returns(<<>>)
      <3>1. /\ id # r => callbacks'[r] = callbacks[r]
            /\ id = r => callbacks'[r] = Append(callbacks[r], what)
            /\ Answered(r) => Answered(r)'
        BY <1>2, <2>3, <2>5, TellHeard
      <3>2. CASE id # r
        <4>1. Heard(r)' = Heard(r)
          BY <3>1, <3>2 DEF Heard
        <4>2. Still(queue', inbound')
          BY <1>5, <2>1, <2>2, <3>2
        <4>3. QED
          BY <1>3, <2>1, <2>2, <3>1, <4>1, <4>2
      <3>3. CASE id = r
        <4>1. Placed(Way(Tail(queue), inbound), r, replied[r], Heard(r) + 1)
          BY <2>1, <3>3, NextPackage
        <4>2. Len(Append(callbacks[r], what)) = Len(callbacks[r]) + 1
          BY <1>1
        <4>3. Heard(r)' = Heard(r) + 1
          BY <2>1, <3>1, <3>3, <4>2 DEF Heard
        <4>4. r \in active' /\ r \in active
          BY <2>1, <2>2, <3>3
        <4>5. QED
          BY <2>2, <4>1, <4>3, <4>4 DEF Channel
      <3>4. QED
        BY <3>2, <3>3
    <2>6. QED
      BY <2>1, <2>4, <2>5
  <1>17. CASE IgnorePackage
    <2>1. /\ queue # <<>> /\ Head(queue).name = "HandleTcpPackage" /\ Running
          /\ ~HandlesPackages \/ Head(queue).id \notin active
          /\ Returns(<<>>)
      BY <1>17 DEF IgnorePackage, Dispatch
    <2>2. UNCHANGED <<inbound, replied, written, active, callbacks, state, crash>>
          /\ queue' = Tail(queue)
      BY <1>6, <1>17, <2>1 DEF IgnorePackage, wire, managers, machine, told, Returns
    <2>3. ASSUME Alive, r \in active \/ r \notin written PROVE Head(queue).id # r
      <3>1. ASSUME Head(queue).id = r PROVE FALSE
        <4>1. r \in active
          BY <2>1, <2>3, <3>1, NextPackage
        <4>2. HandlesPackages
          BY <2>3, <4>1 DEF ActiveConnected, Alive, HandlesPackages
        <4>3. QED
          BY <2>1, <3>1, <4>1, <4>2
      <3>2. QED
        BY <3>1
    <2>4. Alive' => Alive
      BY <1>8, <2>2
    <2>5. Alive' /\ (r \in active \/ r \notin written) => Still(queue', inbound')
      BY <1>5, <2>1, <2>2, <2>3, <2>4
    <2>6. QED
      BY <1>3, <1>7, <2>2, <2>4, <2>5
  <1>18. ASSUME UNCHANGED <<queue, inbound, replied, written, active, state>>, Alive' => Alive,
                Heard(r)' = Heard(r), Answered(r) => Answered(r)'
         PROVE  Channel(r)'
    <2>1. Still(queue', inbound')
      BY <1>18 DEF Still
    <2>2. QED
      BY <1>3, <1>18, <2>1
  <1>19. CASE \/ IdleTick \/ SocketError \/ SocketClose \/ UNCHANGED vars
              \/ \E s \in Subs : EmitUnsubscribe(s)
    <2>1. UNCHANGED <<queue, inbound, replied, written, active, state, callbacks>>
      BY <1>19 DEF IdleTick, EmitUnsubscribe, SocketError, SocketClose, vars, loop, machine,
                   managers, wire, told
    <2>2. UNCHANGED crash \/ crash' \in {"SocketError", "NoCloseCallback"}
      BY <1>19 DEF IdleTick, EmitUnsubscribe, SocketError, SocketClose, vars
    <2>3. Alive' => Alive
      BY <2>1, <2>2 DEF Alive, Running
    <2>4. QED
      BY <1>7, <1>18, <2>1, <2>3
  <1>20. ASSUME NEW p \in Ops, ReportBadArgument(p) PROVE Channel(r)'
    <2>1. UNCHANGED <<queue, inbound, replied, written, active, state, crash>>
          /\ Tell(p, "badArgument") /\ p \in RequestIds
      BY <1>20 DEF ReportBadArgument, loop, machine, managers, wire, RequestIds
    <2>2. (p # r => callbacks'[r] = callbacks[r]) /\ (Answered(r) => Answered(r)')
      BY <1>2, <2>1, TellHeard
    <2>3. Heard(r)' = Heard(r)
      BY <2>2, ConstantsAssumption DEF Heard
    <2>4. QED
      BY <1>8, <1>18, <2>1, <2>2, <2>3
  <1>21. ASSUME NEW m \in Messages, m.name # "HandleTcpPackage", queue' = Append(queue, m),
                UNCHANGED <<inbound, replied, written, active, state, callbacks, crash>>
         PROVE  Channel(r)'
    BY <1>3, <1>4, <1>7, <1>8, <1>21
  <1>22. CASE SocketConnect
    <2>1. queue' = Append(queue, Message("TcpConnectionEstablished", NoId, "none"))
          /\ UNCHANGED <<inbound, replied, written, active, state, callbacks, crash>>
      BY <1>22 DEF SocketConnect, Enqueue, machine, managers, told
    <2>2. QED
      BY <1>2, <1>21, <2>1 DEF ControlNames
  <1>23. CASE SocketData
    <2> DEFINE m == Message("HandleTcpPackage", Head(inbound).id, Head(inbound).type)
    <2>1. /\ inbound # <<>> /\ inbound' = Tail(inbound) /\ queue' = Append(queue, m)
          /\ UNCHANGED <<replied, written, active, state, callbacks, crash>>
          /\ Head(inbound) # Fin
      BY <1>23 DEF SocketData, Enqueue, machine, managers, told
    <2>2. Head(inbound) \in Packages
      BY <1>1, <2>1
    <2>3. /\ m \in Messages /\ m.name = "HandleTcpPackage"
          /\ m.id = Head(inbound).id /\ m.type = Head(inbound).type
      BY <2>2, MessageShapes DEF Message
    <2> HIDE DEF m
    <2>4. Still(Append(queue, m), Tail(inbound))
      BY <1>1, <2>1, <2>3, PlacedData DEF Still
    <2>5. QED
      BY <1>3, <1>7, <1>8, <2>1, <2>4
  <1>24. CASE SocketEnd
    <2>1. /\ inbound # <<>> /\ inbound' = Tail(inbound) /\ Head(inbound) = Fin
          /\ UNCHANGED <<queue, replied, written, active, state, callbacks, crash>>
      BY <1>24 DEF SocketEnd, loop, machine, managers, told
    <2>2. Still(queue, Tail(inbound))
      BY <1>1, <2>1, PlacedEnd DEF Still
    <2>3. QED
      BY <1>3, <1>7, <1>8, <2>1, <2>2
  <1>25. ASSUME NEW p \in Packages \cup {Fin}, p.id # r, Send(p), replied'[r] = replied[r]
         PROVE  Channel(r)'
    <2>1. /\ inbound' = Append(inbound, p)
          /\ UNCHANGED <<queue, written, active, state, callbacks, crash>>
      BY <1>25 DEF Send, loop, machine, managers, told
    <2>2. Still(queue, Append(inbound, p))
      BY <1>1, <1>25, PlacedOther DEF Still
    <2>3. Alive' => Alive
      BY <1>8, <2>1
    <2>4. QED
      BY <1>7, <1>25, <2>1, <2>2, <2>3, ChannelKept DEF Still
  <1>26. ASSUME NEW id \in Ids, NEW type \in PackageTypes, NEW bound, SendUnder(id, type, bound),
                id = r => r \in written /\ type # "HeartbeatRequestCommand"
         PROVE  Channel(r)'
    <2> DEFINE p == [id |-> id, type |-> type]
    <2>1. /\ p \in Packages \cup {Fin} /\ p.id = id /\ p.type = type
          /\ Send(p) /\ replied' = [replied EXCEPT ![id] = Append(@, type)]
      BY <1>26 DEF Packages, SendUnder
    <2> HIDE DEF p
    <2>2. replied \in [Ids -> Seq(PackageTypes)]
      BY DEF TypeOK, WireTypeOK
    <2>3. CASE id # r
      BY <1>1, <1>25, <2>1, <2>2, <2>3
    <2>4. CASE id = r
      <3>1. /\ inbound' = Append(inbound, p)
            /\ UNCHANGED <<queue, written, active, state, callbacks, crash>>
        BY <2>1 DEF Send, loop, machine, managers, told
      <3>2. replied'[r] = Append(replied[r], type)
        BY <1>1, <2>1, <2>2, <2>4
      <3>3. /\ r \in written' /\ (r \in active' <=> r \in active) /\ (Alive' <=> Alive)
            /\ (Answered(r)' <=> Answered(r)) /\ Heard(r)' = Heard(r)
        BY <1>26, <2>4, <3>1 DEF Alive, Running, Answered, Heard
      <3>4. ASSUME Placed(Way(queue, inbound), r, replied[r], Heard(r))
            PROVE  Placed(Way(queue, Append(inbound, p)), r, Append(replied[r], type), Heard(r))
        BY <1>1, <2>1, <2>4, <3>4, PlacedOwn
      <3>5. \A k \in DOMAIN Append(replied[r], type) :
                \/ k \in DOMAIN replied[r] /\ Append(replied[r], type)[k] = replied[r][k]
                \/ Append(replied[r], type)[k] = type
        BY <1>1
      <3>6. \A k \in DOMAIN Append(replied[r], type) :
                Append(replied[r], type)[k] # "HeartbeatRequestCommand"
        BY <1>26, <2>4, <3>5 DEF Channel
      <3>7. Alive' /\ (r \in active' \/ r \notin written') =>
                Placed(Way(queue', inbound'), r, replied'[r], Heard(r)')
        BY <3>1, <3>2, <3>3, <3>4 DEF Channel
      <3>8. /\ r \notin written' => replied'[r] = <<>>
            /\ r \in written' => r \in active' \/ (r \in Ops /\ Answered(r)')
        BY <1>26, <2>4, <3>3 DEF Channel
      <3>9. \A k \in DOMAIN replied'[r] : replied'[r][k] # "HeartbeatRequestCommand"
        BY <3>2, <3>6
      <3>10. QED
        BY <3>7, <3>8, <3>9 DEF Channel
    <2>5. QED
      BY <2>3, <2>4
  <1>27. CASE Server
    <2>1. ASSUME NEW o \in Ops, Reply(o) PROVE Channel(r)'
      <3>1. PICK t \in Replies : SendUnder(o, t, MaxAnswers)
        BY <2>1 DEF Reply
      <3>2. o \in written /\ o \in Ids /\ t \in PackageTypes /\ t # "HeartbeatRequestCommand"
        BY <2>1, ConstantsAssumption DEF Reply, Ids, RequestIds, PackageTypes, ReplyTypes
      <3>3. QED
        BY <1>26, <3>1, <3>2
    <2>2. ASSUME NEW b \in Beats, Beat(b) PROVE Channel(r)'
      <3>1. b \in Ids /\ b # r /\ "HeartbeatRequestCommand" \in PackageTypes
        BY ConstantsAssumption DEF Ids, RequestIds, PackageTypes
      <3>2. QED
        BY <1>26, <2>2, <3>1 DEF Beat
    <2>3. ASSUME NEW s \in Subs, NEW t \in PushTypes, Push(s, t) PROVE Channel(r)'
      <3>1. s \in Ids /\ t \in PackageTypes /\ t # "HeartbeatRequestCommand"
        BY DEF Ids, RequestIds, PackageTypes, PushTypes, Emits
      <3>2. s \in written /\ SendUnder(s, t, MaxPushes)
        BY <2>3 DEF Push
      <3>3. QED
        BY <1>26, <3>1, <3>2
    <2>4. CASE ServerEnd
      <3>1. Fin \in Packages \cup {Fin} /\ Fin.id # r
        BY <1>1, ConstantsAssumption DEF Fin
      <3>2. Send(Fin) /\ replied'[r] = replied[r]
        BY <2>4 DEF ServerEnd
      <3>3. QED
        BY <1>25, <3>1, <3>2
    <2>5. QED
      BY <1>27, <2>1, <2>2, <2>3, <2>4 DEF Server
  <1>28. CASE Program
    <2>1. UNCHANGED <<inbound, replied, written, active, state, callbacks, crash>>
      BY <1>28 DEF Program, Connect, Close, IssueOperation, IssueInvalid, Subscribe, Unsubscribe,
                   machine, managers, wire, told
    <2>2. CASE Connect \/ \E t \in CloseTypes : Close(t)
      <3>1. \E m \in Messages : m.name # "HandleTcpPackage" /\ queue' = Append(queue, m)
        BY <2>2, MessageShapes DEF Connect, Close, Enqueue, Message, ControlNames
      <3>2. QED
        BY <1>21, <2>1, <3>1
    <2>3. ASSUME NEW o \in Ops, IssueOperation(o) PROVE Channel(r)'
      <3>1. /\ queue' = Append(queue, Message("StartOperation", o, "none"))
            /\ Message("StartOperation", o, "none") \in Messages
            /\ Message("StartOperation", o, "none").name # "HandleTcpPackage"
        BY <2>3, MessageShapes DEF IssueOperation, Enqueue, Message
      <3>2. QED
        BY <1>21, <2>1, <3>1
    <2>4. ASSUME NEW s \in Subs, Subscribe(s) PROVE Channel(r)'
      <3>1. /\ queue' = Append(queue, Message("StartSubscription", s, "none"))
            /\ Message("StartSubscription", s, "none") \in Messages
            /\ Message("StartSubscription", s, "none").name # "HandleTcpPackage"
        BY <2>4, MessageShapes DEF Subscribe, Enqueue, Message
      <3>2. QED
        BY <1>21, <2>1, <3>1
    <2>5. CASE UNCHANGED queue
      BY <1>7, <1>8, <1>18, <2>1, <2>5
    <2>6. QED
      BY <1>28, <2>2, <2>3, <2>4, <2>5 DEF Program, IssueInvalid, Unsubscribe, loop
  <1>29. QED
    BY <1>9, <1>10, <1>11, <1>12, <1>13, <1>14, <1>15, <1>16, <1>17, <1>19, <1>20, <1>22,
       <1>23, <1>24, <1>27, <1>28 DEF Next, Immediate, Handler, SocketEvent

\* Only a connected handler enters a request in the active map, and it only closes
\* from then on.
LEMMA ActiveConnectedStep ==
    ASSUME TypeOK, ActiveConnected, [Next]_vars
    PROVE  ActiveConnected'
  <1> USE DEF ActiveConnected
  <1>1. CASE StartConnection
    BY <1>1 DEF StartConnection, Starts, machine, managers
  <1>2. CASE TcpConnectionEstablished
    BY <1>2 DEF TcpConnectionEstablished, machine, managers
  <1>3. CASE StartOperation
    BY <1>3 DEF StartOperation, machine, managers
  <1>4. CASE StartSubscription
    BY <1>4 DEF StartSubscription, machine, managers
  <1>5. CASE CloseConnection
    BY <1>5 DEF CloseConnection
  <1>6. CASE FinishOperation
    <2>1. active' \subseteq active /\ UNCHANGED state /\ active # {}
      BY <1>6 DEF FinishOperation, CompleteActive, machine
    <2>2. QED
      BY <2>1
  <1>7. QED
    BY <1>1, <1>2, <1>3, <1>4, <1>5, <1>6
       DEF Next, Immediate, Handler, EstablishTcpConnection, AnswerHeartbeat,
           FinishSubscription, IgnorePackage, IdleTick, EmitUnsubscribe, ReportBadArgument,
           SocketEvent, SocketConnect, SocketError, SocketData, SocketEnd, SocketClose, Server,
           Reply, Beat, Push, ServerEnd, SendUnder, Send, Program, Connect, Close,
           IssueOperation, IssueInvalid, Subscribe, Unsubscribe, machine, managers, vars

\* The conjuncts of AnswerIsFirstReply and PushesInOrder about one request.
FirstReply(o) ==
    /\ Len(callbacks[o]) <= 1
    /\ callbacks[o] \in {<<"error">>, <<"result">>} =>
          /\ replied[o] # <<>>
          /\ callbacks[o] = <<Outcome(Kind[o], replied[o][1])>>

InPushOrder(s) ==
    /\ Len(callbacks[s]) <= Len(replied[s])
    /\ \A i \in DOMAIN callbacks[s] : callbacks[s][i] = Announced(replied[s][i])

\* The server only adds to what it has sent.
LEMMA RepliesGrow ==
    ASSUME TypeOK, NEW r \in RequestIds, [Next]_vars
    PROVE  /\ replied'[r] = replied[r] \/ \E t \in PackageTypes : replied'[r] = Append(replied[r], t)
           /\ Len(replied[r]) <= Len(replied'[r]) /\ Len(replied[r]) \in Nat
           /\ \A i \in 1..Len(replied[r]) : replied'[r][i] = replied[r][i]
  <1>1. /\ r \in Ids /\ replied \in [Ids -> Seq(PackageTypes)] /\ replied[r] \in Seq(PackageTypes)
    BY DEF TypeOK, WireTypeOK, Ids
  <1>2. replied'[r] = replied[r] \/ \E t \in PackageTypes : replied'[r] = Append(replied[r], t)
    <2>1. ASSUME NEW id \in Ids, NEW t \in PackageTypes, NEW bound, SendUnder(id, t, bound)
          PROVE  replied'[r] \in {replied[r], Append(replied[r], t)}
      BY <1>1, <2>1 DEF SendUnder
    <2>2. CASE Server
      <3>1. Replies \subseteq PackageTypes /\ PushTypes \subseteq PackageTypes
            /\ "HeartbeatRequestCommand" \in PackageTypes
            /\ Ops \subseteq Ids /\ Subs \subseteq Ids /\ Beats \subseteq Ids
        BY ConstantsAssumption DEF PackageTypes, Ids, RequestIds
      <3>2. QED
        BY <2>1, <2>2, <3>1 DEF Server, Reply, Beat, Push, ServerEnd
    <2>3. CASE ~Server
      <3>1. UNCHANGED replied
        BY <2>3 DEF Next, Immediate, Handler, StartConnection, EstablishTcpConnection,
           TcpConnectionEstablished, StartOperation, StartSubscription, CloseConnection,
           AnswerHeartbeat, FinishOperation, FinishSubscription, IgnorePackage, IdleTick,
           EmitUnsubscribe, ReportBadArgument, SocketEvent, SocketConnect, SocketError,
           SocketData, SocketEnd, SocketClose, Program, Connect, Close, IssueOperation,
           IssueInvalid, Subscribe, Unsubscribe, wire, vars
      <3>2. QED
        BY <3>1
    <2>4. QED
      BY <2>2, <2>3
  <1>3. CASE replied'[r] = replied[r]
    BY <1>1, <1>3
  <1>4. CASE \E t \in PackageTypes : replied'[r] = Append(replied[r], t)
    BY <1>1, <1>4
  <1>5. QED
    BY <1>2, <1>3, <1>4

\* What can be told a request in a step: an operation has heard nothing before, and
\* hears of its first answer; a subscription hears of its next package.
LEMMA ToldStep ==
    ASSUME TypeOK, HomeInv, NEW r \in RequestIds, Channel(r), [Next]_vars
    PROVE  \/ callbacks'[r] = callbacks[r]
           \/ /\ r \in Ops /\ callbacks[r] = <<>>
              /\ \/ \E what \in {"closed", "notActive", "badArgument"} : callbacks'[r] = <<what>>
                 \/ /\ 1 \in DOMAIN replied[r] /\ UNCHANGED replied
                    /\ callbacks'[r] = <<Outcome(Kind[r], replied[r][1])>>
           \/ /\ r \in Subs /\ Len(callbacks[r]) + 1 \in DOMAIN replied[r] /\ UNCHANGED replied
              /\ callbacks'[r] = Append(callbacks[r], Announced(replied[r][Len(callbacks[r]) + 1]))
  <1>1. ProgramTypeOK /\ callbacks[r] \in Seq(Notices) /\ queue \in Seq(Messages)
        /\ (queue # <<>> => Head(queue) \in Messages)
    BY DEF TypeOK, ProgramTypeOK, LoopTypeOK
  <1>2. ASSUME NEW o \in Ops, NEW what, Tell(o, what), ~Answered(o)
        PROVE  /\ o # r => callbacks'[r] = callbacks[r]
               /\ o = r => callbacks[r] = <<>> /\ callbacks'[r] = <<what>> /\ r \in Ops
    <2>1. o \in RequestIds
      BY DEF RequestIds
    <2>2. o = r => callbacks[r] = <<>> /\ callbacks'[r] = Append(callbacks[r], what)
      BY <1>1, <1>2, <2>1, TellHeard DEF Answered
    <2>3. Append(<<>>, what) = <<what>>
      OBVIOUS
    <2>4. QED
      BY <1>1, <1>2, <2>1, <2>2, <2>3, TellHeard
  <1>3. CASE StartOperation
    <2> DEFINE id == Head(queue).id
    <2>1. /\ queue # <<>> /\ Head(queue).name = "StartOperation" /\ id \in Ops
      BY <1>1, <1>3, MessageFacts DEF StartOperation, Dispatch
    <2>2. 1 \in DOMAIN queue /\ queue[1] = Head(queue)
      BY <1>1, <2>1
    <2>3. Queued(id) /\ OneHome(id)
      BY <2>1, <2>2 DEF Queued, HomeInv
    <2>4. ~Answered(id)
      BY <2>3 DEF OneHome
    <2>5. UNCHANGED callbacks \/ \E what \in {"closed", "notActive"} : Tell(id, what)
      BY <1>3 DEF StartOperation, RaiseClosed, RaiseNotActive
    <2> HIDE DEF id
    <2>6. QED
      BY <1>2, <2>1, <2>4, <2>5
  <1>4. CASE FinishOperation
    <2> DEFINE id == Head(queue).id
               what == Outcome(Kind[id], Head(queue).type)
    <2>1. /\ queue # <<>> /\ Head(queue).name = "HandleTcpPackage"
          /\ Alive /\ id \in active \cap Ops /\ Tell(id, what) /\ UNCHANGED replied
      BY <1>4 DEF FinishOperation, Dispatch, HandlesPackages, Alive, wire
    <2>2. ~Answered(id)
      BY <2>1 DEF HomeInv, OneHome
    <2>3. ASSUME id = r
          PROVE  1 \in DOMAIN replied[r] /\ what = Outcome(Kind[r], replied[r][1])
      <3>1. Heard(r) = 0
        BY <2>1, <2>3, ConstantsAssumption DEF Heard
      <3>2. Heard(r) + 1 \in DOMAIN replied[r] /\ Head(queue).type = replied[r][Heard(r) + 1]
        BY <2>1, <2>3, NextPackage
      <3>3. Heard(r) + 1 = 1
        BY <3>1
      <3>4. QED
        BY <2>3, <3>2, <3>3
    <2> HIDE DEF id, what
    <2>4. QED
      BY <1>2, <2>1, <2>2, <2>3
  <1>5. CASE FinishSubscription
    <2> DEFINE id == Head(queue).id
               what == Announced(Head(queue).type)
    <2>1. /\ queue # <<>> /\ Head(queue).name = "HandleTcpPackage" /\ Alive
          /\ id \in active \cap Subs /\ UNCHANGED replied
          /\ Tell(id, what) \/ UNCHANGED callbacks
      BY <1>5 DEF FinishSubscription, Dispatch, HandlesPackages, Alive, wire
    <2>2. id \in RequestIds
      BY <2>1 DEF RequestIds
    <2>3. CASE UNCHANGED callbacks
      BY <2>3
    <2>4. CASE Tell(id, what) /\ id # r
      BY <1>1, <2>2, <2>4, TellHeard
    <2>5. CASE Tell(id, what) /\ id = r
      <3>1. callbacks'[r] = Append(callbacks[r], what)
        BY <1>1, <2>2, <2>5, TellHeard
      <3>2. Heard(r) = Len(callbacks[r])
        BY <2>1, <2>5 DEF Heard
      <3>3. Heard(r) + 1 \in DOMAIN replied[r] /\ Head(queue).type = replied[r][Heard(r) + 1]
        BY <2>1, <2>5, NextPackage
      <3>4. QED
        BY <2>1, <2>5, <3>1, <3>2, <3>3
    <2>6. QED
      BY <2>1, <2>3, <2>4, <2>5
  <1>6. ASSUME NEW o \in Ops, ReportBadArgument(o)
        PROVE  \/ callbacks'[r] = callbacks[r]
               \/ r \in Ops /\ callbacks[r] = <<>> /\ callbacks'[r] = <<"badArgument">>
    <2>1. Tell(o, "badArgument") /\ o \in rejected
      BY <1>6 DEF ReportBadArgument
    <2>2. ~Answered(o)
      BY <2>1 DEF HomeInv, OneHome
    <2>3. QED
      BY <1>2, <2>1, <2>2
  <1>7. CASE /\ ~StartOperation /\ ~FinishOperation /\ ~FinishSubscription
             /\ \A o \in Ops : ~ReportBadArgument(o)
    <2>1. UNCHANGED callbacks
      BY <1>7 DEF Next, Immediate, Handler, StartConnection, EstablishTcpConnection,
         TcpConnectionEstablished, StartSubscription, CloseConnection,
         AnswerHeartbeat, IgnorePackage, IdleTick, EmitUnsubscribe, SocketEvent, SocketConnect,
         SocketError, SocketData, SocketEnd, SocketClose, Server, Reply, Beat, Push, ServerEnd,
         SendUnder, Send, Program, Connect, Close, IssueOperation, IssueInvalid, Subscribe,
         Unsubscribe, told, vars
    <2>2. QED
      BY <2>1
  <1>8. QED
    BY <1>3, <1>4, <1>5, <1>6, <1>7

\* What an operation is told stays its first answer,
LEMMA FirstReplyStep ==
    ASSUME TypeOK, HomeInv, NEW o \in Ops, Channel(o), FirstReply(o), [Next]_vars
    PROVE  FirstReply(o)'
  <1>1. o \in RequestIds /\ o \notin Subs /\ callbacks[o] \in Seq(Notices)
    BY ConstantsAssumption DEF RequestIds, TypeOK, ProgramTypeOK
  <1>2. /\ Len(replied[o]) <= Len(replied'[o]) /\ Len(replied[o]) \in Nat
        /\ \A i \in 1..Len(replied[o]) : replied'[o][i] = replied[o][i]
        /\ replied[o] \in Seq(PackageTypes) /\ replied'[o] \in Seq(PackageTypes)
    <2>1. /\ Len(replied[o]) <= Len(replied'[o]) /\ Len(replied[o]) \in Nat
          /\ \A i \in 1..Len(replied[o]) : replied'[o][i] = replied[o][i]
      BY <1>1, RepliesGrow
    <2>2. WireTypeOK'
      BY WireTypeStep
    <2>3. QED
      BY <2>1, <2>2 DEF TypeOK, WireTypeOK, Ids, RequestIds
  <1>3. CASE callbacks'[o] = callbacks[o]
    <2>1. replied[o] # <<>> => replied'[o] # <<>> /\ replied'[o][1] = replied[o][1]
      <3>1. ASSUME replied[o] # <<>> PROVE replied'[o] # <<>> /\ replied'[o][1] = replied[o][1]
        <4>1. 1 \in 1..Len(replied[o]) /\ Len(replied[o]) >= 1
          BY <1>2, <3>1
        <4>2. Len(replied'[o]) >= 1
          BY <1>2, <4>1
        <4>3. QED
          BY <1>2, <4>1, <4>2
      <3>2. QED
        BY <3>1
    <2>2. QED
      BY <1>3, <2>1 DEF FirstReply
  <1>4. ASSUME NEW what \in {"closed", "notActive", "badArgument"}, callbacks'[o] = <<what>>
        PROVE  FirstReply(o)'
    <2>1. Len(<<what>>) = 1 /\ <<what>>[1] = what /\ <<"error">>[1] = "error" /\ <<"result">>[1] = "result"
      OBVIOUS
    <2>2. <<what>> # <<"error">> /\ <<what>> # <<"result">>
      BY <2>1
    <2>3. QED
      BY <1>4, <2>1, <2>2 DEF FirstReply
  <1>5. CASE /\ 1 \in DOMAIN replied[o] /\ UNCHANGED replied
             /\ callbacks'[o] = <<Outcome(Kind[o], replied[o][1])>>
    <2>1. \A x : Len(<<x>>) = 1
      OBVIOUS
    <2>2. replied[o] # <<>>
      BY <1>5
    <2>3. QED
      BY <1>5, <2>1, <2>2 DEF FirstReply
  <1>6. QED
    BY <1>1, <1>3, <1>4, <1>5, ToldStep

\* and what a subscription is told the pushes in their order.
LEMMA PushOrderStep ==
    ASSUME TypeOK, HomeInv, NEW s \in Subs, Channel(s), InPushOrder(s), [Next]_vars
    PROVE  InPushOrder(s)'
  <1>1. s \in RequestIds /\ s \notin Ops /\ callbacks[s] \in Seq(Notices)
    BY ConstantsAssumption DEF RequestIds, TypeOK, ProgramTypeOK
  <1>2. /\ Len(replied[s]) <= Len(replied'[s]) /\ Len(replied[s]) \in Nat
        /\ \A i \in 1..Len(replied[s]) : replied'[s][i] = replied[s][i]
        /\ Len(replied'[s]) \in Nat /\ replied[s] \in Seq(PackageTypes)
    <2>1. /\ Len(replied[s]) <= Len(replied'[s]) /\ Len(replied[s]) \in Nat
          /\ \A i \in 1..Len(replied[s]) : replied'[s][i] = replied[s][i]
      BY <1>1, RepliesGrow
    <2>2. WireTypeOK'
      BY WireTypeStep
    <2>3. replied[s] \in Seq(PackageTypes) /\ replied'[s] \in Seq(PackageTypes)
      BY <2>2 DEF TypeOK, WireTypeOK, Ids, RequestIds
    <2>4. Len(replied'[s]) \in Nat
      BY <2>3
    <2>5. QED
      BY <2>1, <2>3, <2>4
  <1>3. /\ Len(callbacks[s]) \in Nat /\ DOMAIN callbacks[s] = 1..Len(callbacks[s])
        /\ Len(callbacks[s]) <= Len(replied[s])
        /\ \A i \in DOMAIN callbacks[s] : callbacks[s][i] = Announced(replied[s][i])
    BY <1>1 DEF InPushOrder
  <1>4. CASE callbacks'[s] = callbacks[s]
    <2>1. \A i \in DOMAIN callbacks[s] : i \in 1..Len(replied[s])
      BY <1>2, <1>3
    <2>2. \A i \in DOMAIN callbacks[s] : callbacks[s][i] = Announced(replied'[s][i])
      BY <1>2, <1>3, <2>1
    <2>3. Len(callbacks[s]) <= Len(replied'[s])
      BY <1>2, <1>3
    <2>4. QED
      BY <1>4, <2>2, <2>3 DEF InPushOrder
  <1>5. CASE /\ Len(callbacks[s]) + 1 \in DOMAIN replied[s] /\ UNCHANGED replied
             /\ callbacks'[s] = Append(callbacks[s], Announced(replied[s][Len(callbacks[s]) + 1]))
    <2> DEFINE what == Announced(replied[s][Len(callbacks[s]) + 1])
               more == Append(callbacks[s], what)
    <2>1. /\ Len(more) = Len(callbacks[s]) + 1
          /\ \A i \in DOMAIN more : \/ i \in DOMAIN callbacks[s] /\ more[i] = callbacks[s][i]
                                    \/ i = Len(callbacks[s]) + 1 /\ more[i] = what
      <3> HIDE DEF what
      <3>1. QED
        BY <1>1
    <2>2. Len(callbacks[s]) + 1 <= Len(replied[s])
      BY <1>2, <1>3, <1>5
    <2>3. \A i \in DOMAIN more : more[i] = Announced(replied[s][i])
      BY <1>3, <2>1
    <2>4. callbacks'[s] = more /\ replied' = replied
      BY <1>5
    <2> HIDE DEF more
    <2>5. QED
      BY <2>1, <2>2, <2>3, <2>4 DEF InPushOrder
  <1>6. QED
    BY <1>1, <1>4, <1>5, ToldStep

\* The inductive invariant of the requests' channels, next to TypeOK and HomeInv.
ChannelInv ==
    /\ ActiveConnected
    /\ \A r \in RequestIds : Channel(r)
    /\ \A o \in Ops : FirstReply(o)
    /\ \A s \in Subs : InPushOrder(s)

\* At first nothing is on its way.
LEMMA ChannelInit == Init => ChannelInv
  <1> SUFFICES ASSUME Init PROVE ChannelInv
    OBVIOUS
  <1>1. /\ active = {} /\ written = {} /\ queue = <<>> /\ inbound = <<>>
        /\ \A r \in RequestIds : replied[r] = <<>> /\ callbacks[r] = <<>>
    BY DEF Init, Ids
  <1>2. Len(<<>>) = 0 /\ DOMAIN <<>> = {} /\ <<>> \in Seq(Messages)
        /\ <<>> \in Seq(Packages \cup {Fin})
    OBVIOUS
  <1>3. ASSUME NEW r \in RequestIds PROVE Channel(r)
    <2>1. Heard(r) = 0 /\ replied[r] = <<>>
      BY <1>1, <1>2, <1>3 DEF Heard
    <2>2. DOMAIN Way(<<>>, <<>>) = {}
      <3>1. DOMAIN Way(<<>>, <<>>) = 1..(Len(<<>>) + Len(<<>>))
        BY <1>2, WayPlaces
      <3>2. QED
        BY <1>2, <3>1
    <2>3. Placed(Way(<<>>, <<>>), r, <<>>, 0)
      <3> DEFINE way == Way(<<>>, <<>>)
      <3>1. (0 + 1)..Len(<<>>) = {} /\ 0 <= Len(<<>>)
        BY <1>2
      <3> HIDE DEF way
      <3>2. \E f \in [{} -> DOMAIN way] : TRUE
        <4>1. [x \in {} |-> x] \in [{} -> DOMAIN way]
          OBVIOUS
        <4>2. QED
          BY <4>1
      <3>3. \A i \in DOMAIN way : FALSE
        BY <2>2 DEF way
      <3>4. Placed(way, r, <<>>, 0)
        BY <3>1, <3>2, <3>3 DEF Placed
      <3>5. QED
        BY <3>4 DEF way
    <2>4. QED
      BY <1>1, <1>2, <2>1, <2>3 DEF Channel
  <1>4. (\A o \in Ops : FirstReply(o)) /\ (\A s \in Subs : InPushOrder(s))
    <2>1. <<>> # <<"error">> /\ <<>> # <<"result">>
      OBVIOUS
    <2>2. Ops \subseteq RequestIds /\ Subs \subseteq RequestIds
      BY DEF RequestIds
    <2>3. QED
      BY <1>1, <1>2, <2>1, <2>2 DEF FirstReply, InPushOrder
  <1>5. QED
    BY <1>1, <1>3, <1>4 DEF ChannelInv, ActiveConnected

\* It is inductive.
LEMMA ChannelsKept ==
    ASSUME TypeOK, HomeInv, ChannelInv, [Next]_vars
    PROVE  ChannelInv'
  <1>1. Ops \subseteq RequestIds /\ Subs \subseteq RequestIds
    BY DEF RequestIds
  <1>2. ActiveConnected'
    BY ActiveConnectedStep DEF ChannelInv
  <1>3. ASSUME NEW r \in RequestIds PROVE Channel(r)'
    BY ChannelStep DEF ChannelInv
  <1>4. ASSUME NEW o \in Ops PROVE FirstReply(o)'
    BY <1>1, FirstReplyStep DEF ChannelInv
  <1>5. ASSUME NEW s \in Subs PROVE InPushOrder(s)'
    BY <1>1, PushOrderStep DEF ChannelInv
  <1>6. QED
    BY <1>2, <1>3, <1>4, <1>5 DEF ChannelInv

\* Every channel is kept.
LEMMA ChannelsKeptAlways == Spec => []ChannelInv
  <1>1. Init => HomeInv
    BY DEF Init, HomeInv, OneHome, QueuedOnce, Queued, Answered, RequestIds
  <1>2. TypeOK /\ HomeInv /\ [Next]_vars => HomeInv'
    BY HomeStep DEF HomeInv
  <1>3. TypeOK /\ HomeInv /\ ChannelInv /\ [Next]_vars => ChannelInv'
    BY ChannelsKept
  <1>4. QED
    BY <1>1, <1>2, <1>3, ChannelInit, TypeCorrect, PTL DEF Spec

\* An operation is called back once, and if with the server's word then with the
\* first answer the server gave, however late a duplicate comes.
THEOREM FirstReplyAnswers == Spec => []AnswerIsFirstReply
  <1>1. ChannelInv => AnswerIsFirstReply
    BY DEF ChannelInv, FirstReply, AnswerIsFirstReply
  <1>2. QED
    BY <1>1, ChannelsKeptAlways, PTL

\* A subscription is told what the server pushed, in the order it was pushed.
THEOREM PushesArriveInOrder == Spec => []PushesInOrder
  <1>1. ChannelInv => PushesInOrder
    BY DEF ChannelInv, InPushOrder, PushesInOrder
  <1>2. QED
    BY <1>1, ChannelsKeptAlways, PTL

=============================================================================
