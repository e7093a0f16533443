-------------------- MODULE StreamCatchUpSubscriptionProofs --------------------
(***************************************************************************)
(* Proofs about StreamCatchUpSubscription, for every stream, page size,    *)
(* starting point and number of faults.                                    *)
(***************************************************************************)
EXTENDS StreamCatchUpSubscription, CatchUpSubscriptionProofs

-----------------------------------------------------------------------------
(* Types *)

\* The constants are numbers.
LEMMA Numbers ==
    /\ MaxEvents \in Nat /\ StartAfter \in Int /\ StartsAt \in Int /\ StartsAt >= -1
    /\ Events \subseteq Nat /\ PageSize \in Nat /\ PageSize > 0
    /\ StartsAt \in {-1, StartAfter}
BY ConstantsAssumption DEF Events, StartsAt

\* The messages of the subscription are those the shared actions are about.
LEMMA MessagesVocabulary ==
    /\ Vocabulary(Messages)
    /\ \A n \in 0..MaxEvents : Read(n) \in Messages
    /\ \A m \in Messages : m.type = "Page" => /\ m.events \in Seq(Events) /\ m.next \in 0..MaxEvents
                                              /\ Read(m.next) \in Messages
    /\ \A m \in Messages : m.type = "Confirmed" => m.last \in Events \cup {-1}
<1>1. /\ Subscribe \in Messages /\ Unsubscribe \in Messages /\ CloseConnection \in Messages
      /\ Failure \in Messages /\ Dropped \in Messages
  BY DEF Messages
<1>2. \A n \in Events : Event(n) \in Messages
  BY DEF Messages, Event
<1>3. \A n \in 0..MaxEvents : Read(n) \in Messages
  BY DEF Messages, Read
<1>4. \A m \in Messages : /\ m.type = "Page" => m.events \in Seq(Events) /\ m.next \in 0..MaxEvents
                          /\ m.type = "Event" => m.evt \in Events
                          /\ m.type = "Confirmed" => m.last \in Events \cup {-1}
  BY DEF Messages, Subscribe, Unsubscribe, CloseConnection, Failure, NoStream, Dropped
<1> QED
  BY <1>1, <1>2, <1>3, <1>4 DEF Vocabulary

\* What TypeOK says.
LEMMA TypeOKIs ==
    TypeOK <=> /\ Typed(Messages)
               /\ lastProcessed \in Events \cup {-1, StartAfter}
               /\ readUntil \in Events \cup {-1}
BY DEF TypeOK, Typed

\* Shared steps leave what is processed and read alone.
LEMMA SharedLeaves ==
    ASSUME SharedNext
    PROVE  UNCHANGED <<lastProcessed, readUntil>>
<1>1. CASE SharedImmediate
  BY <1>1 DEF SharedImmediate, RunEmitDropped, RunUnsubscribe, IdleTick, SendRequest, HandleFailure,
              HandleEvent, HandleDropped, HandleClose, ThrowClosed, IgnorePackage, subscription
<1> QED
  BY <1>1 DEF SharedNext, Receive, FailRead, Drop, Stop, Close, Answer, subscription

\* The initial states are well typed.
LEMMA InitType == Init => TypeOK
<1> SUFFICES ASSUME Init PROVE TypeOK
  OBVIOUS
<1>1. Read(0) \in Messages /\ 0 \in 0..MaxEvents
  BY Numbers, MessagesVocabulary
<1>2. Typed(Messages)
  BY <1>1, InitTyped DEF Init
<1>3. lastProcessed = StartsAt /\ readUntil = -1
  BY DEF Init, InitWith
<1> QED
  BY <1>2, <1>3, TypeOKIs, Numbers

\* A page is what its read asked for, as far as it was written when it got there.
LEMMA AnswerReadEffect ==
    ASSUME TypeOK, AnswerRead
    PROVE  \E n \in 0..MaxEvents, package \in Messages :
               /\ Answer(Read(n), package) /\ UNCHANGED server
               /\ \/ written = 0 /\ package = NoStream
                  \/ \E next \in 0..written, e \in BOOLEAN :
                         /\ n <= written => n <= next
                         /\ package = Page(EventsFrom(n, next), next, e)
<1>1. /\ written \in Nat /\ written <= MaxEvents /\ PageSize \in Nat /\ PageSize > 0
      /\ MaxEvents \in Nat
  BY TypedFacts, TypeOKIs, Numbers
<1>2. PICK n \in 0..MaxEvents :
          LET atEnd == n + PageSize >= written
              next  == IF atEnd THEN written ELSE n + PageSize
          IN  /\ Answer(Read(n), IF written = 0
                                 THEN NoStream
                                 ELSE Page(EventsFrom(n, next), next, atEnd))
              /\ UNCHANGED server
  BY DEF AnswerRead
<1> DEFINE atEnd == n + PageSize >= written
           next  == IF atEnd THEN written ELSE n + PageSize
<1>3. CASE written = 0
  <2>1. Answer(Read(n), NoStream) /\ UNCHANGED server /\ NoStream \in Messages
    BY <1>2, <1>3 DEF Messages
  <2> QED BY <1>3, <2>1
<1>4. CASE written # 0
  <2>1. Answer(Read(n), Page(EventsFrom(n, next), next, atEnd)) /\ UNCHANGED server
    BY <1>2, <1>4
  <2>2. next \in 0..written /\ (n <= written => n <= next) /\ atEnd \in BOOLEAN
    BY <1>1
  <2>3. EventsFrom(n, next) \in Seq(Events)
    <3> HIDE DEF next
    <3>1. next \in Nat /\ next <= MaxEvents /\ n \in Nat
      BY <1>1, <2>2
    <3>2. CASE n <= next
      BY <3>1, <3>2, EventsFromFacts
    <3>3. CASE next < n
      BY <3>1, <3>3, NoEventsFrom
    <3> QED BY <3>1, <3>2, <3>3
  <2> HIDE DEF next, atEnd
  <2>4. Page(EventsFrom(n, next), next, atEnd) \in Messages
    <3>1. next \in 0..MaxEvents
      BY <1>1, <2>2
    <3> QED BY <2>2, <2>3, <3>1 DEF Messages, Page
  <2> QED BY <2>1, <2>2, <2>4
<1> QED
  BY <1>3, <1>4

\* Every step keeps the types.
LEMMA TypeStep ==
    ASSUME TypeOK, [Next]_vars
    PROVE  TypeOK'
<1>1. /\ Typed(Messages) /\ Vocabulary(Messages)
      /\ lastProcessed \in Events \cup {-1, StartAfter} /\ readUntil \in Events \cup {-1}
  BY TypeOKIs, MessagesVocabulary
<1>2. CASE TryProcess
  <2> DEFINE n == Head(immediates).evt
  <2>1. TryProcessIf(IsNew(n), n)
    BY <1>2 DEF TryProcess
  <2>2. Typed(Messages)'
    BY <1>1, <2>1, TryProcessType
  <2>3. n \in Events
    BY <1>1, <2>1, TaskKinds, TypedFacts, SMTT(30) DEF TryProcessIf, Runs
  <2>4. lastProcessed' \in {lastProcessed, n} /\ readUntil' = readUntil
    BY <2>1 DEF TryProcessIf
  <2> QED BY <1>1, <2>2, <2>3, <2>4, TypeOKIs DEF TypeOK, Typed
<1>3. CASE HandlePage
  <2>1. HandlePageUntil(IsDone(Head(queue)))
    BY <1>3 DEF HandlePage
  <2>2. Typed(Messages)'
    BY <1>1, <2>1, MessagesVocabulary, HandlePageType
  <2>3. UNCHANGED <<lastProcessed, readUntil>>
    BY <2>1 DEF HandlePageUntil
  <2> QED BY <1>1, <2>2, <2>3 DEF TypeOK, Typed
<1>4. CASE HandleNoStream
  <2>1. queue # <<>> /\ immediates # <<>> /\ <<>> \in Seq(Tasks)
    BY <1>1, <1>4, DispatchFacts DEF HandleNoStream, Dispatch
  <2>2. /\ queue' \in Seq(Messages) /\ immediates' \in Seq(Tasks) /\ pass' = "none"
        /\ liveQueue' \in Seq(Events) /\ lives' \in Nat
        /\ liveSub' \in BOOLEAN /\ shouldStop' \in BOOLEAN /\ allowProcessing' \in BOOLEAN
        /\ stops' \in 0..MaxStops /\ stopsAtClose' \in -1..stops'
    BY <1>1, <1>4, <2>1, PassDoneType DEF HandleNoStream
  <2> QED BY <1>4, <2>2 DEF HandleNoStream, TypeOK, SharedTypeOK, wire, server
<1>5. CASE HandleConfirmed
  <2>1. HandleConfirmedBy(Head(queue).last, Read(0)) /\ Read(0) \in Messages
    BY <1>5, MessagesVocabulary, Numbers DEF HandleConfirmed
  <2>2. Typed(Messages)'
    BY <1>1, <2>1, HandleConfirmedType
  <2>3. Head(queue).last \in Events \cup {-1}
    BY <1>1, <2>1, MessagesVocabulary, DispatchFacts DEF HandleConfirmedBy, Dispatch
  <2>4. lastProcessed' = lastProcessed /\ readUntil' = Head(queue).last
    BY <2>1 DEF HandleConfirmedBy
  <2> QED BY <1>1, <2>2, <2>3, <2>4 DEF TypeOK, Typed
<1>6. CASE SharedNext
  <2>1. Typed(Messages)' /\ UNCHANGED <<lastProcessed, readUntil>>
    BY <1>1, <1>6, SharedNextType, SharedLeaves
  <2> QED BY <1>1, <2>1 DEF TypeOK, Typed
<1>7. CASE WriteEvent
  <2>1. WriteUpTo(written + 1) /\ written + 1 \in (written + 1)..MaxEvents
    BY <1>1, <1>7, TypedFacts, Numbers, SMTT(30) DEF WriteEvent
  <2>2. Typed(Messages)'
    BY <1>1, <2>1, WriteType
  <2>3. UNCHANGED <<lastProcessed, readUntil>>
    BY <2>1 DEF WriteUpTo, subscription
  <2> QED BY <1>1, <2>2, <2>3 DEF TypeOK, Typed
<1>8. CASE AnswerRead
  <2>1. PICK n \in 0..MaxEvents, package \in Messages :
            Answer(Read(n), package) /\ UNCHANGED server
    BY <1>8, AnswerReadEffect
  <2>2. UNCHANGED written /\ subscribed' \in BOOLEAN
    BY <1>1, <2>1 DEF server, Typed, SharedTypeOK
  <2>3. Typed(Messages)'
    BY <1>1, <2>1, <2>2, AnswerType
  <2>4. UNCHANGED <<lastProcessed, readUntil>>
    BY <2>1 DEF Answer, subscription
  <2> QED BY <1>1, <2>3, <2>4 DEF TypeOK, Typed
<1>9. CASE Confirm
  <2>1. /\ Answer(Subscribe, Confirmed(written - 1)) /\ UNCHANGED written
        /\ subscribed' \in BOOLEAN
    BY <1>9 DEF Confirm, ConfirmWith
  <2>2. written - 1 \in Events \cup {-1}
    <3>1. written \in Nat /\ written <= MaxEvents
      BY <1>1, TypedFacts
    <3> QED BY <3>1, Numbers DEF Events
  <2>3. Confirmed(written - 1) \in Messages
    BY <2>2 DEF Confirmed, Messages
  <2>4. Typed(Messages)'
    BY <1>1, <2>1, <2>3, AnswerType
  <2>5. UNCHANGED <<lastProcessed, readUntil>>
    BY <2>1 DEF Answer, subscription
  <2> QED BY <1>1, <2>4, <2>5 DEF TypeOK, Typed
<1>10. CASE UNCHANGED vars
  <2>1. Typed(Messages)'
    BY <1>1, <1>10, StutterType
  <2>2. UNCHANGED <<lastProcessed, readUntil>>
    BY <1>10 DEF vars, subscription
  <2> QED BY <1>1, <2>1, <2>2 DEF TypeOK, Typed
<1> QED
  BY <1>2, <1>3, <1>4, <1>5, <1>6, <1>7, <1>8, <1>9, <1>10 DEF Next

\* Every variable holds what the code puts there, whatever the listener does, the server
\* answers and when the connection is closed.
THEOREM TypeCorrect == Spec => []TypeOK
<1> QED BY InitType, TypeStep, PTL DEF Spec

-----------------------------------------------------------------------------
(* One request at a time *)

\* Initially the first read is enqueued.
LEMMA InitProtocolled == Init => Protocol
BY InitProtocol DEF Init

\* Every step leaves one read, subscription or answer at most, of the pass under way.
LEMMA ProtocolStep ==
    ASSUME TypeOK, Protocol, [Next]_vars
    PROVE  Protocol'
<1>1. Typed(Messages) /\ Vocabulary(Messages)
  BY TypeOKIs, MessagesVocabulary
<1>2. CASE TryProcess
  BY <1>1, <1>2, TryProcessProtocol DEF TryProcess
<1>3. CASE HandlePage
  BY <1>1, <1>3, HandlePageProtocol, MessagesVocabulary DEF HandlePage
<1>4. CASE HandleNoStream
  BY <1>1, <1>4, HandleNothingProtocol DEF HandleNoStream
<1>5. CASE HandleConfirmed
  <2>1. Read(0) \in Messages
    BY MessagesVocabulary, Numbers
  <2> QED BY <1>1, <1>5, <2>1, HandleConfirmedProtocol DEF HandleConfirmed
<1>6. CASE SharedNext
  BY <1>1, <1>6, SharedNextProtocol
<1>7. CASE WriteEvent
  <2>1. WriteUpTo(written + 1) /\ written + 1 \in (written + 1)..MaxEvents
    BY <1>1, <1>7, TypedFacts, Numbers, SMTT(30) DEF WriteEvent
  <2> QED BY <1>1, <2>1, WriteProtocol
<1>8. CASE AnswerRead
  <2>1. PICK n \in 0..MaxEvents, package \in Messages :
            /\ Answer(Read(n), package)
            /\ package = NoStream \/ \E next \in 0..written, e \in BOOLEAN :
                                         package = Page(EventsFrom(n, next), next, e)
    BY <1>8, AnswerReadEffect
  <2>2. package.type \in {"NoStream", "Page"}
    BY <2>1 DEF NoStream, Page
  <2>3. Reading(package) /\ ~Subscribing(package) /\ Reading(Read(n))
    BY <2>2, Types DEF Reading, Subscribing
  <2>4. package.type \notin {"Subscribe", "CloseConnection"}
    BY <2>2
  <2> QED BY <1>1, <2>1, <2>3, <2>4, AnswerProtocol
<1>9. CASE Confirm
  <2>1. written - 1 \in Events \cup {-1}
    <3>1. written \in Nat /\ written <= MaxEvents
      BY <1>1, TypedFacts
    <3> QED BY <3>1, Numbers DEF Events
  <2>2. Confirmed(written - 1) \in Messages
    BY <2>1 DEF Confirmed, Messages
  <2> QED BY <1>1, <1>9, <2>2, ConfirmProtocol DEF Confirm
<1>10. CASE UNCHANGED vars
  BY <1>10, StutterProtocol
<1> QED
  BY <1>2, <1>3, <1>4, <1>5, <1>6, <1>7, <1>8, <1>9, <1>10 DEF Next

\* What holds of requests and flags whatever happens to the events.
LEMMA Protocolled == Spec => [](TypeOK /\ Protocol)
<1>1. Init => TypeOK /\ Protocol
  BY InitType, InitProtocolled
<1>2. TypeOK /\ Protocol /\ [Next]_vars => TypeOK' /\ Protocol'
  BY TypeStep, ProtocolStep
<1> QED
  BY <1>1, <1>2, PTL DEF Spec

\* Live events wait only while the second pass is under way, and 'live' is emitted once:
\* no event pushed by the server is left in _liveQueue when processing is allowed.
THEOREM LiveQueueIsDrained == Spec => []LiveQueueDrained
<1>1. TypeOK /\ Protocol => LiveQueueDrained
  BY ProtocolGives, TypeOKIs
<1> QED
  BY <1>1, Protocolled, PTL

\* close() ends the process only when it is called in the first pass of a subscription
\* that has not been stopped: raiseClosed then meets a subscription without a callback.
THEOREM OnlyEarlyClosesThrow == Spec => []OnlyEarlyCloseThrows
<1>1. TypeOK /\ Protocol => OnlyEarlyCloseThrows
  BY ProtocolGives, TypeOKIs
<1> QED
  BY <1>1, Protocolled, PTL

-----------------------------------------------------------------------------
(* No gap *)

\* A confirmation names an event by its number.
Named == [last \in Events \cup {-1} |-> last]

\* The last event processed is the last one handed on.
Processed == lastProcessed = Last(StartsAt)

\* What is read starts where what was handed on ends.
ReadOK(m) ==
    /\ m.type = "Read" => m.at <= written /\ (Unbroken => Reached(StartsAt, m.at - 1))
    /\ m.type = "Page" => /\ m.next <= written
                          /\ \E from \in 0..m.next : /\ m.events = EventsFrom(from, m.next)
                                                     /\ Unbroken => Reached(StartsAt, from - 1)
    /\ m.type = "NoStream" => readUntil = -1

\* So does all that is under way.
Reads == \A m \in Underway : ReadOK(m)

\* Nothing is missing up to the event the second pass reads to.
Gap == Gapless(StartsAt, readUntil, Named)

\* The inductive invariant.
IInv == TypeOK /\ Protocol /\ Processed /\ Reads /\ Gap

\* The numbers of reads and pages.
LEMMA ReadNumbers ==
    ASSUME TypeOK
    PROVE  /\ \A m \in Underway : /\ m \in Messages
                                  /\ m.type = "Read" => m.at \in Nat
                                  /\ m.type = "Page" => m.next \in Nat
           /\ written \in Nat /\ written <= MaxEvents /\ readUntil \in Int /\ Typed(Messages)
<1>1. Typed(Messages) /\ readUntil \in Events \cup {-1}
  BY TypeOKIs
<1>2. written \in Nat /\ written <= MaxEvents /\ requests \subseteq Messages /\ Coming \in Seq(Messages)
  BY <1>1, TypedFacts, ComingFacts
<1>3. \A m \in Underway : m \in Messages
  BY <1>2 DEF Underway
<1>4. \A m \in Messages : /\ m.type = "Read" => m.at \in Nat
                          /\ m.type = "Page" => m.next \in Nat
  BY Numbers DEF Messages, Subscribe, Unsubscribe, CloseConnection, Failure, NoStream, Dropped
<1> QED
  BY <1>1, <1>2, <1>3, <1>4, Numbers

\* What is read stays so while no event is lost of what was reached.
LEMMA ReadsKept ==
    ASSUME TypeOK, Reads, \A n \in Int : Reached(StartsAt, n) => Reached(StartsAt, n)',
           Unbroken' => Unbroken, written' \in Int, written <= written',
           \A m \in Underway : m.type = "NoStream" => readUntil' = readUntil,
           \A m \in Underway' : m \in Underway \/ ReadOK(m)'
    PROVE  Reads'
<1> SUFFICES ASSUME NEW m \in Underway
             PROVE  ReadOK(m)'
  BY DEF Reads
<1>1. ReadOK(m) /\ m.type = "Read" => m.at \in Nat
  BY ReadNumbers DEF Reads
<1>2. m.type = "Read" => m.at <= written' /\ (Unbroken' => Reached(StartsAt, m.at - 1)')
  <2> SUFFICES ASSUME m.type = "Read"
               PROVE  m.at <= written' /\ (Unbroken' => Reached(StartsAt, m.at - 1)')
    OBVIOUS
  <2>1. m.at \in Nat /\ m.at <= written /\ (Unbroken => Reached(StartsAt, m.at - 1))
    BY ReadNumbers DEF Reads, ReadOK
  <2>2. m.at <= written'
    BY <2>1, ReadNumbers
  <2>3. m.at - 1 \in Int
    BY <2>1
  <2> QED BY <2>1, <2>2, <2>3
<1>3. m.type = "Page" => /\ m.next <= written'
                         /\ \E from \in 0..m.next : /\ m.events = EventsFrom(from, m.next)
                                                    /\ Unbroken' => Reached(StartsAt, from - 1)'
  <2> SUFFICES ASSUME m.type = "Page"
               PROVE  /\ m.next <= written'
                      /\ \E from \in 0..m.next : /\ m.events = EventsFrom(from, m.next)
                                                 /\ Unbroken' => Reached(StartsAt, from - 1)'
    OBVIOUS
  <2>1. m.next \in Nat /\ m.next <= written
    BY ReadNumbers DEF Reads, ReadOK
  <2>2. PICK from \in 0..m.next : /\ m.events = EventsFrom(from, m.next)
                                  /\ Unbroken => Reached(StartsAt, from - 1)
    BY DEF Reads, ReadOK
  <2>3. m.next <= written'
    BY <2>1, ReadNumbers
  <2>4. from - 1 \in Int
    BY <2>1
  <2> QED BY <2>2, <2>3, <2>4
<1>4. m.type = "NoStream" => readUntil' = -1
  BY DEF Reads, ReadOK
<1> QED
  BY <1>2, <1>3, <1>4 DEF ReadOK

\* Steps that neither read nor hand on.
LEMMA SharedStep ==
    ASSUME IInv, TypeOK', SharedNext
    PROVE  Processed' /\ Reads' /\ Gap'
<1>1. Typed(Messages) /\ Typed(Messages)' /\ Vocabulary(Messages) /\ StartsAt \in Int
      /\ readUntil \in Int /\ written \in Nat
  BY MessagesVocabulary, Numbers, ReadNumbers, TypeOKIs DEF IInv, TypeOK, Typed
<1>2. UNCHANGED <<lastProcessed, readUntil>>
  BY SharedLeaves
<1>3. PICK u \in Int : u = readUntil /\ u = readUntil'
  BY <1>1, <1>2
<1>4. Protocol /\ Gapless(StartsAt, u, Named)
  BY <1>3 DEF IInv, Gap
<1>5. /\ Gapless(StartsAt, u, Named)'
      /\ \A n \in Int : Reached(StartsAt, n) => Reached(StartsAt, n)'
      /\ Unbroken' => Unbroken
      /\ Underway' \subseteq Underway \cup Orders \cup {Subscribe}
      /\ UNCHANGED <<delivered, written>>
  BY <1>1, <1>4, SharedGapless
<1>6. Gap'
  BY <1>3, <1>5 DEF Gap
<1>7. Processed'
  BY <1>2, <1>5 DEF IInv, Processed, Last
<1>8. Reads'
  <2>1. \A m \in Orders \cup {Subscribe} : m.type \notin {"Read", "Page", "NoStream"}
    BY Types DEF Orders
  <2>2. \A m \in Orders \cup {Subscribe} : ReadOK(m)'
    BY <2>1 DEF ReadOK
  <2>3. \A m \in Underway' : m \in Underway \/ ReadOK(m)'
    BY <1>5, <2>2
  <2> QED BY <1>1, <1>2, <1>5, <2>3, ReadsKept DEF IInv
<1> QED
  BY <1>6, <1>7, <1>8

\* An event is handed on, or filtered out.
LEMMA TryProcessStep ==
    ASSUME IInv, TypeOK', TryProcess
    PROVE  Processed' /\ Reads' /\ Gap'
<1>1. Typed(Messages) /\ Typed(Messages)' /\ Vocabulary(Messages) /\ StartsAt \in Int
      /\ readUntil \in Int /\ written \in Nat
  BY MessagesVocabulary, Numbers, ReadNumbers, TypeOKIs DEF IInv, TypeOK, Typed
<1>2. PICK e : e = Head(immediates).evt
  OBVIOUS
<1>3. TryProcessIf(e > lastProcessed, e) /\ lastProcessed = Last(StartsAt)
  BY <1>2 DEF TryProcess, IsNew, IInv, Processed
<1>4. PICK new \in BOOLEAN : new <=> e > lastProcessed
  OBVIOUS
<1>5. TryProcessIf(new, e) /\ (new <=> Head(immediates).evt > Last(StartsAt))
  BY <1>2, <1>3, <1>4 DEF TryProcessIf
<1>6. /\ UNCHANGED <<readUntil, written, promised, liveSub, queue, inbound, requests>>
      /\ lastProcessed' = IF new THEN e ELSE lastProcessed
  BY <1>5 DEF TryProcessIf, flags, wire, server
<1>7. PICK u \in Int : u = readUntil /\ u = readUntil'
  BY <1>1, <1>6
<1>8. Gapless(StartsAt, u, Named)
  BY <1>7 DEF IInv, Gap
<1>9. Gapless(StartsAt, u, Named)'
  BY <1>1, <1>5, <1>8, TriedGapless
<1>10. /\ \A n \in Int : Reached(StartsAt, n) => Reached(StartsAt, n)'
       /\ Last(StartsAt)' = IF new THEN e ELSE Last(StartsAt)
  BY <1>1, <1>2, <1>5, TriedReach
<1>11. Gap'
  BY <1>7, <1>9 DEF Gap
<1>12. Processed'
  BY <1>3, <1>6, <1>10 DEF Processed
<1>13. Reads'
  <2>1. Underway' = Underway
    BY <1>6 DEF Underway, Coming
  <2>2. Unbroken' => Unbroken
    BY <1>6 DEF Unbroken
  <2> QED BY <1>1, <1>6, <1>10, <2>1, <2>2, ReadsKept DEF IInv
<1> QED
  BY <1>11, <1>12, <1>13

\* A page is handled.
LEMMA HandlePageStep ==
    ASSUME IInv, TypeOK', HandlePage
    PROVE  Processed' /\ Reads' /\ Gap'
<1>1. Typed(Messages) /\ Typed(Messages)' /\ Vocabulary(Messages) /\ StartsAt \in Int
      /\ readUntil \in Int /\ written \in Nat
      /\ \A m \in Messages : m.type = "Page" => Read(m.next) \in Messages
  BY MessagesVocabulary, Numbers, ReadNumbers, TypeOKIs DEF IInv, TypeOK, Typed
<1>2. PICK p : p = Head(queue)
  OBVIOUS
<1>3. /\ HandlePageUntil(IsDone(Head(queue)))
      /\ p.type = "Page" /\ p \in Underway
  BY <1>1, <1>2, HandlerRuns DEF HandlePage, HandlePageUntil, Dispatch
<1>4. /\ UNCHANGED <<lastProcessed, readUntil, delivered, written, promised>>
      /\ UNCHANGED <<wire, server>>
  BY <1>3 DEF HandlePageUntil, server
<1>5. p.next \in Nat /\ p.next <= written
  BY <1>3, ReadNumbers DEF IInv, Reads, ReadOK
<1>6. PICK from \in 0..p.next : /\ p.events = EventsFrom(from, p.next)
                                /\ Unbroken => Reached(StartsAt, from - 1)
  BY <1>3 DEF IInv, Reads, ReadOK
<1>7. PICK u \in Int : u = readUntil /\ u = readUntil'
  BY <1>1, <1>4
<1>8. Protocol /\ Gapless(StartsAt, u, Named)
  BY <1>7 DEF IInv, Gap
<1>9. PICK b \in Nat : b = p.next
  BY <1>5
<1>10. /\ from \in Nat /\ from <= b /\ b <= written
       /\ Head(queue).events = EventsFrom(from, b)
       /\ IsDone(Head(queue)) /\ pass = "second" => b - 1 >= u
  <2>1. IsDone(Head(queue)) /\ pass = "second" => b > u
    BY <1>2, <1>7, <1>9 DEF IsDone
  <2> QED BY <1>2, <1>5, <1>6, <1>9, <2>1
<1>11. PICK done : done = IsDone(Head(queue))
  OBVIOUS
<1>12. /\ Gapless(StartsAt, u, Named)'
       /\ \A n \in Int : Reached(StartsAt, n) => Reached(StartsAt, n)'
       /\ \/ Underway' \subseteq Underway \cup {Subscribe}
          \/ /\ Underway' \subseteq Underway \cup {Read(Head(queue).next)}
             /\ Unbroken => Reached(StartsAt, b - 1)'
  <2>1. HandlePageUntil(done) /\ (done /\ pass = "second" => b - 1 >= u)
    BY <1>3, <1>10, <1>11
  <2> QED BY <1>1, <1>6, <1>8, <1>10, <2>1, HandlePageGapless
<1>13. Gap'
  BY <1>7, <1>12 DEF Gap
<1>14. Processed'
  BY <1>4 DEF IInv, Processed, Last
<1>15. Unbroken' => Unbroken
  <2>1. liveSub => liveSub'
    BY <1>3 DEF HandlePageUntil, PassDone, FirstPassDone, SecondPassDone
  <2> QED BY <1>4, <2>1 DEF Unbroken
<1>16. Reads'
  <2>1. ReadOK(Subscribe)'
    BY Types DEF ReadOK
  <2>2. (Unbroken => Reached(StartsAt, b - 1)') => ReadOK(Read(b))'
    <3>1. Read(b).type = "Read" /\ Read(b).at = b
      BY DEF Read
    <3> QED BY <1>4, <1>10, <1>15, <3>1 DEF ReadOK
  <2>3. \A m \in Underway' : m \in Underway \/ ReadOK(m)'
    BY <1>2, <1>9, <1>12, <2>1, <2>2
  <2> QED BY <1>1, <1>4, <1>12, <1>15, <2>3, ReadsKept DEF IInv
<1> QED
  BY <1>13, <1>14, <1>16

\* The stream did not exist, and so no event has been confirmed.
LEMMA HandleNoStreamStep ==
    ASSUME IInv, TypeOK', HandleNoStream
    PROVE  Processed' /\ Reads' /\ Gap'
<1>1. Typed(Messages) /\ Typed(Messages)' /\ Vocabulary(Messages) /\ StartsAt \in Int
      /\ readUntil \in Int /\ written \in Nat /\ StartsAt >= -1
  BY MessagesVocabulary, Numbers, ReadNumbers, TypeOKIs DEF IInv, TypeOK, Typed
<1>2. /\ DispatchIn("Connected", "NoStream") /\ queue # <<>> /\ PassDone(<<>>)
      /\ Head(queue).type = "NoStream" /\ Head(queue) \in Underway
  BY <1>1, HandlerRuns DEF HandleNoStream, Dispatch
<1>3. /\ UNCHANGED <<lastProcessed, readUntil, delivered, written, promised, connection>>
      /\ UNCHANGED <<wire, server>>
  BY DEF HandleNoStream, server
<1>4. PICK u \in Int : u = readUntil /\ u = readUntil'
  BY <1>1, <1>3
<1>5. Protocol /\ Gapless(StartsAt, u, Named) /\ u = -1
  BY <1>2, <1>4 DEF IInv, Gap, Reads, ReadOK
<1>6. liveSub => liveSub'
  BY <1>1, <1>2, <1>3, PassDoneUnderway
<1>7. Unbroken' => Unbroken
  BY <1>3, <1>6 DEF Unbroken
<1>8. Unbroken => Reached(StartsAt, u)
  <2> SUFFICES ASSUME Unbroken PROVE Reached(StartsAt, u)
    OBVIOUS
  <2>1. Last(StartsAt) = StartsAt + Len(delivered)
    BY <1>1, <1>5, LastIsNumber DEF Gapless, InLine
  <2>2. Len(delivered) \in Nat
    BY <1>1, TypedFacts
  <2>3. u <= Last(StartsAt)
    BY <1>1, <1>5, <2>1, <2>2
  <2> QED BY <2>3 DEF Reached, ReachedIn
<1>9. /\ Gapless(StartsAt, u, Named)'
      /\ \A n \in Int : Reached(StartsAt, n) => Reached(StartsAt, n)'
  <2>1. /\ "NoStream" \in {"Read", "Page", "Failure", "NoStream"}
        /\ UNCHANGED <<delivered, connection, wire, server>>
        /\ promised' = -1 => promised = -1
        /\ Unbroken' /\ pass = "second" => Reached(StartsAt, u)
    BY <1>3, <1>7, <1>8
  <2> QED BY <1>1, <1>2, <1>5, <2>1, EmptyPassGapless
<1>10. Gap' /\ Processed'
  BY <1>3, <1>4, <1>9 DEF Gap, IInv, Processed, Last
<1>11. Reads'
  <2>1. Underway' \subseteq Underway \cup {Subscribe}
    BY <1>1, <1>2, <1>3, PassDoneUnderway
  <2>2. ReadOK(Subscribe)'
    BY Types DEF ReadOK
  <2> QED BY <1>1, <1>3, <1>7, <1>9, <2>1, <2>2, ReadsKept DEF IInv
<1> QED
  BY <1>10, <1>11

\* Every subscription starts after event -1.
LEMMA StartReached ==
    ASSUME TypeOK
    PROVE  Reached(StartsAt, -1)
<1>1. delivered \in Seq(Events)
  BY TypeOKIs, TypedFacts
<1>2. Last(StartsAt) \in Int /\ Last(StartsAt) >= -1
  <2>1. CASE delivered = <<>>
    BY <2>1, Numbers DEF Last
  <2>2. CASE delivered # <<>>
    <3>1. delivered[Len(delivered)] \in Events
      BY <1>1, <2>2
    <3>2. delivered[Len(delivered)] \in Nat
      BY <3>1, Numbers
    <3> QED BY <2>2, <3>2 DEF Last
  <2> QED BY <2>1, <2>2
<1> QED
  BY <1>2 DEF Reached, ReachedIn

\* The second pass starts to read, up to what the confirmation names.
LEMMA HandleConfirmedStep ==
    ASSUME IInv, TypeOK', Protocol', HandleConfirmed
    PROVE  Processed' /\ Reads' /\ Gap'
<1>1. Typed(Messages) /\ Typed(Messages)' /\ Vocabulary(Messages) /\ StartsAt \in Int
      /\ readUntil \in Int /\ written \in Nat /\ Read(0) \in Messages
  BY MessagesVocabulary, Numbers, ReadNumbers, TypeOKIs DEF IInv, TypeOK, Typed
<1>2. PICK x : x = Head(queue).last
  OBVIOUS
<1>3. HandleConfirmedBy(x, Read(0)) /\ DispatchIn("Connected", "Confirmed")
  BY <1>2 DEF HandleConfirmed, HandleConfirmedBy, Dispatch
<1>4. /\ queue # <<>> /\ immediates # <<>> /\ ~IsTry(Head(immediates))
      /\ Head(queue) \in Messages /\ Head(queue).type = "Confirmed"
      /\ 1 \in DOMAIN Coming /\ Coming[1] = Head(queue)
  BY <1>1, <1>3, HandlerRuns
<1>5. x \in Events \cup {-1} /\ x \in Int
  <2>1. \A m \in Messages : m.type = "Confirmed" => m.last \in Events \cup {-1}
    BY MessagesVocabulary
  <2>2. x \in Events \cup {-1}
    BY <1>2, <1>4, <2>1
  <2> QED BY <2>2, Numbers
<1>6. /\ UNCHANGED <<lastProcessed, delivered, written, promised, liveSub, inbound, requests>>
      /\ Schedules(<<>>, <<Read(0)>>) /\ readUntil' = x
  BY <1>3 DEF HandleConfirmedBy, wire, server, seen
<1>7. PICK u \in Int : u = readUntil
  BY <1>1
<1>8. Protocol /\ Gapless(StartsAt, u, Named)
  BY <1>7 DEF IInv, Gap
<1>9. x = Named[Head(queue).last]
  BY <1>2, <1>5 DEF Named
<1>10. Gapless(StartsAt, x, Named)'
  BY <1>1, <1>3, <1>5, <1>8, <1>9, HandleConfirmedGapless
<1>11. Gap'
  BY <1>6, <1>10 DEF Gap
<1>12. Processed'
  BY <1>6 DEF IInv, Processed, Last
<1>13. <<Read(0)>> \in Seq(Messages)
  BY <1>1
<1>14. \A n \in Int : Reached(StartsAt, n)' <=> Reached(StartsAt, n)
  BY <1>1, <1>4, <1>6, <1>13, IdleHandlerReach
<1>15. Underway' \subseteq Underway \cup {Read(0)}
  <2>1. queue' = Tail(queue) \o <<Read(0)>>
    BY <1>6 DEF Schedules
  <2>2. PICK more : more = <<Read(0)>>
    OBVIOUS
  <2>3. more \in Seq(Messages) /\ queue' = Tail(queue) \o more
    BY <1>13, <2>1, <2>2
  <2>4. Underway' \subseteq Underway \cup {more[i] : i \in DOMAIN more}
    BY <1>1, <1>4, <1>6, <2>3, HandledUnderway
  <2>5. \A i \in DOMAIN more : more[i] = Read(0)
    BY <2>2
  <2> QED BY <2>4, <2>5
<1>16. ReadOK(Read(0))'
  <2>1. Read(0).type = "Read" /\ Read(0).at = 0 /\ 0 - 1 = -1
    BY DEF Read
  <2>2. Reached(StartsAt, -1)'
    BY <1>14, StartReached DEF IInv
  <2>3. 0 <= written'
    BY <1>1, <1>6
  <2> QED BY <2>1, <2>2, <2>3 DEF ReadOK
<1>17. \A m \in Underway : m.type # "NoStream"
  <2>1. Control(Coming[1])
    BY <1>4 DEF Control, Subscribing
  <2>2. \A m : m.type = "NoStream" => Control(m)
    BY DEF Control, Reading
  <2> QED BY <1>4, <1>8, <2>1, <2>2 DEF Protocol, OneControl, Underway
<1>18. Reads'
  <2>1. Unbroken' => Unbroken
    BY <1>6 DEF Unbroken
  <2>2. \A m \in Underway' : m \in Underway \/ ReadOK(m)'
    BY <1>15, <1>16
  <2> QED BY <1>1, <1>6, <1>14, <1>17, <2>1, <2>2, ReadsKept DEF IInv
<1> QED
  BY <1>11, <1>12, <1>18

\* An event is written, and pushed to the subscription.
LEMMA WriteEventStep ==
    ASSUME IInv, TypeOK', WriteEvent
    PROVE  Processed' /\ Reads' /\ Gap'
<1>1. Typed(Messages) /\ Typed(Messages)' /\ Vocabulary(Messages) /\ StartsAt \in Int
      /\ readUntil \in Int /\ written \in Nat /\ MaxEvents \in Nat
  BY MessagesVocabulary, Numbers, ReadNumbers, TypeOKIs DEF IInv, TypeOK, Typed
<1>2. WriteUpTo(written + 1) /\ written + 1 \in (written + 1)..MaxEvents
  BY <1>1 DEF WriteEvent
<1>3. UNCHANGED <<lastProcessed, readUntil>>
  BY <1>2 DEF WriteUpTo, subscription
<1>4. PICK n \in (written + 1)..MaxEvents : WriteUpTo(n)
  BY <1>2
<1>5. PICK u \in Int : u = readUntil /\ u = readUntil'
  BY <1>1, <1>3
<1>6. Gapless(StartsAt, u, Named)
  BY <1>5 DEF IInv, Gap
<1>7. Gapless(StartsAt, u, Named)'
  BY <1>1, <1>4, <1>6, WriteGapless
<1>8. /\ \A m \in Underway' : m \in Underway \/ m.type = "Event"
      /\ UNCHANGED <<immediates, delivered, promised, liveSub, pass>>
      /\ written' = n /\ written < n
  BY <1>1, <1>4, WriteUnderway
<1>9. Gap'
  BY <1>5, <1>7 DEF Gap
<1>10. Processed'
  BY <1>3, <1>8 DEF IInv, Processed, Last
<1>11. Reads'
  <2>1. \A k \in Int : Reached(StartsAt, k)' <=> Reached(StartsAt, k)
    BY <1>1, <1>8, SameReach
  <2>2. Unbroken' => Unbroken
    BY <1>8 DEF Unbroken
  <2>3. \A m \in Underway' : m \in Underway \/ ReadOK(m)'
    BY <1>8 DEF ReadOK
  <2>4. written' \in Int /\ written <= written'
    BY <1>1, <1>8
  <2> QED BY <1>3, <2>1, <2>2, <2>3, <2>4, ReadsKept DEF IInv
<1> QED
  BY <1>9, <1>10, <1>11

\* A read is answered.
LEMMA AnswerReadStep ==
    ASSUME IInv, TypeOK', AnswerRead
    PROVE  Processed' /\ Reads' /\ Gap'
<1>1. Typed(Messages) /\ Typed(Messages)' /\ Vocabulary(Messages) /\ StartsAt \in Int
      /\ readUntil \in Int /\ written \in Nat
  BY MessagesVocabulary, Numbers, ReadNumbers, TypeOKIs DEF IInv, TypeOK, Typed
<1>2. PICK n \in 0..MaxEvents, package \in Messages :
          /\ Answer(Read(n), package) /\ UNCHANGED server
          /\ \/ written = 0 /\ package = NoStream
             \/ \E next \in 0..written, e \in BOOLEAN :
                    /\ n <= written => n <= next
                    /\ package = Page(EventsFrom(n, next), next, e)
  BY AnswerReadEffect DEF IInv
<1>3. UNCHANGED <<lastProcessed, readUntil, written, subscribed>>
  BY <1>2 DEF Answer, subscription, server
<1>4. PICK u \in Int : u = readUntil /\ u = readUntil'
  BY <1>1, <1>3
<1>5. Gapless(StartsAt, u, Named)
  BY <1>4 DEF IInv, Gap
<1>6. package.type \in {"NoStream", "Page"}
  BY <1>2 DEF NoStream, Page
<1>7. Gapless(StartsAt, u, Named)'
  <2>1. /\ package.type # "Event" /\ ~Subscribing(package) /\ package.type # "Confirmed"
        /\ subscribed' => subscribed
    BY <1>3, <1>6 DEF Subscribing
  <2> QED BY <1>1, <1>2, <1>3, <1>5, <2>1, AnswerGapless
<1>8. /\ Underway' \subseteq Underway \cup {package} /\ Read(n) \in Underway
      /\ UNCHANGED <<immediates, delivered, promised, liveSub, pass>>
  BY <1>1, <1>2, AnswerUnderway
<1>9. Gap'
  BY <1>4, <1>7 DEF Gap
<1>10. Processed'
  BY <1>3, <1>8 DEF IInv, Processed, Last
<1>11. \A k \in Int : Reached(StartsAt, k)' <=> Reached(StartsAt, k)
  BY <1>1, <1>8, SameReach
<1>12. Unbroken' => Unbroken
  BY <1>8 DEF Unbroken
<1>13. n \in Nat /\ n <= written /\ (Unbroken => Reached(StartsAt, n - 1))
  <2>1. ReadOK(Read(n)) /\ Read(n).type = "Read" /\ Read(n).at = n
    BY <1>8 DEF IInv, Reads, Read
  <2> QED BY <2>1, Numbers DEF ReadOK
<1>14. ReadOK(package)'
  <2>1. CASE written = 0 /\ package = NoStream
    <3>1. package.type = "NoStream"
      BY <2>1 DEF NoStream
    <3>2. u = -1
      BY <1>1, <1>5, <2>1 DEF Gapless, Exist
    <3> QED BY <1>4, <3>1, <3>2 DEF ReadOK
  <2>2. ASSUME NEW next \in 0..written, NEW e \in BOOLEAN,
               n <= written => n <= next, package = Page(EventsFrom(n, next), next, e)
        PROVE  ReadOK(package)'
    <3>1. package.type = "Page" /\ package.next = next /\ package.events = EventsFrom(n, next)
      BY <2>2 DEF Page
    <3>2. next \in Nat /\ next <= written' /\ n \in 0..next /\ n - 1 \in Int
      BY <1>1, <1>3, <1>13, <2>2
    <3>3. Unbroken' => Reached(StartsAt, n - 1)'
      BY <1>11, <1>12, <1>13, <3>2
    <3> QED BY <3>1, <3>2, <3>3 DEF ReadOK
  <2> QED BY <1>2, <2>1, <2>2
<1>15. Reads'
  <2>1. \A m \in Underway' : m \in Underway \/ ReadOK(m)'
    BY <1>8, <1>14
  <2>2. written' \in Int /\ written <= written'
    BY <1>1, <1>3
  <2> QED BY <1>3, <1>11, <1>12, <2>1, <2>2, ReadsKept DEF IInv
<1> QED
  BY <1>9, <1>10, <1>15

\* The subscription is confirmed.
LEMMA ConfirmStep ==
    ASSUME IInv, TypeOK', Confirm
    PROVE  Processed' /\ Reads' /\ Gap'
<1>1. Typed(Messages) /\ Typed(Messages)' /\ Vocabulary(Messages) /\ StartsAt \in Int
      /\ readUntil \in Int /\ written \in Nat /\ written <= MaxEvents
  BY MessagesVocabulary, Numbers, ReadNumbers, TypeOKIs DEF IInv, TypeOK, Typed
<1>2. PICK x : x = written - 1
  OBVIOUS
<1>3. Answer(Subscribe, Confirmed(x)) /\ subscribed' = TRUE /\ UNCHANGED written
  BY <1>2 DEF Confirm, ConfirmWith
<1>4. x \in Events \cup {-1}
  BY <1>1, <1>2, Numbers DEF Events
<1>5. PICK package \in Messages : package = Confirmed(x)
  BY <1>4 DEF Confirmed, Messages
<1>6. package.type = "Confirmed" /\ package.last = x /\ Named[x] = x
  BY <1>4, <1>5 DEF Confirmed, Named
<1>7. UNCHANGED <<lastProcessed, readUntil>>
  BY <1>3 DEF Answer, subscription
<1>8. PICK u \in Int : u = readUntil /\ u = readUntil'
  BY <1>1, <1>7
<1>9. Gapless(StartsAt, u, Named)
  BY <1>8 DEF IInv, Gap
<1>10. Gapless(StartsAt, u, Named)'
  <2>1. Subscribing(Subscribe) /\ Answer(Subscribe, package) /\ package.type # "Event"
        /\ Named[package.last] = written - 1
    BY <1>2, <1>3, <1>5, <1>6, Types DEF Subscribing
  <2> QED BY <1>1, <1>3, <1>6, <1>9, <2>1, AnswerGapless
<1>11. /\ Underway' \subseteq Underway \cup {package}
       /\ UNCHANGED <<immediates, delivered, promised, liveSub, pass>>
  BY <1>1, <1>3, <1>5, AnswerUnderway
<1>12. Gap'
  BY <1>8, <1>10 DEF Gap
<1>13. Processed'
  BY <1>7, <1>11 DEF IInv, Processed, Last
<1>14. Reads'
  <2>1. \A k \in Int : Reached(StartsAt, k)' <=> Reached(StartsAt, k)
    BY <1>1, <1>11, SameReach
  <2>2. Unbroken' => Unbroken
    BY <1>11 DEF Unbroken
  <2>3. ReadOK(package)'
    BY <1>6 DEF ReadOK
  <2>4. \A m \in Underway' : m \in Underway \/ ReadOK(m)'
    BY <1>11, <2>3
  <2>5. written' \in Int /\ written <= written'
    BY <1>1, <1>3
  <2> QED BY <1>7, <2>1, <2>2, <2>4, <2>5, ReadsKept DEF IInv
<1> QED
  BY <1>12, <1>13, <1>14

\* Nothing happens.
LEMMA StutterStep ==
    ASSUME IInv, UNCHANGED vars
    PROVE  Processed' /\ Reads' /\ Gap'
BY SMTT(30) DEF IInv, Processed, Reads, Gap, ReadOK, Gapless, Exist, InLine, Underway, Coming, Last, Reached,
       Unbroken, QueueChain, ComingChain, Pushed, Held, vars, subscription, flags, node, wire,
       server, program, seen

\* Initially nothing has been handed on, and the first read starts at the first event.
LEMMA InitHolds == Init => IInv
<1> SUFFICES ASSUME Init PROVE IInv
  OBVIOUS
<1>1. TypeOK /\ Protocol
  BY InitType, InitProtocolled
<1>2. /\ lastProcessed = StartsAt /\ delivered = <<>> /\ immediates = <<Process>>
      /\ queue = <<Read(0)>> /\ inbound = <<>> /\ requests = {} /\ ~subscribed /\ liveQueue = <<>>
      /\ readUntil = -1 /\ lives = 0
  BY DEF Init, InitWith
<1>3. written \in Nat /\ StartsAt \in Int /\ StartsAt >= -1
  BY <1>1, ReadNumbers, Numbers
<1>4. Processed
  BY <1>2 DEF Processed, Last
<1>5. Coming = <<Read(0)>>
  BY <1>2 DEF Coming
<1>6. Underway = {Read(0)}
  BY <1>2, <1>5 DEF Underway
<1>7. Reads
  <2>1. Read(0).type = "Read" /\ Read(0).at = 0
    BY DEF Read
  <2>2. 0 - 1 = -1 /\ 0 <= written
    BY <1>3
  <2> QED BY <1>1, <1>6, <2>1, <2>2, StartReached DEF Reads, ReadOK
<1>8. Exist(-1, Named)
  <2>1. ~IsTry(Process) /\ Read(0).type = "Read" /\ ~Subscribing(Read(0))
    BY TaskEvents, Types DEF Subscribing
  <2>2. -1 \in -1..(written - 1)
    BY <1>3
  <2>3. \A i \in DOMAIN immediates : immediates[i] = Process
    BY <1>2
  <2>4. DOMAIN liveQueue = {}
    BY <1>2
  <2> QED BY <1>6, <2>1, <2>2, <2>3, <2>4 DEF Exist
<1>9. InLine(StartsAt, -1, Named)
  <2>1. DOMAIN delivered = {} /\ DOMAIN liveQueue = {}
    BY <1>2
  <2>2. Chain(immediates, Last(StartsAt))
    <3>1. \A i \in DOMAIN immediates : immediates[i] = Process
      BY <1>2
    <3> QED BY <3>1, TaskEvents DEF Chain, Follows
  <2>3. \A i \in DOMAIN Coming : Coming[i].type # "Event"
    <3>1. \A i \in DOMAIN Coming : Coming[i] = Read(0)
      BY <1>5
    <3> QED BY <3>1, Types
  <2> QED BY <1>2, <2>1, <2>2, <2>3 DEF InLine, QueueChain, ComingChain, Pushed
<1>10. Gap
  BY <1>2, <1>8, <1>9 DEF Gap, Gapless
<1> QED
  BY <1>1, <1>4, <1>7, <1>10 DEF IInv

\* Every step keeps the invariant.
LEMMA StepHolds ==
    ASSUME IInv, [Next]_vars
    PROVE  IInv'
<1>1. TypeOK' /\ Protocol'
  BY TypeStep, ProtocolStep DEF IInv
<1>2. Processed' /\ Reads' /\ Gap'
  BY <1>1, SharedStep, TryProcessStep, HandlePageStep, HandleNoStreamStep, HandleConfirmedStep,
     WriteEventStep, AnswerReadStep, ConfirmStep, StutterStep DEF Next
<1> QED
  BY <1>1, <1>2 DEF IInv

\* No event is missing, repeated or out of order in what is delivered, pending, queued
\* and on its way.
LEMMA Invariant == Spec => []IInv
<1> QED BY InitHolds, StepHolds, PTL DEF Spec

\* 'live' is emitted once every event up to the one confirmed is delivered or pending.
THEOREM CaughtUp == Spec => []LiveMeansCaughtUp
<1>1. ASSUME IInv, lives > 0, promised = -1, NEW n \in (StartsAt + 1)..readUntil
      PROVE  Handed(n)
  <2>1. Typed(Messages) /\ StartsAt \in Int /\ readUntil \in Int /\ lives = 1
    BY <1>1, ReadNumbers, Numbers DEF IInv, Protocol, Flags
  <2>2. PICK u \in Int : u = readUntil
    BY <2>1
  <2>3. InLine(StartsAt, u, Named)
    BY <1>1, <2>2 DEF IInv, Gap, Gapless, Unbroken
  <2>4. Reached(StartsAt, u)
    BY <2>1, <2>3 DEF InLine
  <2>5. n \in Int /\ StartsAt < n /\ n <= u
    BY <2>1, <2>2
  <2>6. Reached(StartsAt, n)
    BY <2>1, <2>4, <2>5, ReachedEarlier
  <2> QED BY <2>1, <2>3, <2>5, <2>6, ReachedHanded
<1>2. IInv => LiveMeansCaughtUp
  BY <1>1 DEF LiveMeansCaughtUp
<1> QED
  BY <1>2, Invariant, PTL

\* When 'dropped' is emitted the last event processed is the last one delivered.
THEOREM DroppedAfterLast == Spec => LastProcessedAtDrop
<1> DEFINE AtDrop == drops' # drops =>
               lastProcessed = IF delivered' = <<>> THEN StartsAt ELSE delivered'[Len(delivered')]
<1>1. ASSUME IInv, Next PROVE AtDrop
  <2>1. UNCHANGED drops \/ UNCHANGED delivered
    <3>1. CASE SharedNext
      BY <3>1, DropsAlone
    <3>2. CASE ~SharedNext
      BY <1>1, <3>2 DEF Next, TryProcess, TryProcessIf, HandlePage, HandlePageUntil, HandleNoStream,
                 HandleConfirmed, HandleConfirmedBy, WriteEvent, WriteUpTo, AnswerRead, Confirm,
                 ConfirmWith, Answer, seen
    <3> QED BY <3>1, <3>2
  <2> QED BY <1>1, <2>1 DEF IInv, Processed, Last
<1>2. IInv /\ [Next]_vars => [AtDrop]_vars
  BY <1>1
<1> HIDE DEF AtDrop
<1>3. Spec => [][AtDrop]_vars
  BY <1>2, Invariant, PTL DEF Spec
<1> QED
  BY <1>3 DEF AtDrop, LastProcessedAtDrop

\* Initially nothing is promised to have been delivered.
LEMMA PromiseInit == Init => Promise!Init
<1> SUFFICES ASSUME Init PROVE Promise!Init
  OBVIOUS
<1>1. written \in 0..MaxEvents /\ delivered = <<>> /\ promised = -1
  BY DEF Init, InitWith
<1> QED
  BY <1>1 DEF Promise!Init, Promised

\* A step writes, delivers the next event owed, ends the promise or does not touch it.
LEMMA PromiseStep ==
    ASSUME IInv, [Next]_vars
    PROVE  [Promise!Next]_(Promise!vars)
<1>1. Typed(Messages) /\ Vocabulary(Messages) /\ StartsAt \in Int /\ readUntil \in Int /\ written \in Nat
      /\ MaxEvents \in Nat
  BY MessagesVocabulary, Numbers, ReadNumbers DEF IInv
<1>2. ASSUME UNCHANGED written, Promised' = Promised,
             promised' = promised \/ (promised = -1 /\ promised' # -1)
      PROVE  [Promise!Next]_(Promise!vars)
  BY <1>2 DEF Promise!Next, Promise!End, Promise!vars
<1>3. CASE TryProcess
  <2>1. PICK e : e = Head(immediates).evt
    OBVIOUS
  <2>2. PICK new \in BOOLEAN : new <=> e > lastProcessed
    OBVIOUS
  <2>3. TryProcessIf(new, e) /\ (new <=> Head(immediates).evt > Last(StartsAt))
    BY <1>3, <2>1, <2>2 DEF TryProcess, TryProcessIf, IsNew, IInv, Processed
  <2>4. UNCHANGED <<promised, written>>
    BY <1>1, <2>3, PromiseTried
  <2>5. CASE Promised' = Promised
    BY <1>2, <2>4, <2>5
  <2>6. CASE promised = -1 /\ new /\ Promised = delivered /\ Promised' = Append(delivered, Head(immediates).evt)
    <3>1. PICK u \in Int : u = readUntil
      BY <1>1
    <3>2. InLine(StartsAt, u, Named) /\ Exist(u, Named)
      BY <2>6, <3>1 DEF IInv, Gap, Gapless, Unbroken
    <3>3. e = Last(StartsAt) + 1
      BY <1>1, <2>1, <2>3, <2>6, <3>2, TriedReach DEF InLine
    <3>4. Last(StartsAt) = StartsAt + Len(delivered) /\ Len(delivered) \in Nat
      <4>1. \A i \in DOMAIN delivered : delivered[i] = StartsAt + i
        BY <3>2 DEF InLine
      <4>2. Last(StartsAt) = StartsAt + Len(delivered)
        BY <1>1, <4>1, LastIsNumber
      <4>3. delivered \in Seq(Events)
        BY <1>1, TypedFacts
      <4> QED BY <4>2, <4>3
    <3>5. e < written
      <4>1. immediates # <<>> /\ immediates \in Seq(Tasks) /\ IsTry(Head(immediates))
        BY <1>1, <2>3, TypedFacts DEF TryProcessIf, Runs, IsTry
      <4>2. 1 \in DOMAIN immediates /\ Head(immediates) = immediates[1]
        BY <4>1
      <4> QED BY <2>1, <3>2, <4>1, <4>2 DEF Exist
    <3>6. e = StartsAt + 1 + Len(delivered)
      BY <1>1, <3>3, <3>4
    <3>7. Promise!Deliver
      BY <2>1, <2>4, <2>6, <3>5, <3>6 DEF Promise!Deliver
    <3> QED BY <3>7 DEF Promise!Next
  <2> QED BY <1>1, <2>3, <2>5, <2>6, PromiseTried
<1>4. CASE SharedNext
  BY <1>1, <1>2, <1>4, SharedPromise
<1>5. CASE WriteEvent
  <2>1. WriteUpTo(written + 1) /\ written' = written + 1 /\ UNCHANGED <<promised, delivered>>
    BY <1>5 DEF WriteEvent, WriteUpTo, seen
  <2>2. written + 1 \in (written + 1)..MaxEvents
    BY <1>1, <1>5 DEF WriteEvent
  <2> QED BY <2>1, <2>2 DEF Promise!Next, Promise!Write, Promised
<1>6. CASE HandlePage \/ HandleNoStream \/ HandleConfirmed \/ AnswerRead \/ Confirm \/ UNCHANGED vars
  <2>1. UNCHANGED <<written, promised, delivered>>
    BY <1>6 DEF HandlePage, HandlePageUntil, HandleNoStream, HandleConfirmed, HandleConfirmedBy,
                AnswerRead, Confirm, ConfirmWith, Answer, server, seen, vars
  <2>2. Promised' = Promised
    BY <2>1 DEF Promised
  <2> QED BY <1>2, <2>1, <2>2
<1> QED
  BY <1>3, <1>4, <1>5, <1>6 DEF Next

\* Until it ends, the subscription delivers every event after the starting point once, in
\* order and without a gap, whatever page sizes, faults and interleavings there are.
THEOREM DeliversAsPromised == Spec => ImplementsPromise
<1> QED
  BY PromiseInit, PromiseStep, Invariant, PTL DEF Spec, ImplementsPromise, Promise!Spec
=============================================================================
