-------------------- MODULE AllCatchUpSubscriptionProofs --------------------
(***************************************************************************)
(* Proofs about AllCatchUpSubscription and the positions it compares, for  *)
(* every log, page size, starting point and number of faults.              *)
(***************************************************************************)
EXTENDS AllCatchUpSubscription, CatchUpSubscriptionProofs, FiniteSetTheorems

-----------------------------------------------------------------------------
(* Positions *)

\* Positions are the pairs of a commit and a prepare position.
LEMMA Pairs ==
    ASSUME NEW a, NEW b, IsPosition(a), IsPosition(b)
    PROVE  /\ a.commit \in Int /\ a.prepare \in Int
           /\ a = b <=> a.commit = b.commit /\ a.prepare = b.prepare
BY DEF IsPosition

\* The three answers of compare.
LEMMA Answers ==
    ASSUME NEW a, NEW b, IsPosition(a), IsPosition(b)
    PROVE  /\ Compare(a, b) \in {-1, 0, 1}
           /\ Compare(a, b) = 1 <=>
                  a.commit > b.commit \/ (a.commit = b.commit /\ a.prepare > b.prepare)
           /\ Compare(a, b) = -1 <=>
                  a.commit < b.commit \/ (a.commit = b.commit /\ a.prepare < b.prepare)
  <1>1. a.commit \in Int /\ a.prepare \in Int /\ b.commit \in Int /\ b.prepare \in Int
    BY Pairs
  <1>2. QED
    BY <1>1 DEF Compare

\* compare is a total order: 0 for equal positions only, turned around when its
\* arguments are, and transitive.  The filter of _tryProcess and the end of the
\* second pass rest on it.
THEOREM TotalOrder ==
    ASSUME NEW a, NEW b, NEW c, IsPosition(a), IsPosition(b), IsPosition(c)
    PROVE  /\ Compare(a, b) = 0 <=> a = b
           /\ Compare(a, b) = 1 <=> Compare(b, a) = -1
           /\ Compare(a, b) = 1 /\ Compare(b, c) = 1 => Compare(a, c) = 1
  <1>1. /\ a.commit \in Int /\ a.prepare \in Int /\ b.commit \in Int /\ b.prepare \in Int
        /\ c.commit \in Int /\ c.prepare \in Int
    BY Pairs
  <1>2. Compare(a, b) = 0 <=> a = b
    <2>1. Compare(a, b) = 0 <=> a.commit = b.commit /\ a.prepare = b.prepare
      BY <1>1, Answers
    <2>2. QED
      BY <2>1, Pairs
  <1>3. Compare(a, b) = 1 <=> Compare(b, a) = -1
    BY <1>1, Answers
  <1>4. Compare(a, b) = 1 /\ Compare(b, c) = 1 => Compare(a, c) = 1
    BY <1>1, Answers
  <1>5. QED
    BY <1>2, <1>3, <1>4

\* The position made of a commit position alone is past no event of that commit and
\* past every earlier one: what is read up to it is all that was committed by then.
THEOREM CommitBound ==
    ASSUME NEW p, IsPosition(p), p.prepare <= p.commit, NEW commit \in Int
    PROVE  p.commit <= commit <=> Compare(p, Position(commit, commit)) # 1
  <1>1. /\ IsPosition(Position(commit, commit))
        /\ Position(commit, commit).commit = commit /\ Position(commit, commit).prepare = commit
    BY DEF Position, IsPosition
  <1>2. p.commit \in Int /\ p.prepare \in Int
    BY Pairs
  <1>3. QED
    BY <1>1, <1>2, Answers

\* The order compare stands for.
Less(a, b) == a.commit < b.commit \/ (a.commit = b.commit /\ a.prepare < b.prepare)

\* compare decides it.
LEMMA CompareLess ==
    ASSUME NEW a, NEW b, IsPosition(a), IsPosition(b)
    PROVE  /\ Compare(a, b) = -1 <=> Less(a, b)
           /\ Compare(a, b) = 1 <=> Less(b, a)
           /\ Compare(a, b) >= 0 <=> ~Less(a, b)
<1>1. a.commit \in Int /\ a.prepare \in Int /\ b.commit \in Int /\ b.prepare \in Int
  BY Pairs
<1> QED
  BY <1>1, Answers DEF Less

\* The events of the log are at positions of their own, in order.
LEMMA LogOrder ==
    /\ MaxEvents \in Nat /\ PageSize \in Nat /\ PageSize > 0 /\ StartAfter \in Events \cup {-1}
    /\ StartAfter \in Int /\ Events \subseteq Nat
    /\ \A n \in Events : /\ Pos[n] \in [commit : Nat, prepare : Nat] /\ IsPosition(Pos[n])
                         /\ Pos[n].commit \in Nat /\ Pos[n].prepare \in Nat
                         /\ Pos[n].prepare <= Pos[n].commit
    /\ \A m, n \in Events : m < n => /\ Less(Pos[m], Pos[n])
                                     /\ Pos[m].commit = Pos[n].commit => Pos[n].prepare < Pos[n].commit
<1>1. /\ MaxEvents \in Nat /\ PageSize \in Nat /\ PageSize > 0 /\ StartAfter \in Events \cup {-1}
      /\ StartAfter \in Int /\ Events \subseteq Nat
  BY ConstantsAssumption, PosAssumption DEF Events
<1>2. \A n \in Events : /\ Pos[n] \in [commit : Nat, prepare : Nat] /\ Pos[n].prepare <= Pos[n].commit
                        /\ Pos[n].commit \in Nat /\ Pos[n].prepare \in Nat
  BY PosAssumption
<1>3. \A n \in Events : IsPosition(Pos[n])
  BY <1>2 DEF IsPosition
<1>4. \A m, n \in Events : m < n => /\ Less(Pos[m], Pos[n])
                                    /\ Pos[m].commit = Pos[n].commit => Pos[n].prepare < Pos[n].commit
  BY <1>3, PosAssumption, CompareLess
<1> QED
  BY <1>1, <1>2, <1>3, <1>4

\* A set of numbers without a gap is as large as its first missing number.
LEMMA Segment ==
    ASSUME NEW k \in Nat, NEW S \in SUBSET (0..(k - 1)),
           \A i \in S : \A j \in 0..(k - 1) : j < i => j \in S
    PROVE  Cardinality(S) \in 0..k /\ S = 0..(Cardinality(S) - 1)
<1> DEFINE R == OpToRel(<, Nat)
           Missing == (0..k) \ S
<1>1. IsWellFoundedOn(R, Nat)
  BY NatLessThanWellFounded
<1>2. \A x, y \in Nat : y < x => <<y, x>> \in R
  BY DEF OpToRel
<1>3. Missing \subseteq Nat /\ Missing # {}
  <2>1. k \in Missing
    OBVIOUS
  <2> QED BY <2>1
<1> HIDE DEF R
<1>4. PICK n \in Missing : \A y \in Missing : ~ (<<y, n>> \in R)
  BY <1>1, <1>3, WFMin
<1>5. n \in Nat /\ n <= k /\ n \notin S
  BY <1>4
<1>6. \A j \in 0..(n - 1) : j \in S
  <2> SUFFICES ASSUME NEW j \in 0..(n - 1), j \notin S PROVE FALSE
    OBVIOUS
  <2>1. j \in Nat /\ j < n /\ j \in Missing
    BY <1>5
  <2> QED BY <1>2, <1>4, <1>5, <2>1
<1>7. \A i \in S : i \in 0..(n - 1)
  <2> SUFFICES ASSUME NEW i \in S, ~ (i < n) PROVE FALSE
    BY <1>5
  <2>1. i \in 0..(k - 1) /\ n # i
    BY <1>5
  <2>2. n \in 0..(k - 1) /\ n < i
    BY <1>5, <2>1
  <2> QED BY <1>5, <2>2
<1>8. S = 0..(n - 1)
  BY <1>6, <1>7
<1>9. Cardinality(0..(n - 1)) = n
  <2>1. n - 1 \in Int /\ 0 \in Int
    BY <1>5
  <2>2. Cardinality(0..(n - 1)) = IF 0 > n - 1 THEN 0 ELSE (n - 1) - 0 + 1
    BY <2>1, FS_Interval
  <2> QED BY <1>5, <2>2
<1> QED
  BY <1>5, <1>8, <1>9

\* The events before a position, those up to it, and those confirmed by a commit.
Before(p) == Cardinality({e \in Events : Compare(Pos[e], p) = -1})
UpTo(p) == Cardinality({e \in Events : Compare(Pos[e], p) # 1}) - 1
Named == [last \in Nat \cup {-1} |-> UpTo(LastPosition(last))]

\* The events before a position are the first ones of the log.
LEMMA BeforeIs ==
    ASSUME NEW p, IsPosition(p)
    PROVE  /\ Before(p) \in Nat /\ Before(p) <= MaxEvents
           /\ \A e \in Events : e < Before(p) <=> Less(Pos[e], p)
<1> DEFINE S == {e \in Events : Compare(Pos[e], p) = -1}
<1>1. MaxEvents \in Nat /\ Events = 0..(MaxEvents - 1) /\ p.commit \in Int /\ p.prepare \in Int
  BY LogOrder, Pairs DEF Events
<1>2. \A e \in Events : e \in S <=> Less(Pos[e], p)
  BY LogOrder, CompareLess
<1>3. \A i \in S : \A j \in Events : j < i => j \in S
  <2> SUFFICES ASSUME NEW i \in S, NEW j \in Events, j < i PROVE Less(Pos[j], p)
    BY <1>2
  <2>1. i \in Events /\ Less(Pos[i], p)
    BY <1>2
  <2>2. Less(Pos[j], Pos[i])
    BY <2>1, LogOrder
  <2>3. /\ Pos[j].commit \in Int /\ Pos[j].prepare \in Int
        /\ Pos[i].commit \in Int /\ Pos[i].prepare \in Int
    <3>1. \A n \in Events : Pos[n].commit \in Int /\ Pos[n].prepare \in Int
      BY LogOrder
    <3> QED BY <2>1, <3>1
  <2> QED BY <1>1, <2>1, <2>2, <2>3 DEF Less
<1>4. S \in SUBSET (0..(MaxEvents - 1))
  BY <1>1
<1> HIDE DEF S
<1>5. Cardinality(S) \in 0..MaxEvents /\ S = 0..(Cardinality(S) - 1)
  BY <1>1, <1>3, <1>4, Segment
<1>6. Before(p) = Cardinality(S)
  BY DEF Before, S
<1>7. \A e \in Events : e < Cardinality(S) <=> e \in S
  <2>1. \A e \in Events : e \in Nat
    BY <1>1
  <2> QED BY <1>5, <2>1
<1> QED
  BY <1>1, <1>2, <1>5, <1>6, <1>7

\* So are those up to a position.
LEMMA UpToIs ==
    ASSUME NEW p, IsPosition(p)
    PROVE  /\ UpTo(p) \in Int /\ UpTo(p) >= -1 /\ UpTo(p) < MaxEvents
           /\ \A e \in Events : e <= UpTo(p) <=> ~Less(p, Pos[e])
<1> DEFINE S == {e \in Events : Compare(Pos[e], p) # 1}
<1>1. MaxEvents \in Nat /\ Events = 0..(MaxEvents - 1) /\ p.commit \in Int /\ p.prepare \in Int
  BY LogOrder, Pairs DEF Events
<1>2. \A e \in Events : e \in S <=> ~Less(p, Pos[e])
  BY LogOrder, CompareLess
<1>3. \A i \in S : \A j \in Events : j < i => j \in S
  <2> SUFFICES ASSUME NEW i \in S, NEW j \in Events, j < i PROVE ~Less(p, Pos[j])
    BY <1>2
  <2>1. i \in Events /\ ~Less(p, Pos[i])
    BY <1>2
  <2>2. Less(Pos[j], Pos[i])
    BY <2>1, LogOrder
  <2>3. /\ Pos[j].commit \in Int /\ Pos[j].prepare \in Int
        /\ Pos[i].commit \in Int /\ Pos[i].prepare \in Int
    <3>1. \A n \in Events : Pos[n].commit \in Int /\ Pos[n].prepare \in Int
      BY LogOrder
    <3> QED BY <2>1, <3>1
  <2> QED BY <1>1, <2>1, <2>2, <2>3, SMTT(30) DEF Less
<1>4. S \in SUBSET (0..(MaxEvents - 1))
  BY <1>1
<1> HIDE DEF S
<1>5. Cardinality(S) \in 0..MaxEvents /\ S = 0..(Cardinality(S) - 1)
  BY <1>1, <1>3, <1>4, Segment
<1>6. UpTo(p) = Cardinality(S) - 1
  BY DEF UpTo, S
<1>7. \A e \in Events : e <= Cardinality(S) - 1 <=> e \in S
  <2>1. \A e \in Events : e \in Nat
    BY <1>1
  <2> QED BY <1>5, <2>1
<1>8. Cardinality(S) - 1 \in Int /\ Cardinality(S) - 1 >= -1 /\ Cardinality(S) - 1 < MaxEvents
  BY <1>1, <1>5
<1> QED
  BY <1>2, <1>6, <1>7, <1>8

\* The events a server finds before a position are those before it that are written.
LEMMA FoundBefore ==
    ASSUME NEW p, IsPosition(p), NEW w \in Nat, w <= MaxEvents
    PROVE  /\ Cardinality({e \in 0..(w - 1) : Compare(Pos[e], p) = -1}) \in 0..w
           /\ Before(p) <= w => Cardinality({e \in 0..(w - 1) : Compare(Pos[e], p) = -1}) = Before(p)
<1> DEFINE S == {e \in 0..(w - 1) : Compare(Pos[e], p) = -1}
<1>1. MaxEvents \in Nat /\ \A e \in 0..(w - 1) : e \in Events /\ e \in Nat
  BY LogOrder DEF Events
<1>2. Before(p) \in Nat /\ \A e \in Events : e < Before(p) <=> Less(Pos[e], p)
  BY BeforeIs
<1>3. \A e \in 0..(w - 1) : e \in S <=> e < Before(p)
  BY <1>1, <1>2, LogOrder, CompareLess
<1>4. S \in SUBSET (0..(w - 1))
  OBVIOUS
<1> HIDE DEF S
<1>5. \A i \in S : \A j \in 0..(w - 1) : j < i => j \in S
  BY <1>1, <1>2, <1>3, <1>4
<1>6. Cardinality(S) \in 0..w /\ S = 0..(Cardinality(S) - 1)
  BY <1>4, <1>5, Segment
<1>7. Before(p) <= w => Cardinality(S) = Before(p)
  <2> SUFFICES ASSUME Before(p) <= w, Cardinality(S) # Before(p) PROVE FALSE
    OBVIOUS
  <2>1. CASE Cardinality(S) < Before(p)
    <3>1. PICK e \in 0..(w - 1) : e = Cardinality(S)
      BY <1>2, <1>6, <2>1
    <3>2. e \in S
      BY <1>3, <2>1, <3>1
    <3> QED BY <1>6, <3>1, <3>2
  <2>2. CASE Before(p) < Cardinality(S)
    <3>1. PICK e \in 0..(w - 1) : e = Before(p)
      BY <1>2, <1>6, <2>2
    <3>2. e \in S
      BY <1>2, <1>6, <2>2, <3>1
    <3> QED BY <1>2, <1>3, <3>1, <3>2
  <2> QED BY <1>2, <1>6, <2>1, <2>2
<1> QED
  BY <1>6, <1>7 DEF S

-----------------------------------------------------------------------------
(* Types *)

\* The positions a read starts from.
Positions == [commit : Nat, prepare : Nat]

\* They are positions.
LEMMA ReadPositions ==
    /\ \A p \in Positions : IsPosition(p) /\ p.commit \in Nat /\ p.prepare \in Nat
    /\ \A c, p \in Int : /\ IsPosition(Position(c, p))
                         /\ Position(c, p).commit = c /\ Position(c, p).prepare = p
    /\ \A c, p \in Nat : Position(c, p) \in Positions
    /\ start \in Positions /\ start.commit = 0 /\ start.prepare = 0
    /\ IsPosition(end) /\ end = Position(-1, -1) /\ end.commit = -1 /\ end.prepare = -1
    /\ StartsAt \in Positions
<1>1. /\ \A p \in Positions : IsPosition(p) /\ p.commit \in Nat /\ p.prepare \in Nat
      /\ \A c, p \in Int : /\ IsPosition(Position(c, p))
                           /\ Position(c, p).commit = c /\ Position(c, p).prepare = p
      /\ \A c, p \in Nat : Position(c, p) \in Positions
  BY DEF Positions, IsPosition, Position
<1>2. start \in Positions /\ start.commit = 0 /\ start.prepare = 0
  BY <1>1 DEF start
<1>3. IsPosition(end) /\ end = Position(-1, -1) /\ end.commit = -1 /\ end.prepare = -1
  BY <1>1 DEF end
<1>4. StartsAt \in Positions
  BY <1>2, LogOrder DEF StartsAt, Positions
<1> QED
  BY <1>1, <1>2, <1>3, <1>4

\* The messages of the subscription are those the shared actions are about.
LEMMA MessagesVocabulary ==
    /\ Vocabulary(Messages)
    /\ \A p \in Positions : Read(p) \in Messages
    /\ \A m \in Messages : m.type = "Page" => /\ m.events \in Seq(Events) /\ m.next \in Positions
                                              /\ Read(m.next) \in Messages
    /\ \A m \in Messages : m.type = "Read" => m.at \in Positions
    /\ \A m \in Messages : m.type = "Confirmed" => m.last \in Nat \cup {-1}
<1>1. /\ Subscribe \in Messages /\ Unsubscribe \in Messages /\ CloseConnection \in Messages
      /\ Failure \in Messages /\ Dropped \in Messages
  BY DEF Messages
<1>2. \A n \in Events : Event(n) \in Messages
  BY DEF Messages, Event
<1>3. \A p \in Positions : Read(p) \in Messages
  BY DEF Messages, Read, Positions
<1>4. \A m \in Messages : /\ m.type = "Page" => m.events \in Seq(Events) /\ m.next \in Positions
                          /\ m.type = "Event" => m.evt \in Events
                          /\ m.type = "Read" => m.at \in Positions
                          /\ m.type = "Confirmed" => m.last \in Nat \cup {-1}
  BY DEF Messages, Subscribe, Unsubscribe, CloseConnection, Failure, Dropped, Positions
<1> QED
  BY <1>1, <1>2, <1>3, <1>4 DEF Vocabulary

\* What TypeOK says.
LEMMA TypeOKIs ==
    TypeOK <=> /\ Typed(Messages)
               /\ IsPosition(lastProcessed) /\ IsPosition(readUntil)
               /\ nextReadPosition \in Positions
BY DEF TypeOK, Typed, Positions

\* Shared steps leave what is processed and read alone.
LEMMA SharedLeaves ==
    ASSUME SharedNext
    PROVE  UNCHANGED <<lastProcessed, readUntil>>
<1>1. CASE SharedImmediate
  BY <1>1 DEF SharedImmediate, RunEmitDropped, RunUnsubscribe, IdleTick, SendRequest, HandleFailure,
              HandleEvent, HandleDropped, HandleClose, ThrowClosed, IgnorePackage, subscription
<1> QED
  BY <1>1 DEF SharedNext, Receive, FailRead, Drop, Stop, Close, Answer, subscription

\* The initial states are well typed.
LEMMA InitType == Init => TypeOK
<1> SUFFICES ASSUME Init PROVE TypeOK
  OBVIOUS
<1>1. Read(StartsAt) \in Messages
  BY ReadPositions, MessagesVocabulary
<1>2. written \in 0..MaxEvents
  BY DEF Init, Boundaries
<1>3. Typed(Messages)
  BY <1>1, <1>2, InitTyped DEF Init
<1>4. /\ lastProcessed = IF StartAfter = -1 THEN end ELSE Pos[StartAfter]
      /\ readUntil = end /\ nextReadPosition = StartsAt
  BY DEF Init, InitWith
<1>5. StartAfter # -1 => IsPosition(Pos[StartAfter])
  BY LogOrder
<1> QED
  BY <1>3, <1>4, <1>5, ReadPositions, TypeOKIs

\* A page has the events from the position its read asked for, as far as they were
\* written when it got there; it is empty only at the end.
LEMMA AnswerReadEffect ==
    ASSUME TypeOK, AnswerRead
    PROVE  \E request \in requests, n, m \in 0..written :
               /\ request.type = "Read" /\ request.at \in Positions
               /\ Before(request.at) <= written => n = Before(request.at)
               /\ n <= m /\ (n = m => m = written)
               /\ NextPosition(request.at, n, m) \in Positions
               /\ AllPage(EventsFrom(n, m), NextPosition(request.at, n, m)) \in Messages
               /\ Answer(request, AllPage(EventsFrom(n, m), NextPosition(request.at, n, m)))
               /\ UNCHANGED <<written, subscribed, nextReadPosition>>
<1>1. /\ written \in Nat /\ written <= MaxEvents /\ PageSize \in Nat /\ PageSize > 0
      /\ MaxEvents \in Nat /\ requests \subseteq Messages
  BY TypedFacts, TypeOKIs, LogOrder
<1>2. UNCHANGED <<written, subscribed, nextReadPosition>>
  BY DEF AnswerRead, server
<1>3. PICK request \in requests :
          /\ request.type = "Read"
          /\ LET n == Cardinality({e \in 0..(written - 1) : Compare(Pos[e], request.at) = -1})
                 m == IF n + PageSize >= written THEN written ELSE n + PageSize
             IN  Answer(request, AllPage(EventsFrom(n, m), NextPosition(request.at, n, m)))
  BY DEF AnswerRead
<1>4. request.at \in Positions /\ IsPosition(request.at)
  BY <1>1, <1>3, MessagesVocabulary, ReadPositions
<1>5. PICK n \in 0..written : /\ n = Cardinality({e \in 0..(written - 1) : Compare(Pos[e], request.at) = -1})
                              /\ Before(request.at) <= written => n = Before(request.at)
  BY <1>1, <1>4, FoundBefore
<1>6. PICK m \in 0..written : m = IF n + PageSize >= written THEN written ELSE n + PageSize
  BY <1>1
<1>7. n <= m /\ (n = m => m = written) /\ n \in Nat /\ m \in Nat
  BY <1>1, <1>6
<1>8. Answer(request, AllPage(EventsFrom(n, m), NextPosition(request.at, n, m)))
  BY <1>3, <1>5, <1>6
<1>9. NextPosition(request.at, n, m) \in Positions
  <2>1. CASE n = m
    BY <1>4, <2>1 DEF NextPosition
  <2>2. CASE n # m
    <3>1. m - 1 \in Events
      BY <1>1, <1>7, <2>2 DEF Events
    <3>2. Pos[m - 1].commit \in Nat /\ Pos[m - 1].prepare \in Nat
      BY <3>1, LogOrder
    <3>3. /\ Position(Pos[m - 1].commit + 1, 0) \in Positions
          /\ Position(Pos[m - 1].commit, Pos[m - 1].prepare + 1) \in Positions
      BY <3>2, ReadPositions, SMTT(30)
    <3> QED BY <2>2, <3>3 DEF NextPosition
  <2> QED BY <2>1, <2>2
<1>10. EventsFrom(n, m) \in Seq(Events)
  <2>1. m <= MaxEvents
    BY <1>1, <1>6
  <2> QED BY <1>7, <2>1, EventsFromFacts
<1>11. AllPage(EventsFrom(n, m), NextPosition(request.at, n, m)) \in Messages
  BY <1>9, <1>10 DEF AllPage, Page, Messages, Positions
<1> QED
  BY <1>2, <1>3, <1>4, <1>5, <1>7, <1>8, <1>9, <1>11

\* What is confirmed is a commit position.
LEMMA ConfirmEffect ==
    ASSUME TypeOK, Confirm
    PROVE  \E c \in Nat \cup {-1} :
               /\ c = IF written = 0 THEN -1 ELSE Pos[written - 1].commit
               /\ ConfirmWith(c) /\ Confirmed(c) \in Messages
               /\ Answer(Subscribe, Confirmed(c)) /\ subscribed' = TRUE /\ UNCHANGED written
<1>1. written \in Nat /\ written <= MaxEvents
  BY TypedFacts, TypeOKIs
<1>2. written # 0 => Pos[written - 1].commit \in Nat
  <2>1. written # 0 => written - 1 \in Events
    BY <1>1, LogOrder DEF Events
  <2> QED BY <2>1, LogOrder
<1>3. PICK c \in Nat \cup {-1} : c = IF written = 0 THEN -1 ELSE Pos[written - 1].commit
  BY <1>2
<1>4. Confirmed(c) \in Messages
  BY DEF Confirmed, Messages
<1>5. ConfirmWith(c)
  BY <1>3 DEF Confirm
<1> QED
  BY <1>3, <1>4, <1>5 DEF ConfirmWith

\* Every step keeps the types.
LEMMA TypeStep ==
    ASSUME TypeOK, [Next]_allVars
    PROVE  TypeOK'
<1>1. /\ Typed(Messages) /\ Vocabulary(Messages)
      /\ IsPosition(lastProcessed) /\ IsPosition(readUntil) /\ nextReadPosition \in Positions
  BY TypeOKIs, MessagesVocabulary
<1>2. CASE TryProcess
  <2> DEFINE n == Head(immediates).evt
  <2>1. TryProcessIf(IsNew(n), Pos[n]) /\ UNCHANGED nextReadPosition
    BY <1>2 DEF TryProcess
  <2>2. Typed(Messages)'
    BY <1>1, <2>1, TryProcessType
  <2>3. n \in Events
    BY <1>1, <2>1, TaskKinds, TypedFacts, SMTT(30) DEF TryProcessIf, Runs
  <2>4. lastProcessed' \in {lastProcessed, Pos[n]} /\ readUntil' = readUntil
    BY <2>1 DEF TryProcessIf
  <2>5. IsPosition(lastProcessed')
    BY <1>1, <2>3, <2>4, LogOrder
  <2> QED BY <1>1, <2>1, <2>2, <2>4, <2>5 DEF TypeOK, Typed, Positions, IsPosition
<1>3. CASE HandlePage
  <2>1. /\ HandlePageUntil(IsDone(Head(queue)))
        /\ nextReadPosition' = IF isDropped THEN nextReadPosition ELSE Head(queue).next
    BY <1>3 DEF HandlePage
  <2>2. Typed(Messages)'
    BY <1>1, <2>1, MessagesVocabulary, HandlePageType
  <2>3. UNCHANGED <<lastProcessed, readUntil>>
    BY <2>1 DEF HandlePageUntil
  <2>4. Head(queue) \in Messages /\ Head(queue).type = "Page"
    BY <1>1, <2>1, DispatchFacts DEF HandlePageUntil, Dispatch
  <2>5. nextReadPosition' \in Positions
    BY <1>1, <2>1, <2>4, MessagesVocabulary
  <2> QED BY <1>1, <2>2, <2>3, <2>5 DEF TypeOK, Typed, Positions
<1>4. CASE HandleConfirmed
  <2>1. HandleConfirmedBy(LastPosition(Head(queue).last), Read(nextReadPosition))
        /\ Read(nextReadPosition) \in Messages /\ UNCHANGED nextReadPosition
    BY <1>1, <1>4, MessagesVocabulary DEF HandleConfirmed
  <2>2. Typed(Messages)'
    BY <1>1, <2>1, HandleConfirmedType
  <2>3. Head(queue).last \in Nat \cup {-1}
    <3>1. Head(queue) \in Messages /\ Head(queue).type = "Confirmed"
      BY <1>1, <2>1, DispatchFacts DEF HandleConfirmedBy, Dispatch
    <3> QED BY <3>1, MessagesVocabulary
  <2>4. lastProcessed' = lastProcessed /\ readUntil' = LastPosition(Head(queue).last)
    BY <2>1 DEF HandleConfirmedBy
  <2>5. IsPosition(readUntil')
    <3>1. PICK c \in Int : c = Head(queue).last
      BY <2>3
    <3> QED BY <2>4, <3>1, ReadPositions DEF LastPosition
  <2> QED BY <1>1, <2>1, <2>2, <2>4, <2>5 DEF TypeOK, Typed, Positions, IsPosition
<1>5. CASE SharedNext /\ UNCHANGED nextReadPosition
  <2>1. Typed(Messages)' /\ UNCHANGED <<lastProcessed, readUntil>>
    BY <1>1, <1>5, SharedNextType, SharedLeaves
  <2> QED BY <1>1, <1>5, <2>1 DEF TypeOK, Typed, Positions
<1>6. CASE Commit
  <2>1. PICK n \in Boundaries : n > written /\ WriteUpTo(n)
    BY <1>6 DEF Commit
  <2>2. n \in (written + 1)..MaxEvents
    BY <1>1, <2>1, TypedFacts, LogOrder, SMTT(30) DEF Boundaries
  <2>3. Typed(Messages)'
    BY <1>1, <2>1, <2>2, WriteType
  <2>4. UNCHANGED <<lastProcessed, readUntil, nextReadPosition>>
    BY <1>6, <2>1 DEF WriteUpTo, subscription, Commit
  <2> QED BY <1>1, <2>3, <2>4 DEF TypeOK, Typed, Positions
<1>7. CASE AnswerRead
  <2>1. PICK request \in requests, package \in Messages :
            Answer(request, package) /\ UNCHANGED <<written, subscribed, nextReadPosition>>
    BY <1>7, AnswerReadEffect
  <2>2. subscribed' \in BOOLEAN
    BY <1>1, <2>1 DEF Typed, SharedTypeOK
  <2>3. Typed(Messages)'
    BY <1>1, <2>1, <2>2, AnswerType
  <2>4. UNCHANGED <<lastProcessed, readUntil>>
    BY <2>1 DEF Answer, subscription
  <2> QED BY <1>1, <2>1, <2>3, <2>4 DEF TypeOK, Typed, Positions
<1>8. CASE Confirm
  <2>1. PICK package \in Messages :
            Answer(Subscribe, package) /\ subscribed' = TRUE /\ UNCHANGED <<written, nextReadPosition>>
    BY <1>8, ConfirmEffect DEF Confirm
  <2>2. Typed(Messages)'
    BY <1>1, <2>1, AnswerType
  <2>3. UNCHANGED <<lastProcessed, readUntil>>
    BY <2>1 DEF Answer, subscription
  <2> QED BY <1>1, <2>1, <2>2, <2>3 DEF TypeOK, Typed, Positions
<1>9. CASE UNCHANGED allVars
  <2>1. UNCHANGED vars /\ UNCHANGED nextReadPosition
    BY <1>9 DEF allVars
  <2>2. Typed(Messages)'
    BY <1>1, <2>1, StutterType
  <2>3. UNCHANGED <<lastProcessed, readUntil>>
    BY <2>1 DEF vars, subscription
  <2> QED BY <1>1, <2>1, <2>2, <2>3 DEF TypeOK, Typed, Positions
<1> QED
  BY <1>2, <1>3, <1>4, <1>5, <1>6, <1>7, <1>8, <1>9 DEF Next

\* Every variable holds what the code puts there, the positions among them, whatever
\* the log, the server and the listener do.
THEOREM TypeCorrect == Spec => []TypeOK
<1> QED BY InitType, TypeStep, PTL DEF Spec

-----------------------------------------------------------------------------
(* One request at a time *)

\* Initially the first read is enqueued.
LEMMA InitProtocolled == Init => Protocol
BY InitProtocol DEF Init

\* Every step leaves one read, subscription or answer at most, of the pass under way.
LEMMA ProtocolStep ==
    ASSUME TypeOK, Protocol, [Next]_allVars
    PROVE  Protocol'
<1>1. Typed(Messages) /\ Vocabulary(Messages) /\ nextReadPosition \in Positions
  BY TypeOKIs, MessagesVocabulary
<1>2. CASE TryProcess
  BY <1>1, <1>2, TryProcessProtocol DEF TryProcess
<1>3. CASE HandlePage
  BY <1>1, <1>3, HandlePageProtocol, MessagesVocabulary DEF HandlePage
<1>4. CASE HandleConfirmed
  <2>1. Read(nextReadPosition) \in Messages
    BY <1>1, MessagesVocabulary
  <2> QED BY <1>1, <1>4, <2>1, HandleConfirmedProtocol DEF HandleConfirmed
<1>5. CASE SharedNext
  BY <1>1, <1>5, SharedNextProtocol
<1>6. CASE Commit
  <2>1. PICK n \in Boundaries : n > written /\ WriteUpTo(n)
    BY <1>6 DEF Commit
  <2>2. n \in (written + 1)..MaxEvents
    BY <1>1, <2>1, TypedFacts, LogOrder, SMTT(30) DEF Boundaries
  <2> QED BY <1>1, <2>1, <2>2, WriteProtocol
<1>7. CASE AnswerRead
  <2>1. PICK request \in requests, package \in Messages :
            Answer(request, package) /\ request.type = "Read" /\ package.type = "Page"
    BY <1>7, AnswerReadEffect, ZenonT(60) DEF AllPage, Page
  <2>2. Reading(package) /\ ~Subscribing(package) /\ Reading(request)
    BY <2>1 DEF Reading, Subscribing
  <2>3. package.type \notin {"Subscribe", "CloseConnection"}
    BY <2>1
  <2> QED BY <1>1, <2>1, <2>2, <2>3, AnswerProtocol
<1>8. CASE Confirm
  <2>1. PICK c : ConfirmWith(c) /\ Confirmed(c) \in Messages
    BY <1>8, ConfirmEffect
  <2> QED BY <1>1, <2>1, ConfirmProtocol
<1>9. CASE UNCHANGED allVars
  BY <1>9, StutterProtocol DEF allVars
<1> QED
  BY <1>2, <1>3, <1>4, <1>5, <1>6, <1>7, <1>8, <1>9 DEF Next

\* What holds of requests and flags whatever happens to the events.
LEMMA Protocolled == Spec => [](TypeOK /\ Protocol)
<1>1. Init => TypeOK /\ Protocol
  BY InitType, InitProtocolled
<1>2. TypeOK /\ Protocol /\ [Next]_allVars => TypeOK' /\ Protocol'
  BY TypeStep, ProtocolStep
<1> QED
  BY <1>1, <1>2, PTL DEF Spec

-----------------------------------------------------------------------------
(* No gap *)

\* The last event the second pass reads.
Until == UpTo(readUntil)

\* Transactions are written whole, and the second pass ends with one.
Log == /\ written \in Boundaries
       /\ readUntil.commit \in Nat \cup {-1} /\ readUntil = LastPosition(readUntil.commit)

\* The position of the last event processed is that of the last one handed on.
Processed == lastProcessed = IF Last(StartAfter) = -1 THEN end ELSE Pos[Last(StartAfter)]

\* What is read starts where what was handed on ends, and a page that ends the second
\* pass has the last event it reads.
ReadOK(m) ==
    /\ m.type = "Read" => /\ Before(m.at) <= written
                          /\ Unbroken => Reached(StartAfter, Before(m.at) - 1)
    /\ m.type = "Page" => /\ Before(m.next) <= written
                          /\ \E from \in 0..Before(m.next) :
                                 /\ m.events = EventsFrom(from, Before(m.next))
                                 /\ Unbroken => Reached(StartAfter, from - 1)
                          /\ ~Less(m.next, readUntil) => Before(m.next) > Until

\* So does all that is under way.
Reads == \A m \in Underway : ReadOK(m)

\* What is behind the read position has been handed on or will be.
Behind ==
    /\ Before(nextReadPosition) <= written
    /\ Unbroken => Reached(StartAfter, Before(nextReadPosition) - 1)
    /\ \A n \in Events : n > StartAfter /\ n < Before(nextReadPosition) => Assured(StartAfter, n)

\* Nothing is missing up to the event the second pass reads to.
Gap == Gapless(StartAfter, Until, Named)

\* The inductive invariant.
IInv == TypeOK /\ Protocol /\ Log /\ Processed /\ Reads /\ Behind /\ Gap

\* The numbers behind the positions.
LEMMA ReadNumbers ==
    ASSUME TypeOK
    PROVE  /\ \A m \in Underway : /\ m \in Messages
                                  /\ m.type = "Read" => m.at \in Positions /\ Before(m.at) \in Nat
                                  /\ m.type = "Page" => m.next \in Positions /\ Before(m.next) \in Nat
           /\ written \in Nat /\ written <= MaxEvents /\ Until \in Int /\ Until >= -1 /\ Until < MaxEvents
           /\ nextReadPosition \in Positions /\ Before(nextReadPosition) \in Nat
           /\ Typed(Messages)
<1>1. Typed(Messages) /\ IsPosition(readUntil) /\ nextReadPosition \in Positions
  BY TypeOKIs
<1>2. written \in Nat /\ written <= MaxEvents /\ requests \subseteq Messages
  BY <1>1, TypedFacts
<1>3. Coming \in Seq(Messages)
  BY <1>1, ComingFacts
<1>4. \A m \in Underway : m \in Messages
  BY <1>2, <1>3 DEF Underway
<1>5. \A p \in Positions : Before(p) \in Nat
  BY ReadPositions, BeforeIs
<1>6. Until \in Int /\ Until >= -1 /\ Until < MaxEvents
  BY <1>1, UpToIs DEF Until
<1> QED
  BY <1>1, <1>2, <1>4, <1>5, <1>6, MessagesVocabulary

\* What the lemmas about the shared actions ask for.
LEMMA Setting ==
    ASSUME IInv, TypeOK'
    PROVE  /\ Typed(Messages) /\ Typed(Messages)' /\ Vocabulary(Messages) /\ Protocol
           /\ StartAfter \in Int /\ Until \in Int /\ written \in Nat /\ MaxEvents \in Nat
           /\ \A m \in Messages : m.type = "Page" => Read(m.next) \in Messages
           /\ Gapless(StartAfter, Until, Named)
<1>1. Typed(Messages)'
  BY DEF TypeOK, Typed
<1> QED
  BY <1>1, MessagesVocabulary, LogOrder, ReadNumbers DEF IInv, Gap

\* What is read stays so while no event is lost of what was reached.
LEMMA ReadsKept ==
    ASSUME TypeOK, Reads, \A n \in Int : Reached(StartAfter, n) => Reached(StartAfter, n)',
           Unbroken' => Unbroken, written' \in Int, written <= written',
           \A m \in Underway : m.type = "Page" => readUntil' = readUntil,
           \A m \in Underway' : m \in Underway \/ ReadOK(m)'
    PROVE  Reads'
<1> SUFFICES ASSUME NEW m \in Underway
             PROVE  ReadOK(m)'
  BY DEF Reads
<1>1. m.type = "Read" => /\ Before(m.at) <= written'
                         /\ Unbroken' => Reached(StartAfter, Before(m.at) - 1)'
  <2> SUFFICES ASSUME m.type = "Read"
               PROVE  /\ Before(m.at) <= written'
                      /\ Unbroken' => Reached(StartAfter, Before(m.at) - 1)'
    OBVIOUS
  <2>1. PICK b \in Nat : b = Before(m.at)
    BY ReadNumbers
  <2>2. b <= written /\ (Unbroken => Reached(StartAfter, b - 1))
    BY <2>1 DEF Reads, ReadOK
  <2>3. b <= written'
    BY <2>2, ReadNumbers
  <2>4. b - 1 \in Int
    OBVIOUS
  <2> QED BY <2>1, <2>2, <2>3, <2>4
<1>2. m.type = "Page" => /\ Before(m.next) <= written'
                         /\ \E from \in 0..Before(m.next) :
                                /\ m.events = EventsFrom(from, Before(m.next))
                                /\ Unbroken' => Reached(StartAfter, from - 1)'
                         /\ ~Less(m.next, readUntil') => Before(m.next) > UpTo(readUntil')
  <2> SUFFICES ASSUME m.type = "Page"
               PROVE  /\ Before(m.next) <= written'
                      /\ \E from \in 0..Before(m.next) :
                             /\ m.events = EventsFrom(from, Before(m.next))
                             /\ Unbroken' => Reached(StartAfter, from - 1)'
                      /\ ~Less(m.next, readUntil') => Before(m.next) > UpTo(readUntil')
    OBVIOUS
  <2>1. PICK b \in Nat : b = Before(m.next)
    BY ReadNumbers
  <2>2. /\ b <= written
        /\ ~Less(m.next, readUntil) => b > Until
    BY <2>1 DEF Reads, ReadOK
  <2>3. PICK from \in 0..b : /\ m.events = EventsFrom(from, b)
                             /\ Unbroken => Reached(StartAfter, from - 1)
    BY <2>1 DEF Reads, ReadOK
  <2>4. b <= written'
    BY <2>2, ReadNumbers
  <2>5. from - 1 \in Int
    OBVIOUS
  <2>6. ~Less(m.next, readUntil') => b > UpTo(readUntil')
    BY <2>2 DEF Until
  <2> QED BY <2>1, <2>3, <2>4, <2>5, <2>6
<1> QED
  BY <1>1, <1>2 DEF ReadOK, Until

\* What is behind the read position stays so.
LEMMA BehindKept ==
    ASSUME TypeOK, Behind, UNCHANGED nextReadPosition,
           \A n \in Int : Reached(StartAfter, n) => Reached(StartAfter, n)',
           \A n \in Int : Assured(StartAfter, n) => Assured(StartAfter, n)',
           Unbroken' => Unbroken, written' \in Int, written <= written'
    PROVE  Behind'
<1>1. PICK p : p = nextReadPosition /\ p = nextReadPosition'
  OBVIOUS
<1>2. PICK b \in Nat : b = Before(p)
  BY <1>1, ReadNumbers
<1>3. /\ b <= written /\ (Unbroken => Reached(StartAfter, b - 1))
      /\ \A n \in Events : n > StartAfter /\ n < b => Assured(StartAfter, n)
  BY <1>1, <1>2 DEF Behind
<1>4. b <= written' /\ (Unbroken' => Reached(StartAfter, b - 1)')
  <2>1. b <= written'
    BY <1>3, ReadNumbers
  <2>2. b - 1 \in Int
    OBVIOUS
  <2> QED BY <1>3, <2>1, <2>2
<1>5. \A n \in Events : n > StartAfter /\ n < b => Assured(StartAfter, n)'
  <2>1. \A n \in Events : n \in Int
    BY LogOrder
  <2> QED BY <1>3, <2>1
<1> QED
  BY <1>1, <1>2, <1>4, <1>5 DEF Behind

\* Steps that neither read nor hand on.
LEMMA SharedStep ==
    ASSUME IInv, TypeOK', SharedNext, UNCHANGED nextReadPosition
    PROVE  Log' /\ Processed' /\ Reads' /\ Behind' /\ Gap'
<1>1. UNCHANGED <<lastProcessed, readUntil>>
  BY SharedLeaves
<1>2. PICK u \in Int : u = Until /\ u = Until'
  BY <1>1, Setting DEF Until
<1>3. /\ Gapless(StartAfter, u, Named)'
      /\ \A n \in Int : Reached(StartAfter, n) => Reached(StartAfter, n)'
      /\ Unbroken' => Unbroken
      /\ Underway' \subseteq Underway \cup Orders \cup {Subscribe}
      /\ UNCHANGED <<delivered, written>>
  <2>1. Gapless(StartAfter, u, Named)
    BY <1>2, Setting
  <2> QED BY <2>1, Setting, SharedGapless
<1>4. \A n \in Int : Assured(StartAfter, n) => Assured(StartAfter, n)'
  BY Setting, SharedAssured
<1>5. Gap'
  BY <1>2, <1>3 DEF Gap
<1>6. Processed' /\ Log'
  BY <1>1, <1>3 DEF IInv, Processed, Log, Last
<1>7. written' \in Int /\ written <= written'
  BY <1>3, Setting
<1>8. Behind'
  BY <1>3, <1>4, <1>7, BehindKept DEF IInv
<1>9. Reads'
  <2>1. \A m \in Orders \cup {Subscribe} : m.type \notin {"Read", "Page"}
    BY Types DEF Orders
  <2>2. \A m \in Orders \cup {Subscribe} : ReadOK(m)'
    BY <2>1 DEF ReadOK
  <2>3. \A m \in Underway' : m \in Underway \/ ReadOK(m)'
    BY <1>3, <2>2
  <2> QED BY <1>1, <1>3, <1>7, <2>3, ReadsKept DEF IInv
<1> QED
  BY <1>5, <1>6, <1>8, <1>9

\* An event is new when it comes after the last one handed on.
LEMMA NewIsLater ==
    ASSUME TypeOK, Processed, NEW n \in Events
    PROVE  IsNew(n) <=> n > Last(StartAfter)
<1>1. Last(StartAfter) \in Events \cup {-1}
  <2>1. delivered \in Seq(Events)
    BY TypeOKIs, TypedFacts
  <2> QED BY <2>1, LogOrder DEF Last
<1>2. PICK last \in Events \cup {-1} : last = Last(StartAfter)
  BY <1>1
<1>3. lastProcessed = IF last = -1 THEN end ELSE Pos[last]
  BY <1>2 DEF Processed
<1>4. n \in Nat /\ IsPosition(Pos[n]) /\ Pos[n].commit \in Nat /\ Pos[n].prepare \in Nat
  BY LogOrder
<1>5. CASE last = -1
  <2>1. Less(end, Pos[n])
    BY <1>4, ReadPositions DEF Less
  <2>2. Compare(Pos[n], end) = 1
    BY <1>4, <2>1, ReadPositions, CompareLess
  <2> QED BY <1>2, <1>3, <1>4, <1>5, <2>2 DEF IsNew
<1>6. CASE last \in Events
  <2>1. /\ last \in Nat /\ last # -1 /\ IsPosition(Pos[last])
        /\ Pos[last].commit \in Nat /\ Pos[last].prepare \in Nat
    BY <1>6, LogOrder
  <2>2. Compare(Pos[n], Pos[last]) = 1 <=> Less(Pos[last], Pos[n])
    BY <1>4, <2>1, CompareLess
  <2>3. Less(Pos[last], Pos[n]) <=> n > last
    <3>1. CASE last < n
      BY <1>4, <1>6, <2>1, <3>1, LogOrder
    <3>2. CASE n < last
      <4>1. Less(Pos[n], Pos[last])
        BY <1>6, <3>2, LogOrder
      <4> QED BY <1>4, <2>1, <3>2, <4>1 DEF Less
    <3>3. CASE n = last
      BY <1>4, <2>1, <3>3 DEF Less
    <3> QED BY <1>4, <2>1, <3>1, <3>2, <3>3
  <2> QED BY <1>2, <1>3, <2>1, <2>2, <2>3 DEF IsNew
<1> QED
  BY <1>5, <1>6

\* An event is handed on, or filtered out.
LEMMA TryProcessStep ==
    ASSUME IInv, TypeOK', TryProcess
    PROVE  Log' /\ Processed' /\ Reads' /\ Behind' /\ Gap'
<1>1. PICK e : e = Head(immediates).evt
  OBVIOUS
<1>2. TryProcessIf(IsNew(e), Pos[e]) /\ UNCHANGED nextReadPosition
  BY <1>1 DEF TryProcess
<1>3. e \in Events
  BY <1>1, <1>2, TaskKinds, Setting, TypedFacts, SMTT(30) DEF TryProcessIf, Runs
<1>4. PICK new \in BOOLEAN : new <=> e > Last(StartAfter)
  OBVIOUS
<1>5. TryProcessIf(new, Pos[e]) /\ (new <=> Head(immediates).evt > Last(StartAfter))
  BY <1>1, <1>2, <1>3, <1>4, NewIsLater DEF IInv, TryProcessIf
<1>6. /\ UNCHANGED <<readUntil, written, promised, liveSub, queue, inbound, requests>>
      /\ lastProcessed' = IF new THEN Pos[e] ELSE lastProcessed
  BY <1>5 DEF TryProcessIf, flags, wire, server
<1>7. PICK u \in Int : u = Until /\ u = Until'
  BY <1>6, Setting DEF Until
<1>8. Gapless(StartAfter, u, Named)
  BY <1>7, Setting
<1>9. Gapless(StartAfter, u, Named)'
  BY <1>5, <1>8, Setting, TriedGapless
<1>10. /\ \A n \in Int : Reached(StartAfter, n) => Reached(StartAfter, n)'
       /\ Last(StartAfter)' = IF new THEN e ELSE Last(StartAfter)
  BY <1>1, <1>5, Setting, TriedReach
<1>11. \A n \in Int : Assured(StartAfter, n) => Assured(StartAfter, n)'
  BY <1>5, Setting, AssuredTried
<1>12. Gap' /\ Log'
  BY <1>6, <1>7, <1>9 DEF Gap, IInv, Log
<1>13. Processed'
  <2>1. e # -1
    BY <1>3, LogOrder
  <2> QED BY <1>6, <1>10, <2>1 DEF IInv, Processed
<1>14. Underway' = Underway /\ (Unbroken' => Unbroken)
  BY <1>6 DEF Underway, Coming, Unbroken
<1>15. written' \in Int /\ written <= written'
  BY <1>6, Setting
<1>16. Reads'
  BY <1>6, <1>10, <1>14, <1>15, ReadsKept DEF IInv
<1>17. Behind'
  BY <1>2, <1>10, <1>11, <1>14, <1>15, BehindKept DEF IInv
<1> QED
  BY <1>12, <1>13, <1>16, <1>17

\* A page is handled, and the read position moves on unless 'dropped' came.
LEMMA HandlePageStep ==
    ASSUME IInv, TypeOK', HandlePage
    PROVE  Log' /\ Processed' /\ Reads' /\ Behind' /\ Gap'
<1>1. PICK p : p = Head(queue)
  OBVIOUS
<1>2. PICK done : done = IsDone(Head(queue))
  OBVIOUS
<1>3. /\ HandlePageUntil(done) /\ DispatchIn("Connected", "Page")
      /\ nextReadPosition' = IF isDropped THEN nextReadPosition ELSE p.next
  BY <1>1, <1>2 DEF HandlePage, HandlePageUntil, Dispatch
<1>4. p.type = "Page" /\ p \in Underway
  BY <1>1, <1>3, Setting, HandlerRuns
<1>5. /\ UNCHANGED <<lastProcessed, readUntil, delivered, written, promised>>
      /\ UNCHANGED <<wire, server>>
  BY <1>3 DEF HandlePageUntil, server
<1>6. PICK b \in Nat : b = Before(p.next)
  BY <1>4, ReadNumbers DEF IInv
<1>7. p.next \in Positions /\ b <= written /\ (~Less(p.next, readUntil) => b > Until)
  BY <1>4, <1>6, ReadNumbers DEF IInv, Reads, ReadOK
<1>8. PICK from \in 0..b : /\ p.events = EventsFrom(from, b)
                           /\ Unbroken => Reached(StartAfter, from - 1)
  BY <1>4, <1>6 DEF IInv, Reads, ReadOK
<1>9. PICK u \in Int : u = Until /\ u = Until'
  BY <1>5, Setting DEF Until
<1>10. Gapless(StartAfter, u, Named)
  BY <1>9, Setting
<1>11. /\ from \in Nat /\ from <= b /\ b <= written
       /\ Head(queue).events = EventsFrom(from, b)
       /\ done /\ pass = "second" => b - 1 >= u
  <2>1. done /\ pass = "second" => Compare(p.next, readUntil) >= 0
    BY <1>1, <1>2 DEF IsDone
  <2>2. Compare(p.next, readUntil) >= 0 => ~Less(p.next, readUntil)
    <3>1. IsPosition(readUntil) /\ IsPosition(p.next)
      BY <1>7, ReadPositions, TypeOKIs DEF IInv
    <3> QED BY <3>1, CompareLess
  <2>3. done /\ pass = "second" => b > u
    BY <1>7, <1>9, <2>1, <2>2
  <2> QED BY <1>1, <1>7, <1>8, <2>3
<1>12. /\ Gapless(StartAfter, u, Named)'
       /\ \A n \in Int : Reached(StartAfter, n) => Reached(StartAfter, n)'
       /\ \/ Underway' \subseteq Underway \cup {Subscribe}
          \/ /\ Underway' \subseteq Underway \cup {Read(Head(queue).next)}
             /\ Unbroken => Reached(StartAfter, b - 1)'
       /\ ~isDropped /\ Unbroken' => Reached(StartAfter, b - 1)'
  BY <1>3, <1>8, <1>10, <1>11, Setting, HandlePageGapless
<1>13. Gap' /\ Log' /\ Processed'
  BY <1>5, <1>9, <1>12 DEF Gap, IInv, Log, Processed, Last
<1>14. Unbroken' => Unbroken
  <2>1. liveSub => liveSub'
    BY <1>3 DEF HandlePageUntil, PassDone, FirstPassDone, SecondPassDone
  <2> QED BY <1>5, <2>1 DEF Unbroken
<1>15. written' \in Int /\ written <= written' /\ written' = written
  BY <1>5, Setting
<1>16. Reads'
  <2>1. ReadOK(Subscribe)'
    BY Types DEF ReadOK
  <2>2. (Unbroken => Reached(StartAfter, b - 1)') => ReadOK(Read(p.next))'
    <3>1. PICK q : q = p.next
      OBVIOUS
    <3>2. Read(q).type = "Read" /\ Read(q).at = q
      BY DEF Read
    <3>3. Before(q) = b
      BY <1>6, <3>1
    <3>4. (Unbroken => Reached(StartAfter, b - 1)') => ReadOK(Read(q))'
      BY <1>7, <1>14, <1>15, <3>2, <3>3 DEF ReadOK
    <3> QED BY <3>1, <3>4
  <2>3. \A m \in Underway' : m \in Underway \/ ReadOK(m)'
    BY <1>1, <1>12, <2>1, <2>2
  <2> QED BY <1>5, <1>12, <1>14, <1>15, <2>3, ReadsKept DEF IInv
<1>17. CASE isDropped
  <2>1. \A n \in Int : Assured(StartAfter, n) => Assured(StartAfter, n)'
    BY <1>3, Setting, AssuredHandled
  <2>2. UNCHANGED nextReadPosition
    BY <1>3, <1>17
  <2>3. Behind'
    BY <1>12, <1>14, <1>15, <2>1, <2>2, BehindKept DEF IInv
  <2> QED BY <1>13, <1>16, <2>3
<1>18. CASE ~isDropped
  <2>1. Unbroken'
    BY <1>3, <1>18, Setting, PageUnbroken
  <2>2. Reached(StartAfter, b - 1)' /\ InLine(StartAfter, u, Named)'
    BY <1>12, <1>18, <2>1 DEF Gapless
  <2>3. PICK q : q = p.next /\ q = nextReadPosition' /\ Before(q) = b
    BY <1>3, <1>6, <1>18
  <2>4. ASSUME NEW n \in Events, n > StartAfter, n < b
        PROVE  Assured(StartAfter, n)'
    <3>1. n \in Int /\ n <= b - 1 /\ b - 1 \in Int
      BY <2>4, LogOrder
    <3>2. PICK last \in Int, s \in Seq(Tasks) :
              /\ last = Last(StartAfter) /\ last = Last(StartAfter)' /\ s = immediates'
      BY <1>5, Setting, LastIsNumber DEF Last, Typed, SharedTypeOK
    <3>3. Chain(s, last) /\ \A i \in DOMAIN delivered : delivered[i] = StartAfter + i
      BY <1>5, <2>2, <3>2 DEF InLine
    <3>4. ReachedIn(s, last, n)
      <4>1. ReachedIn(s, last, b - 1)
        BY <2>2, <3>2 DEF Reached
      <4> QED BY <3>1, <4>1, ReachedBefore
    <3>5. CASE n <= last
      <4>1. last = StartAfter + Len(delivered)
        BY <3>2, <3>3, Setting, LastIsNumber
      <4>2. StartAfter \in Int /\ delivered \in Seq(Events)
        BY Setting, TypedFacts
      <4>3. n - StartAfter \in DOMAIN delivered
        BY <2>4, <3>1, <3>5, <4>1, <4>2
      <4>4. delivered[n - StartAfter] = n
        BY <3>1, <3>3, <4>2, <4>3
      <4> QED BY <1>5, <4>3, <4>4 DEF Assured
    <3>6. CASE last < n
      <4>1. Due(s, last, n)
        BY <3>1, <3>3, <3>4, <3>6, PendingTry
      <4> QED BY <3>2, <4>1 DEF Assured
    <3> QED BY <3>1, <3>5, <3>6
  <2>5. Behind'
    BY <1>7, <1>15, <2>2, <2>3, <2>4 DEF Behind
  <2> QED BY <1>13, <1>16, <2>5
<1> QED
  BY <1>17, <1>18

-----------------------------------------------------------------------------
(* Where pages and confirmations end *)

\* Commit positions grow with the log, and at a boundary they do so strictly.
LEMMA Commits ==
    /\ \A a, b \in Events : a <= b => Pos[a].commit <= Pos[b].commit
    /\ \A m \in 1..(MaxEvents - 1) : /\ m \in Events /\ m - 1 \in Events
                                     /\ Less(Pos[m - 1], Pos[m])
                                     /\ m \in Boundaries <=> Pos[m - 1].commit < Pos[m].commit
<1>1. MaxEvents \in Nat /\ Events = 0..(MaxEvents - 1)
  BY LogOrder DEF Events
<1>2. \A n \in Events : Pos[n].commit \in Nat /\ Pos[n].prepare \in Nat
  BY LogOrder
<1>3. \A m, n \in Events : m < n => Less(Pos[m], Pos[n])
  BY LogOrder
<1>4. \A a, b \in Events : a <= b => Pos[a].commit <= Pos[b].commit
  <2> SUFFICES ASSUME NEW a \in Events, NEW b \in Events, a <= b
               PROVE  Pos[a].commit <= Pos[b].commit
    OBVIOUS
  <2>1. CASE a = b
    BY <1>2, <2>1
  <2>2. CASE a < b
    <3>1. Less(Pos[a], Pos[b])
      BY <1>3, <2>2
    <3> QED BY <1>2, <3>1 DEF Less
  <2> QED BY <1>1, <2>1, <2>2
<1>5. ASSUME NEW m \in 1..(MaxEvents - 1)
      PROVE  /\ m \in Events /\ m - 1 \in Events /\ Less(Pos[m - 1], Pos[m])
             /\ m \in Boundaries <=> Pos[m - 1].commit < Pos[m].commit
  <2>1. m \in Events /\ m - 1 \in Events /\ m - 1 < m
    BY <1>1
  <2>2. Less(Pos[m - 1], Pos[m])
    BY <1>3, <2>1
  <2>3. m \in Boundaries <=> Pos[m - 1].commit # Pos[m].commit
    BY <1>1 DEF Boundaries
  <2>4. Pos[m - 1].commit \in Nat /\ Pos[m].commit \in Nat /\ Pos[m - 1].commit <= Pos[m].commit
    BY <1>1, <1>2, <1>4, <2>1
  <2> QED BY <2>1, <2>2, <2>3, <2>4
<1> QED
  BY <1>4, <1>5

\* The numbers of events are found by comparing.
LEMMA BeforeFrom ==
    ASSUME NEW p, IsPosition(p), NEW m \in 0..MaxEvents,
           \A e \in Events : e < m <=> Less(Pos[e], p)
    PROVE  Before(p) = m
<1>1. PICK b \in Nat : b = Before(p) /\ b <= MaxEvents
  BY BeforeIs
<1>2. \A e \in Events : e < b <=> e < m
  BY <1>1, BeforeIs
<1>3. MaxEvents \in Nat /\ Events = 0..(MaxEvents - 1)
  BY LogOrder DEF Events
<1>4. ~ (b < m)
  <2>1. b < m => b \in Events
    BY <1>1, <1>3
  <2> QED BY <1>1, <1>2, <2>1
<1>5. ~ (m < b)
  <2>1. m < b => m \in Events
    BY <1>1, <1>3
  <2> QED BY <1>1, <1>2, <2>1
<1> QED
  BY <1>1, <1>4, <1>5

\* So is the last event up to a position.
LEMMA UpToFrom ==
    ASSUME NEW p, IsPosition(p), NEW m \in 0..MaxEvents,
           \A e \in Events : e < m <=> ~Less(p, Pos[e])
    PROVE  UpTo(p) = m - 1
<1>1. PICK u \in Int : u = UpTo(p) /\ u >= -1 /\ u < MaxEvents
  BY UpToIs
<1>2. \A e \in Events : e <= u <=> e < m
  BY <1>1, UpToIs
<1>3. MaxEvents \in Nat /\ Events = 0..(MaxEvents - 1)
  BY LogOrder DEF Events
<1>4. ~ (u + 1 < m)
  <2>1. u + 1 < m => u + 1 \in Events
    BY <1>1, <1>3
  <2> QED BY <1>1, <1>2, <2>1
<1>5. ~ (m < u + 1)
  <2>1. m < u + 1 => m \in Events
    BY <1>1, <1>3
  <2> QED BY <1>1, <1>2, <2>1
<1> QED
  BY <1>1, <1>4, <1>5

\* The position after a page has the events of the page before it, and no others.
LEMMA NextIs ==
    ASSUME NEW at \in Positions, NEW n \in 0..MaxEvents, NEW m \in 0..MaxEvents,
           n = Before(at), n <= m
    PROVE  NextPosition(at, n, m) \in Positions /\ Before(NextPosition(at, n, m)) = m
<1>1. MaxEvents \in Nat /\ Events = 0..(MaxEvents - 1)
  BY LogOrder DEF Events
<1>2. CASE n = m
  BY <1>2 DEF NextPosition
<1>3. CASE n # m
  <2>1. m \in 1..MaxEvents /\ m - 1 \in Events
    BY <1>1, <1>3
  <2>2. PICK c \in Nat, p \in Nat : c = Pos[m - 1].commit /\ p = Pos[m - 1].prepare
    BY <2>1, LogOrder
  <2>3. \A e \in Events : e \in Int /\ Pos[e].commit \in Nat /\ Pos[e].prepare \in Nat
    BY <1>1, LogOrder
  <2>4. \A e \in Events : /\ e < m => Pos[e].commit <= c
                          /\ e < m /\ Pos[e].commit = c => Pos[e].prepare <= p
    <3> SUFFICES ASSUME NEW e \in Events, e < m
                 PROVE  Pos[e].commit <= c /\ (Pos[e].commit = c => Pos[e].prepare <= p)
      OBVIOUS
    <3>1. CASE e = m - 1
      BY <2>2, <3>1
    <3>2. CASE e < m - 1
      <4>1. Less(Pos[e], Pos[m - 1])
        BY <2>1, <3>2, LogOrder
      <4> QED BY <2>2, <2>3, <4>1 DEF Less
    <3> QED BY <2>1, <2>3, <3>1, <3>2
  <2>5. CASE m \in Boundaries
    <3>1. PICK q \in Positions : /\ q = NextPosition(at, n, m) /\ IsPosition(q)
                                 /\ q.commit = c + 1 /\ q.prepare = 0
      <4>1. NextPosition(at, n, m) = Position(c + 1, 0)
        BY <1>3, <2>2, <2>5 DEF NextPosition
      <4>2. c + 1 \in Nat
        OBVIOUS
      <4> QED BY <4>1, <4>2, ReadPositions
    <3>2. \A e \in Events : ~ (e < m) => Pos[e].commit >= c + 1
      <4> SUFFICES ASSUME NEW e \in Events, ~ (e < m) PROVE Pos[e].commit >= c + 1
        OBVIOUS
      <4>1. m \in 1..(MaxEvents - 1) /\ m <= e
        BY <1>1, <2>1
      <4>2. m \in Events /\ Pos[m - 1].commit < Pos[m].commit
        BY <2>5, <4>1, Commits
      <4>3. Pos[m].commit <= Pos[e].commit
        BY <4>1, <4>2, Commits
      <4> QED BY <2>2, <2>3, <4>2, <4>3
    <3>3. \A e \in Events : e < m <=> Less(Pos[e], q)
      BY <2>3, <2>4, <3>1, <3>2 DEF Less
    <3> QED BY <3>1, <3>3, BeforeFrom
  <2>6. CASE m \notin Boundaries
    <3>1. PICK q \in Positions : /\ q = NextPosition(at, n, m) /\ IsPosition(q)
                                 /\ q.commit = c /\ q.prepare = p + 1
      <4>1. NextPosition(at, n, m) = Position(c, p + 1)
        BY <1>3, <2>2, <2>6 DEF NextPosition
      <4>2. p + 1 \in Nat
        OBVIOUS
      <4> QED BY <4>1, <4>2, ReadPositions
    <3>2. \A e \in Events : ~ (e < m) => \/ Pos[e].commit > c
                                         \/ Pos[e].commit = c /\ Pos[e].prepare >= p + 1
      <4> SUFFICES ASSUME NEW e \in Events, ~ (e < m)
                   PROVE  \/ Pos[e].commit > c
                          \/ Pos[e].commit = c /\ Pos[e].prepare >= p + 1
        OBVIOUS
      <4>1. Less(Pos[m - 1], Pos[e])
        BY <2>1, <2>3, LogOrder
      <4> QED BY <2>2, <2>3, <4>1 DEF Less
    <3>3. \A e \in Events : e < m <=> Less(Pos[e], q)
      BY <2>3, <2>4, <3>1, <3>2 DEF Less
    <3> QED BY <3>1, <3>3, BeforeFrom
  <2> QED BY <2>5, <2>6
<1> QED
  BY <1>2, <1>3

\* A page whose next position is not before the last position of a commit ends behind
\* every event of that commit.
LEMMA PageEnds ==
    ASSUME NEW at \in Positions, NEW n \in 0..MaxEvents, NEW m \in 0..MaxEvents, n <= m,
           NEW w \in Boundaries, n = m => m = w,
           NEW c \in Nat \cup {-1}, UpTo(LastPosition(c)) < w,
           ~Less(NextPosition(at, n, m), LastPosition(c))
    PROVE  m > UpTo(LastPosition(c))
<1>1. MaxEvents \in Nat /\ Events = 0..(MaxEvents - 1)
  BY LogOrder DEF Events
<1>2. PICK r : /\ r = LastPosition(c) /\ IsPosition(r) /\ r.commit = c /\ r.prepare = c
  <2>1. c \in Int
    OBVIOUS
  <2> QED BY <2>1, ReadPositions DEF LastPosition
<1>3. PICK u \in Int : /\ u = UpTo(r) /\ u < MaxEvents /\ u < w
                       /\ \A e \in Events : e <= u <=> ~Less(r, Pos[e])
  BY <1>2, UpToIs
<1>4. CASE n = m
  BY <1>2, <1>3, <1>4
<1>5. CASE m = MaxEvents
  BY <1>1, <1>2, <1>3, <1>5
<1>6. CASE n # m /\ m # MaxEvents
  <2>1. m \in 1..(MaxEvents - 1)
    BY <1>1, <1>6
  <2>2. m \in Events /\ m - 1 \in Events /\ Less(Pos[m - 1], Pos[m]) /\ m - 1 < m
        /\ (m \in Boundaries <=> Pos[m - 1].commit < Pos[m].commit)
    BY <2>1, Commits
  <2>3. PICK d \in Nat, p \in Nat : d = Pos[m - 1].commit /\ p = Pos[m - 1].prepare
    BY <2>2, LogOrder
  <2>4. PICK e \in Nat, q \in Nat : e = Pos[m].commit /\ q = Pos[m].prepare
    BY <2>2, LogOrder
  <2>5. Less(r, Pos[m])
    <3>1. CASE m \in Boundaries
      <4>1. NextPosition(at, n, m) = Position(d + 1, 0)
        BY <1>6, <2>3, <3>1 DEF NextPosition
      <4>2. Position(d + 1, 0).commit = d + 1 /\ Position(d + 1, 0).prepare = 0
        BY ReadPositions
      <4>3. ~ (d + 1 < c) /\ ~ (d + 1 = c /\ 0 < c)
        BY <1>2, <4>1, <4>2 DEF Less
      <4>4. d < e
        BY <2>2, <2>3, <2>4, <3>1
      <4> QED BY <1>2, <2>4, <4>3, <4>4 DEF Less
    <3>2. CASE m \notin Boundaries
      <4>1. NextPosition(at, n, m) = Position(d, p + 1)
        BY <1>6, <2>3, <3>2 DEF NextPosition
      <4>2. Position(d, p + 1).commit = d /\ Position(d, p + 1).prepare = p + 1
        BY ReadPositions
      <4>3. ~ (d < c) /\ ~ (d = c /\ p + 1 < c)
        BY <1>2, <4>1, <4>2 DEF Less
      <4>4. d = e /\ p < q
        BY <2>2, <2>3, <2>4, <3>2 DEF Less
      <4>5. q < e
        BY <2>2, <2>3, <2>4, <4>4, LogOrder
      <4> QED BY <1>2, <2>4, <4>3, <4>4, <4>5 DEF Less
    <3> QED BY <3>1, <3>2
  <2>6. ~ (m <= u)
    BY <1>3, <2>2, <2>5
  <2> QED BY <1>2, <1>3, <2>6
<1> QED
  BY <1>4, <1>5, <1>6

\* A confirmation names every event written by then.
LEMMA NamedWritten ==
    ASSUME NEW w \in Boundaries, NEW c \in Nat \cup {-1},
           c = IF w = 0 THEN -1 ELSE Pos[w - 1].commit
    PROVE  Named[c] = w - 1
<1>1. MaxEvents \in Nat /\ Events = 0..(MaxEvents - 1) /\ w \in 0..MaxEvents
  BY LogOrder DEF Events, Boundaries
<1>2. PICK r : /\ r = LastPosition(c) /\ IsPosition(r) /\ r.commit = c /\ r.prepare = c
  <2>1. c \in Int
    OBVIOUS
  <2> QED BY <2>1, ReadPositions DEF LastPosition
<1>3. Named[c] = UpTo(r)
  BY <1>2 DEF Named
<1>4. \A e \in Events : /\ e \in Int /\ Pos[e].commit \in Nat /\ Pos[e].prepare \in Nat
                        /\ Pos[e].prepare <= Pos[e].commit
  BY <1>1, LogOrder
<1>5. \A e \in Events : e < w <=> ~Less(r, Pos[e])
  <2>1. CASE w = 0
    BY <1>1, <1>2, <1>4, <2>1 DEF Less
  <2>2. CASE w # 0
    <3>1. w - 1 \in Events /\ c = Pos[w - 1].commit
      BY <1>1, <2>2
    <3>2. ASSUME NEW e \in Events, e < w
          PROVE  ~Less(r, Pos[e])
      <4>1. e <= w - 1
        BY <1>1, <1>4, <3>2
      <4>2. Pos[e].commit <= c
        BY <3>1, <4>1, Commits
      <4> QED BY <1>2, <1>4, <4>2 DEF Less
    <3>3. ASSUME NEW e \in Events, ~ (e < w)
          PROVE  Less(r, Pos[e])
      <4>1. w \in 1..(MaxEvents - 1) /\ w <= e
        BY <1>1, <1>4, <2>2, <3>3
      <4>2. w \in Events /\ Pos[w - 1].commit < Pos[w].commit
        BY <4>1, Commits
      <4>3. Pos[w].commit <= Pos[e].commit
        BY <4>1, <4>2, Commits
      <4>4. c < Pos[e].commit
        BY <1>4, <3>1, <4>2, <4>3
      <4> QED BY <1>2, <4>4 DEF Less
    <3> QED BY <3>2, <3>3
  <2> QED BY <2>1, <2>2
<1> QED
  BY <1>1, <1>2, <1>3, <1>5, UpToFrom

-----------------------------------------------------------------------------
(* The remaining steps *)

\* The second pass starts to read, from where the first one ended.
LEMMA HandleConfirmedStep ==
    ASSUME IInv, TypeOK', Protocol', HandleConfirmed
    PROVE  Log' /\ Processed' /\ Reads' /\ Behind' /\ Gap'
<1>1. PICK c : c = Head(queue).last
  OBVIOUS
<1>2. PICK p \in Positions : p = nextReadPosition /\ Read(p) \in Messages
  BY ReadNumbers, MessagesVocabulary DEF IInv
<1>3. /\ HandleConfirmedBy(LastPosition(c), Read(p)) /\ DispatchIn("Connected", "Confirmed")
      /\ UNCHANGED nextReadPosition
  BY <1>1, <1>2 DEF HandleConfirmed, HandleConfirmedBy, Dispatch
<1>4. /\ queue # <<>> /\ immediates # <<>> /\ ~IsTry(Head(immediates))
      /\ Head(queue) \in Messages /\ Head(queue).type = "Confirmed"
      /\ 1 \in DOMAIN Coming /\ Coming[1] = Head(queue)
  BY <1>3, Setting, HandlerRuns
<1>5. c \in Nat \cup {-1} /\ c \in Int
  BY <1>1, <1>4, MessagesVocabulary
<1>6. PICK r : r = LastPosition(c) /\ IsPosition(r) /\ r.commit = c
  BY <1>5, ReadPositions DEF LastPosition
<1>7. /\ UNCHANGED <<lastProcessed, delivered, written, promised, liveSub, inbound, requests>>
      /\ Schedules(<<>>, <<Read(p)>>) /\ readUntil' = r
  BY <1>3, <1>6 DEF HandleConfirmedBy, wire, server, seen
<1>8. PICK v \in Int : v = UpTo(r) /\ v = Named[Head(queue).last] /\ v = Until'
  <2>1. UpTo(r) \in Int
    BY <1>6, UpToIs
  <2>2. Named[c] = UpTo(r)
    BY <1>5, <1>6 DEF Named
  <2> QED BY <1>1, <1>7, <2>1, <2>2 DEF Until
<1>9. PICK u \in Int : u = Until
  BY Setting
<1>10. Gapless(StartAfter, u, Named)
  BY <1>9, Setting
<1>11. Gapless(StartAfter, v, Named)'
  BY <1>2, <1>3, <1>8, <1>10, Setting, HandleConfirmedGapless
<1>12. Gap' /\ Processed' /\ Log'
  <2>1. Log'
    BY <1>5, <1>6, <1>7 DEF IInv, Log
  <2> QED BY <1>7, <1>8, <1>11, <2>1 DEF Gap, IInv, Processed, Last
<1>13. <<Read(p)>> \in Seq(Messages)
  BY <1>2
<1>14. \A n \in Int : Reached(StartAfter, n)' <=> Reached(StartAfter, n)
  BY <1>4, <1>7, <1>13, Setting, IdleHandlerReach
<1>15. Underway' \subseteq Underway \cup {Read(p)}
  <2>1. queue' = Tail(queue) \o <<Read(p)>>
    BY <1>7 DEF Schedules
  <2>2. PICK more : more = <<Read(p)>>
    OBVIOUS
  <2>3. more \in Seq(Messages) /\ queue' = Tail(queue) \o more
    BY <1>13, <2>1, <2>2
  <2>4. Underway' \subseteq Underway \cup {more[i] : i \in DOMAIN more}
    BY <1>4, <1>7, <2>3, Setting, HandledUnderway
  <2>5. \A i \in DOMAIN more : more[i] = Read(p)
    BY <2>2
  <2> QED BY <2>4, <2>5
<1>16. Unbroken' <=> Unbroken
  BY <1>7 DEF Unbroken
<1>17. written' \in Int /\ written <= written' /\ written' = written
  BY <1>7, Setting
<1>18. PICK b \in Nat : /\ b = Before(p) /\ b <= written
                        /\ Unbroken => Reached(StartAfter, b - 1)
  BY <1>2, ReadNumbers DEF IInv, Behind
<1>19. ReadOK(Read(p))'
  <2>1. Read(p).type = "Read" /\ Read(p).at = p
    BY DEF Read
  <2>2. Unbroken' => Reached(StartAfter, b - 1)'
    BY <1>14, <1>16, <1>18
  <2> QED BY <1>17, <1>18, <2>1, <2>2 DEF ReadOK
<1>20. \A m \in Underway : m.type # "Page"
  <2>1. Control(Coming[1])
    BY <1>4 DEF Control, Subscribing
  <2>2. \A m : m.type = "Page" => Control(m)
    BY DEF Control, Reading
  <2> QED BY <1>4, <2>1, <2>2 DEF IInv, Protocol, OneControl, Underway
<1>21. Reads'
  <2>1. \A m \in Underway' : m \in Underway \/ ReadOK(m)'
    BY <1>15, <1>19
  <2> QED BY <1>14, <1>16, <1>17, <1>20, <2>1, ReadsKept DEF IInv
<1>22. Behind'
  <2>1. \A n \in Int : Assured(StartAfter, n) => Assured(StartAfter, n)'
    BY <1>2, <1>3, Setting, AssuredHandled
  <2> QED BY <1>3, <1>14, <1>16, <1>17, <2>1, BehindKept DEF IInv
<1> QED
  BY <1>12, <1>21, <1>22

\* A step outside the subscription leaves what is reached and assured.
LEMMA OutsideStep ==
    ASSUME IInv, UNCHANGED <<immediates, delivered, promised, liveSub, lastProcessed, readUntil,
                             nextReadPosition>>,
           written' \in Boundaries, written' \in Int, written <= written',
           \A m \in Underway' : m \in Underway \/ ReadOK(m)'
    PROVE  Log' /\ Processed' /\ Reads' /\ Behind'
<1>1. \A n \in Int : Reached(StartAfter, n) => Reached(StartAfter, n)'
  BY LogOrder, SameReach
<1>2. \A n \in Int : Assured(StartAfter, n) => Assured(StartAfter, n)'
  BY DEF Assured, Due, Last
<1>3. Unbroken' => Unbroken
  BY DEF Unbroken
<1>4. Log' /\ Processed'
  BY DEF IInv, Log, Processed, Last
<1>5. Reads'
  BY <1>1, <1>3, ReadsKept DEF IInv
<1>6. Behind'
  BY <1>1, <1>2, <1>3, BehindKept DEF IInv
<1> QED
  BY <1>4, <1>5, <1>6

\* A transaction is written, and its events pushed to the subscription.
LEMMA CommitStep ==
    ASSUME IInv, TypeOK', Commit
    PROVE  Log' /\ Processed' /\ Reads' /\ Behind' /\ Gap'
<1>1. PICK n \in Boundaries : n > written /\ WriteUpTo(n) /\ UNCHANGED nextReadPosition
  BY DEF Commit
<1>2. n \in (written + 1)..MaxEvents
  BY <1>1, Setting DEF Boundaries
<1>3. UNCHANGED <<lastProcessed, readUntil>>
  BY <1>1 DEF WriteUpTo, subscription
<1>4. PICK u \in Int : u = Until /\ u = Until'
  BY <1>3, Setting DEF Until
<1>5. Gapless(StartAfter, u, Named)
  BY <1>4, Setting
<1>6. Gapless(StartAfter, u, Named)'
  BY <1>1, <1>2, <1>5, Setting, WriteGapless
<1>7. /\ \A m \in Underway' : m \in Underway \/ m.type = "Event"
      /\ UNCHANGED <<immediates, delivered, promised, liveSub, pass>>
      /\ written' = n /\ written < n
  BY <1>1, <1>2, Setting, WriteUnderway
<1>8. Gap'
  BY <1>4, <1>6 DEF Gap
<1>9. \A m \in Underway' : m \in Underway \/ ReadOK(m)'
  BY <1>7 DEF ReadOK
<1>10. written' \in Boundaries /\ written' \in Int /\ written <= written'
  BY <1>2, <1>7, Setting
<1> QED
  BY <1>1, <1>3, <1>7, <1>8, <1>9, <1>10, OutsideStep

\* A read is answered.
LEMMA AnswerReadStep ==
    ASSUME IInv, TypeOK', AnswerRead
    PROVE  Log' /\ Processed' /\ Reads' /\ Behind' /\ Gap'
<1>1. written \in Nat /\ written <= MaxEvents /\ MaxEvents \in Nat /\ written \in Boundaries
  BY ReadNumbers, Setting DEF IInv, Log
<1>2. PICK request \in requests, n \in 0..written, m \in 0..written :
          /\ request.type = "Read" /\ request.at \in Positions
          /\ Before(request.at) <= written => n = Before(request.at)
          /\ n <= m /\ (n = m => m = written)
          /\ NextPosition(request.at, n, m) \in Positions
          /\ AllPage(EventsFrom(n, m), NextPosition(request.at, n, m)) \in Messages
          /\ Answer(request, AllPage(EventsFrom(n, m), NextPosition(request.at, n, m)))
          /\ UNCHANGED <<written, subscribed, nextReadPosition>>
  BY AnswerReadEffect DEF IInv
<1>3. PICK at \in Positions : at = request.at
  BY <1>2
<1>4. PICK next \in Positions : next = NextPosition(at, n, m)
  BY <1>2, <1>3
<1>5. PICK package \in Messages : package = AllPage(EventsFrom(n, m), next)
  BY <1>2, <1>3, <1>4
<1>6. Answer(request, package)
  BY <1>2, <1>3, <1>4, <1>5
<1>7. package.type = "Page" /\ package.next = next /\ package.events = EventsFrom(n, m)
  BY <1>5 DEF AllPage, Page
<1>8. UNCHANGED <<lastProcessed, readUntil>>
  BY <1>6 DEF Answer, subscription
<1>9. PICK u \in Int : u = Until /\ u = Until'
  BY <1>8, Setting DEF Until
<1>10. Gapless(StartAfter, u, Named)
  BY <1>9, Setting
<1>11. Gapless(StartAfter, u, Named)'
  <2>1. /\ package.type # "Event" /\ ~Subscribing(package) /\ package.type # "Confirmed"
        /\ subscribed' => subscribed
    BY <1>2, <1>7 DEF Subscribing
  <2> QED BY <1>2, <1>6, <1>10, <2>1, Setting, AnswerGapless
<1>12. /\ Underway' \subseteq Underway \cup {package} /\ request \in Underway
       /\ UNCHANGED <<immediates, delivered, promised, liveSub, pass>>
  BY <1>6, Setting, AnswerUnderway
<1>13. Gap'
  BY <1>9, <1>11 DEF Gap
<1>14. ReadOK(request)
  BY <1>12 DEF IInv, Reads
<1>15. n = Before(at) /\ n \in Nat /\ (Unbroken => Reached(StartAfter, n - 1))
  BY <1>1, <1>2, <1>3, <1>14 DEF ReadOK
<1>16. n \in 0..MaxEvents /\ m \in 0..MaxEvents /\ m \in Nat /\ m <= written
  BY <1>1, <1>2
<1>17. Before(next) = m
  BY <1>2, <1>4, <1>15, <1>16, NextIs
<1>18. ~Less(next, readUntil) => m > u
  <2>1. PICK c \in Nat \cup {-1} : readUntil = LastPosition(c)
    BY DEF IInv, Log
  <2>2. u = UpTo(LastPosition(c)) /\ u < written
    <3>1. u \in -1..(written - 1)
      BY <1>10 DEF Gapless, Exist
    <3>2. u < written
      BY <1>1, <3>1
    <3> QED BY <1>9, <2>1, <3>2 DEF Until
  <2> QED BY <1>1, <1>2, <1>4, <1>16, <2>1, <2>2, PageEnds
<1>19. ReadOK(package)'
  <2>1. \A k \in Int : Reached(StartAfter, k)' <=> Reached(StartAfter, k)
    BY <1>12, Setting, SameReach
  <2>2. Unbroken' => Unbroken
    BY <1>12 DEF Unbroken
  <2>3. n - 1 \in Int /\ n \in 0..m
    BY <1>2, <1>15
  <2>4. Unbroken' => Reached(StartAfter, n - 1)'
    BY <1>15, <2>1, <2>2, <2>3
  <2>5. m <= written'
    BY <1>2, <1>16
  <2>6. ~Less(next, readUntil') => m > Until'
    BY <1>8, <1>9, <1>18
  <2> QED BY <1>7, <1>17, <2>3, <2>4, <2>5, <2>6 DEF ReadOK
<1>20. \A k \in Underway' : k \in Underway \/ ReadOK(k)'
  BY <1>12, <1>19
<1>21. written' \in Boundaries /\ written' \in Int /\ written <= written'
  BY <1>1, <1>2
<1> QED
  BY <1>2, <1>8, <1>12, <1>13, <1>20, <1>21, OutsideStep

\* The subscription is confirmed.
LEMMA ConfirmStep ==
    ASSUME IInv, TypeOK', Confirm
    PROVE  Log' /\ Processed' /\ Reads' /\ Behind' /\ Gap'
<1>1. PICK c \in Nat \cup {-1} :
          /\ c = IF written = 0 THEN -1 ELSE Pos[written - 1].commit
          /\ Confirmed(c) \in Messages
          /\ Answer(Subscribe, Confirmed(c)) /\ subscribed' = TRUE /\ UNCHANGED written
  BY ConfirmEffect DEF IInv
<1>2. written \in Boundaries /\ written \in Nat /\ UNCHANGED nextReadPosition
  BY Setting DEF IInv, Log, Confirm
<1>3. PICK package \in Messages : package = Confirmed(c)
  BY <1>1
<1>4. package.type = "Confirmed" /\ package.last = c
  BY <1>3 DEF Confirmed
<1>5. Named[package.last] = written - 1
  BY <1>1, <1>2, <1>4, NamedWritten
<1>6. UNCHANGED <<lastProcessed, readUntil>>
  BY <1>1 DEF Answer, subscription
<1>7. PICK u \in Int : u = Until /\ u = Until'
  BY <1>6, Setting DEF Until
<1>8. Gapless(StartAfter, u, Named)
  BY <1>7, Setting
<1>9. Gapless(StartAfter, u, Named)'
  <2>1. Subscribing(Subscribe) /\ Answer(Subscribe, package) /\ package.type # "Event"
    BY <1>1, <1>3, <1>4, Types DEF Subscribing
  <2> QED BY <1>1, <1>4, <1>5, <1>8, <2>1, Setting, AnswerGapless
<1>10. /\ Underway' \subseteq Underway \cup {package}
       /\ UNCHANGED <<immediates, delivered, promised, liveSub, pass>>
  BY <1>1, <1>3, Setting, AnswerUnderway
<1>11. Gap'
  BY <1>7, <1>9 DEF Gap
<1>12. \A m \in Underway' : m \in Underway \/ ReadOK(m)'
  <2>1. ReadOK(package)'
    BY <1>4 DEF ReadOK
  <2> QED BY <1>10, <2>1
<1>13. written' \in Boundaries /\ written' \in Int /\ written <= written'
  BY <1>1, <1>2
<1> QED
  BY <1>2, <1>6, <1>10, <1>11, <1>12, <1>13, OutsideStep

\* Nothing happens.
LEMMA StutterStep ==
    ASSUME IInv, UNCHANGED allVars
    PROVE  Log' /\ Processed' /\ Reads' /\ Behind' /\ Gap'
<1>1. /\ UNCHANGED <<immediates, delivered, promised, liveSub, lastProcessed, readUntil,
                     nextReadPosition, written>>
      /\ Underway' = Underway
  BY DEF Underway, Coming, allVars, vars, subscription, flags, node, wire, server, program, seen
<1>2. written' \in Boundaries /\ written' \in Int /\ written <= written'
  BY <1>1, Setting, ReadNumbers DEF IInv, Log
<1>3. Log' /\ Processed' /\ Reads' /\ Behind'
  BY <1>1, <1>2, OutsideStep
<1>4. Gap'
  BY ZenonT(60) DEF IInv, Gap, Gapless, Exist, InLine, Underway, Coming, Last, Reached, Until,
         Unbroken, QueueChain, ComingChain, Pushed, Held, allVars, vars, subscription, flags, node,
         wire, server, program, seen
<1> QED
  BY <1>3, <1>4

-----------------------------------------------------------------------------
(* The invariant *)

\* A subscription starts at the event it starts after, or at the first one.
LEMMA Start ==
    /\ Before(StartsAt) \in Nat /\ Before(StartsAt) - 1 <= StartAfter
    /\ StartAfter # -1 => Before(StartsAt) = StartAfter
    /\ StartAfter = -1 => Before(StartsAt) = 0
    /\ UpTo(end) = -1
<1>1. MaxEvents \in Nat /\ Events = 0..(MaxEvents - 1)
  BY LogOrder DEF Events
<1>2. \A e \in Events : /\ e \in Int /\ IsPosition(Pos[e])
                        /\ Pos[e].commit \in Nat /\ Pos[e].prepare \in Nat
  BY <1>1, LogOrder
<1>3. UpTo(end) = -1
  <2>1. \A e \in Events : e < 0 <=> ~Less(end, Pos[e])
    BY <1>1, <1>2, ReadPositions DEF Less
  <2>2. 0 \in 0..MaxEvents /\ 0 - 1 = -1
    BY <1>1
  <2>3. UpTo(end) = 0 - 1
    BY <2>1, <2>2, ReadPositions, UpToFrom
  <2> QED BY <2>2, <2>3
<1>4. CASE StartAfter = -1
  <2>1. StartsAt = start
    BY <1>4 DEF StartsAt
  <2>2. \A e \in Events : e < 0 <=> Less(Pos[e], start)
    BY <1>1, <1>2, ReadPositions DEF Less
  <2>3. 0 \in 0..MaxEvents
    BY <1>1
  <2>4. Before(start) = 0
    BY <2>2, <2>3, ReadPositions, BeforeFrom
  <2> QED BY <1>3, <1>4, <2>1, <2>4
<1>5. CASE StartAfter # -1
  <2>1. StartAfter \in Events /\ StartsAt = Pos[StartAfter] /\ StartAfter \in Nat
    BY <1>5, LogOrder DEF StartsAt
  <2>2. \A e \in Events : e < StartAfter <=> Less(Pos[e], Pos[StartAfter])
    <3> SUFFICES ASSUME NEW e \in Events
                 PROVE  e < StartAfter <=> Less(Pos[e], Pos[StartAfter])
      OBVIOUS
    <3>1. CASE e < StartAfter
      BY <2>1, <3>1, LogOrder
    <3>2. CASE StartAfter < e
      <4>1. Less(Pos[StartAfter], Pos[e])
        BY <2>1, <3>2, LogOrder
      <4> QED BY <1>2, <2>1, <3>2, <4>1 DEF Less
    <3>3. CASE e = StartAfter
      BY <1>2, <2>1, <3>3 DEF Less
    <3>4. e \in Int /\ StartAfter \in Int
      BY <1>2, <2>1
    <3> QED BY <3>1, <3>2, <3>3, <3>4
  <2>3. StartAfter \in 0..MaxEvents /\ IsPosition(Pos[StartAfter])
    BY <1>1, <1>2, <2>1
  <2>4. Before(Pos[StartAfter]) = StartAfter
    BY <2>2, <2>3, BeforeFrom
  <2> QED BY <1>3, <1>5, <2>1, <2>4
<1> QED
  BY <1>4, <1>5

\* Initially nothing has been handed on, and the first read starts at the starting point.
LEMMA InitHolds == Init => IInv
<1> SUFFICES ASSUME Init PROVE IInv
  OBVIOUS
<1>1. TypeOK /\ Protocol
  BY InitType, InitProtocolled
<1>2. /\ lastProcessed = IF StartAfter = -1 THEN end ELSE Pos[StartAfter]
      /\ delivered = <<>> /\ immediates = <<Process>>
      /\ queue = <<Read(StartsAt)>> /\ inbound = <<>> /\ requests = {} /\ ~subscribed
      /\ liveQueue = <<>> /\ lives = 0
      /\ readUntil = end /\ nextReadPosition = StartsAt
      /\ written \in Boundaries /\ written > StartAfter
  BY DEF Init, InitWith
<1>3. written \in Nat /\ StartAfter \in Int /\ StartAfter >= -1
  <2>1. StartAfter \in Nat \cup {-1}
    BY LogOrder
  <2> QED BY <1>1, <2>1, ReadNumbers
<1>4. Log
  <2>1. end = LastPosition(-1) /\ end.commit = -1
    BY ReadPositions DEF LastPosition
  <2> QED BY <1>2, <2>1 DEF Log
<1>5. Last(StartAfter) = StartAfter /\ Until = -1
  BY <1>2, Start DEF Last, Until
<1>6. Processed
  BY <1>2, <1>5 DEF Processed
<1>7. Coming = <<Read(StartsAt)>>
  BY <1>2 DEF Coming
<1>8. Underway = {Read(StartsAt)}
  BY <1>2, <1>7 DEF Underway
<1>9. PICK b \in Nat : /\ b = Before(StartsAt) /\ b <= written /\ b <= StartAfter + 1
                       /\ Reached(StartAfter, b - 1)
  <2>1. PICK b \in Nat : b = Before(StartsAt) /\ b - 1 <= StartAfter
    BY Start
  <2>2. b <= StartAfter + 1 /\ b <= written
    BY <1>2, <1>3, <2>1
  <2>3. Reached(StartAfter, b - 1)
    BY <1>5, <2>1 DEF Reached, ReachedIn
  <2> QED BY <2>1, <2>2, <2>3
<1>10. Reads
  <2>1. Read(StartsAt).type = "Read" /\ Read(StartsAt).at = StartsAt
    BY DEF Read
  <2> QED BY <1>8, <1>9, <2>1 DEF Reads, ReadOK
<1>11. Behind
  <2>1. \A n \in Events : ~ (n > StartAfter /\ n < b)
    <3>1. \A n \in Events : n \in Int
      BY LogOrder
    <3> QED BY <1>3, <1>9, <3>1
  <2> QED BY <1>2, <1>9, <2>1 DEF Behind
<1>12. Exist(-1, Named)
  <2>1. ~IsTry(Process) /\ Read(StartsAt).type = "Read" /\ ~Subscribing(Read(StartsAt))
    BY TaskEvents, Types DEF Subscribing
  <2>2. -1 \in -1..(written - 1)
    BY <1>3
  <2>3. \A i \in DOMAIN immediates : immediates[i] = Process
    BY <1>2
  <2>4. DOMAIN liveQueue = {}
    BY <1>2
  <2> QED BY <1>8, <2>1, <2>2, <2>3, <2>4 DEF Exist
<1>13. InLine(StartAfter, -1, Named)
  <2>1. DOMAIN delivered = {} /\ DOMAIN liveQueue = {}
    BY <1>2
  <2>2. Chain(immediates, Last(StartAfter))
    <3>1. \A i \in DOMAIN immediates : immediates[i] = Process
      BY <1>2
    <3> QED BY <3>1, TaskEvents DEF Chain, Follows
  <2>3. \A i \in DOMAIN Coming : Coming[i].type # "Event"
    <3>1. \A i \in DOMAIN Coming : Coming[i] = Read(StartsAt)
      BY <1>7
    <3> QED BY <3>1, Types
  <2> QED BY <1>2, <2>1, <2>2, <2>3 DEF InLine, QueueChain, ComingChain, Pushed
<1>14. Gap
  BY <1>5, <1>12, <1>13 DEF Gap, Gapless
<1> QED
  BY <1>1, <1>4, <1>6, <1>10, <1>11, <1>14 DEF IInv

\* Every step keeps the invariant.
LEMMA StepHolds ==
    ASSUME IInv, [Next]_allVars
    PROVE  IInv'
<1>1. TypeOK' /\ Protocol'
  BY TypeStep, ProtocolStep DEF IInv
<1>2. Log' /\ Processed' /\ Reads' /\ Behind' /\ Gap'
  BY <1>1, SharedStep, TryProcessStep, HandlePageStep, HandleConfirmedStep,
     CommitStep, AnswerReadStep, ConfirmStep, StutterStep DEF Next
<1> QED
  BY <1>1, <1>2 DEF IInv

\* No event is missing, repeated or out of order in what is delivered, pending, queued
\* and on its way, and none behind the read position has been passed over.
LEMMA Invariant == Spec => []IInv
<1> QED BY InitHolds, StepHolds, PTL DEF Spec

\* The live queue is handed on by the one end of the second pass, wherever pages cut
\* transactions and whatever reads fail.
THEOREM LiveQueueIsDrained == Spec => []LiveQueueDrained
<1>1. IInv => LiveQueueDrained
  BY ProtocolGives, TypeOKIs DEF IInv
<1> QED
  BY <1>1, Invariant, PTL

\* close() ends the process only in the first pass of a subscription to all streams that
\* has not been stopped, as it does for one stream.
THEOREM OnlyEarlyClosesThrow == Spec => []OnlyEarlyCloseThrows
<1>1. IInv => OnlyEarlyCloseThrows
  BY ProtocolGives, TypeOKIs DEF IInv
<1> QED
  BY <1>1, Invariant, PTL

\* 'live' is emitted once every event of the commits up to the one confirmed is delivered
\* or pending, the whole last transaction among them.
THEOREM CaughtUp == Spec => []LiveMeansCaughtUp
<1>1. ASSUME IInv, lives > 0, promised = -1, NEW n \in Events, n > StartAfter,
             Pos[n].commit <= readUntil.commit
      PROVE  Handed(n)
  <2>1. Typed(Messages) /\ StartAfter \in Int /\ lives = 1 /\ n \in Int
    BY <1>1, Setting, LogOrder DEF IInv, Protocol, Flags, TypeOK, Typed
  <2>2. PICK u \in Int : u = Until
    BY <1>1, ReadNumbers DEF IInv
  <2>3. InLine(StartAfter, u, Named)
    BY <1>1, <2>2 DEF IInv, Gap, Gapless, Unbroken
  <2>4. Reached(StartAfter, u)
    BY <2>1, <2>3 DEF InLine
  <2>5. n <= u
    <3>1. PICK c \in Nat \cup {-1} : c = readUntil.commit /\ readUntil = LastPosition(c)
      BY <1>1 DEF IInv, Log
    <3>2. /\ IsPosition(readUntil) /\ readUntil.commit = c /\ readUntil.prepare = c
      BY <3>1, ReadPositions DEF LastPosition
    <3>3. Pos[n].commit \in Nat /\ Pos[n].prepare \in Nat /\ Pos[n].prepare <= Pos[n].commit
      BY LogOrder
    <3>4. ~Less(readUntil, Pos[n])
      BY <1>1, <3>2, <3>3 DEF Less
    <3> QED BY <2>2, <3>2, <3>4, UpToIs DEF Until
  <2>6. Reached(StartAfter, n)
    BY <2>1, <2>4, <2>5, ReachedEarlier
  <2> QED BY <1>1, <2>1, <2>3, <2>6, ReachedHanded
<1>2. IInv => LiveMeansCaughtUp
  BY <1>1 DEF LiveMeansCaughtUp
<1> QED
  BY <1>2, Invariant, PTL

\* A failed read, a stop or the end of a pass never moves the read position past an event
\* that has not been handed on: what the next pass skips is not lost.
THEOREM NothingBehind == Spec => []NothingBehindReadPosition
<1>1. ASSUME IInv, NEW n \in Events, n > StartAfter, Compare(Pos[n], nextReadPosition) = -1
      PROVE  Handed(n)
  <2>1. IsPosition(nextReadPosition) /\ IsPosition(Pos[n])
    BY <1>1, TypeOKIs, ReadPositions, LogOrder DEF IInv
  <2>2. n < Before(nextReadPosition)
    BY <1>1, <2>1, CompareLess, BeforeIs
  <2>3. Assured(StartAfter, n)
    BY <1>1, <2>2 DEF IInv, Behind
  <2> QED BY <2>3, AssuredHanded
<1>2. IInv => NothingBehindReadPosition
  BY <1>1 DEF NothingBehindReadPosition
<1> QED
  BY <1>2, Invariant, PTL

-----------------------------------------------------------------------------
(* The promise *)

\* Initially nothing is promised to have been delivered.
LEMMA PromiseInit == Init => Promise!Init
<1> SUFFICES ASSUME Init PROVE Promise!Init
  OBVIOUS
<1>1. written \in 0..MaxEvents /\ delivered = <<>> /\ promised = -1
  BY DEF Init, InitWith, Boundaries
<1> QED
  BY <1>1 DEF Promise!Init, Promised

\* A step writes, delivers the next event owed, ends the promise or does not touch it.
LEMMA PromiseStep ==
    ASSUME IInv, [Next]_allVars
    PROVE  [Promise!Next]_(Promise!vars)
<1>1. /\ Typed(Messages) /\ StartAfter \in Int /\ written \in Nat /\ MaxEvents \in Nat
  BY ReadNumbers, LogOrder DEF IInv
<1>2. ASSUME UNCHANGED written, Promised' = Promised,
             promised' = promised \/ (promised = -1 /\ promised' # -1)
      PROVE  [Promise!Next]_(Promise!vars)
  BY <1>2 DEF Promise!Next, Promise!End, Promise!vars
<1>3. CASE TryProcess
  <2>1. PICK e : e = Head(immediates).evt
    OBVIOUS
  <2>2. PICK new \in BOOLEAN : new <=> e > Last(StartAfter)
    OBVIOUS
  <2>3. TryProcessIf(IsNew(e), Pos[e])
    BY <1>3, <2>1 DEF TryProcess
  <2>4. e \in Events
    BY <1>1, <2>1, <2>3, TaskKinds, TypedFacts DEF TryProcessIf, Runs
  <2>5. TryProcessIf(new, Pos[e]) /\ (new <=> Head(immediates).evt > Last(StartAfter))
    BY <2>1, <2>2, <2>3, <2>4, NewIsLater DEF IInv, TryProcessIf
  <2>6. UNCHANGED <<promised, written>>
    BY <1>1, <2>5, PromiseTried
  <2>7. CASE Promised' = Promised
    BY <1>2, <2>6, <2>7
  <2>8. CASE promised = -1 /\ new /\ Promised = delivered /\ Promised' = Append(delivered, Head(immediates).evt)
    <3>1. PICK u \in Int : u = Until
      BY ReadNumbers DEF IInv
    <3>2. InLine(StartAfter, u, Named) /\ Exist(u, Named)
      BY <2>8, <3>1 DEF IInv, Gap, Gapless, Unbroken
    <3>3. e = Last(StartAfter) + 1
      BY <1>1, <2>1, <2>5, <2>8, <3>2, TriedReach DEF InLine
    <3>4. Last(StartAfter) = StartAfter + Len(delivered) /\ Len(delivered) \in Nat
      <4>1. \A i \in DOMAIN delivered : delivered[i] = StartAfter + i
        BY <3>2 DEF InLine
      <4>2. Last(StartAfter) = StartAfter + Len(delivered)
        BY <1>1, <4>1, LastIsNumber
      <4>3. delivered \in Seq(Events)
        BY <1>1, TypedFacts
      <4> QED BY <4>2, <4>3
    <3>5. e < written
      <4>1. immediates # <<>> /\ immediates \in Seq(Tasks) /\ IsTry(Head(immediates))
        BY <1>1, <2>5, TypedFacts DEF TryProcessIf, Runs, IsTry
      <4>2. 1 \in DOMAIN immediates /\ Head(immediates) = immediates[1]
        BY <4>1
      <4> QED BY <2>1, <3>2, <4>1, <4>2 DEF Exist
    <3>6. e = StartAfter + 1 + Len(delivered)
      BY <1>1, <3>3, <3>4
    <3>7. Promise!Deliver
      BY <2>1, <2>6, <2>8, <3>5, <3>6 DEF Promise!Deliver
    <3> QED BY <3>7 DEF Promise!Next
  <2> QED BY <1>1, <2>5, <2>7, <2>8, PromiseTried
<1>4. CASE SharedNext
  BY <1>1, <1>2, <1>4, SharedPromise
<1>5. CASE Commit
  <2>1. PICK n \in Boundaries : n > written /\ WriteUpTo(n)
    BY <1>5 DEF Commit
  <2>2. n \in (written + 1)..MaxEvents
    BY <1>1, <2>1 DEF Boundaries
  <2>3. written' = n /\ UNCHANGED <<promised, delivered>>
    BY <2>1 DEF WriteUpTo, seen
  <2> QED BY <2>2, <2>3 DEF Promise!Next, Promise!Write, Promised
<1>6. CASE HandlePage \/ HandleConfirmed \/ AnswerRead \/ Confirm \/ UNCHANGED allVars
  <2>1. UNCHANGED <<written, promised, delivered>>
    BY <1>6 DEF HandlePage, HandlePageUntil, HandleConfirmed, HandleConfirmedBy,
                AnswerRead, Confirm, ConfirmWith, Answer, server, seen, allVars, vars
  <2>2. Promised' = Promised
    BY <2>1 DEF Promised
  <2> QED BY <1>2, <2>1, <2>2
<1> QED
  BY <1>3, <1>4, <1>5, <1>6 DEF Next

\* Until it ends, the subscription delivers every event after the starting point once, in
\* the order of the log and without a gap, wherever pages cut transactions.
THEOREM DeliversAsPromised == Spec => ImplementsPromise
<1> QED
  BY PromiseInit, PromiseStep, Invariant, PTL DEF Spec, ImplementsPromise, Promise!Spec
=============================================================================
