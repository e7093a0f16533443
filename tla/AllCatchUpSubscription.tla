----------------------- MODULE AllCatchUpSubscription -----------------------
(***************************************************************************)
(* A catch-up subscription to all streams (EsAllCatchUpSubscription):      *)
(* events are compared by their positions in the log, and the second pass  *)
(* reads on from where the first one ended.                                *)
(*                                                                         *)
(* The server is an assumption: a page starts at the first event not       *)
(* before the position asked for, and NextPosition is past the commit of   *)
(* its last event, inside that commit when the page cuts a transaction,    *)
(* and the position asked for when the page is empty.                      *)
(***************************************************************************)
EXTENDS CatchUpSubscription, Position, FiniteSets

CONSTANT
    Pos \* the position of each event in the log

\* The events of a commit are written in order, before the commit record is, unless
\* one record is both: then it is the commit's only event.
ASSUME PosAssumption ==
    /\ Pos \in [Events -> [commit : Nat, prepare : Nat]]
    /\ \A n \in Events : Pos[n].prepare <= Pos[n].commit
    /\ \A m, n \in Events : m < n => Compare(Pos[m], Pos[n]) = -1
    /\ \A m, n \in Events :
           m < n /\ Pos[m].commit = Pos[n].commit => Pos[n].prepare < Pos[n].commit
    /\ StartAfter \in Events \cup {-1}

VARIABLE nextReadPosition \* _nextReadPosition

allVars == <<vars, nextReadPosition>>

Messages == [type : {"Read"}, at : [commit : Nat, prepare : Nat]]
            \cup [type : {"Page"}, events : Seq(Events), next : [commit : Nat, prepare : Nat],
                  end : BOOLEAN]
            \cup [type : {"Confirmed"}, last : Nat \cup {-1}]
            \cup [type : {"Event"}, evt : Events]
            \cup {Subscribe, Unsubscribe, CloseConnection, Failure, Dropped}

\* Each variable holds what the code puts there.
TypeOK ==
    /\ SharedTypeOK
    /\ IsPosition(lastProcessed) /\ IsPosition(readUntil)
    /\ nextReadPosition \in [commit : Nat, prepare : Nat]
    /\ queue \in Seq(Messages) /\ inbound \in Seq(Messages) /\ requests \subseteq Messages

\* The numbers of events at which no transaction is cut.
Boundaries ==
    {n \in 0..MaxEvents : n \in {0, MaxEvents} \/ Pos[n - 1].commit # Pos[n].commit}

StartsAt == IF StartAfter = -1 THEN start ELSE Pos[StartAfter]

\* startProcessingAfter is the position of an event the program has seen.
Init ==
    /\ InitWith(IF StartAfter = -1 THEN end ELSE Pos[StartAfter], Read(StartsAt))
    /\ readUntil = end
    /\ written \in {n \in Boundaries : n > StartAfter}
    /\ nextReadPosition = StartsAt

IsNew(n) == Compare(Pos[n], lastProcessed) = 1

TryProcess ==
    /\ LET n == Head(immediates).evt IN TryProcessIf(IsNew(n), Pos[n])
    /\ UNCHANGED nextReadPosition

\* Mutation: the next position is left at its default, the end.
PageWithoutNext(events, next) == Page(events, end, events = <<>>)

\* IsEndOfStream is what the client makes of an answer without events.
AllPage(events, next) == Page(events, next, events = <<>>)

\* When the pass needs no further page.
IsDone(p) == IF pass = "first" THEN p.end ELSE Compare(p.next, readUntil) >= 0

\* Mutation: the read position moves on before _isDropped is looked at.
HandlePageMovingOn ==
    /\ HandlePageUntil(IsDone(Head(queue)))
    /\ nextReadPosition' = Head(queue).next

\* The read position is kept for the next page and the next pass.
HandlePage ==
    /\ HandlePageUntil(IsDone(Head(queue)))
    /\ nextReadPosition' = IF isDropped THEN nextReadPosition ELSE Head(queue).next

\* Mutation: the first position of the last transaction.
FirstPosition(commit) == Position(commit, 0)

\* The confirmation names a commit only; every event of it comes before this.
LastPosition(commit) == Position(commit, commit)

HandleConfirmed ==
    /\ HandleConfirmedBy(LastPosition(Head(queue).last), Read(nextReadPosition))
    /\ UNCHANGED nextReadPosition

Immediate ==
    \/ TryProcess \/ HandlePage \/ HandleConfirmed
    \/ SharedImmediate /\ UNCHANGED nextReadPosition

-----------------------------------------------------------------------------
(* The server *)

\* A transaction is committed: its events are in the log, all at once.
Commit ==
    /\ \E n \in Boundaries : /\ n > written
                             /\ \A m \in Boundaries : m > written => m >= n
                             /\ WriteUpTo(n)
    /\ UNCHANGED nextReadPosition

\* Where the read after a page goes on that asked for `at' and got the events from
\* number n up to before m.
NextPosition(at, n, m) ==
    CASE n = m -> at
      [] n # m /\ m \in Boundaries -> Position(Pos[m - 1].commit + 1, 0)
      [] OTHER -> Position(Pos[m - 1].commit, Pos[m - 1].prepare + 1)

AnswerRead ==
    /\ \E request \in requests :
        /\ request.type = "Read"
        /\ LET n == Cardinality({e \in 0..(written - 1) : Compare(Pos[e], request.at) = -1})
               m == IF n + PageSize >= written THEN written ELSE n + PageSize
           IN  Answer(request, AllPage(EventsFrom(n, m), NextPosition(request.at, n, m)))
    /\ UNCHANGED <<server, nextReadPosition>>

\* The last commit position, -1 when there is none.
Confirm ==
    /\ ConfirmWith(IF written = 0 THEN -1 ELSE Pos[written - 1].commit)
    /\ UNCHANGED nextReadPosition

-----------------------------------------------------------------------------
(* The system *)

Next == \/ TryProcess \/ HandlePage \/ HandleConfirmed
        \/ SharedNext /\ UNCHANGED nextReadPosition
        \/ Commit \/ AnswerRead \/ Confirm

Fairness == /\ WF_allVars(Immediate)
            /\ WF_allVars(AnswerRead) /\ WF_allVars(Confirm)
            /\ WF_allVars(Receive /\ UNCHANGED nextReadPosition)
            /\ WF_allVars(Unsubscribe \in requests /\ Drop /\ UNCHANGED nextReadPosition)

Spec     == Init /\ [][Next]_allVars
FairSpec == Spec /\ Fairness

-----------------------------------------------------------------------------
(* Properties *)

\* The promise of OrderedDelivery, for the events of all streams in the order of
\* the log: wherever pages cut transactions, none of their events is lost or
\* repeated between the two passes and the live events.
Promise == INSTANCE OrderedDelivery
    WITH From      <- StartAfter + 1,
         delivered <- Promised,
         ended     <- (promised # -1)

ImplementsPromise == Promise!Spec

\* 'live' means caught up with the whole transaction the confirmation named.
LiveMeansCaughtUp ==
    lives > 0 /\ promised = -1 =>
        \A n \in Events : n > StartAfter /\ Pos[n].commit <= readUntil.commit => Handed(n)

\* A read that fails in the first pass is made up for by the second: no event is
\* behind the read position that has not been handed on.
NothingBehindReadPosition ==
    \A n \in Events :
        n > StartAfter /\ n < written /\ Compare(Pos[n], nextReadPosition) = -1 => Handed(n)

\* Every event written after the starting point is delivered in the end, unless
\* the subscription is stopped or dropped, a read of the second pass fails or the
\* connection is closed.
EveryEventDelivered ==
    \A n \in Events :
        n > StartAfter /\ written > n ~>
            \/ \E i \in DOMAIN delivered : delivered[i] = n
            \/ stops > 0 \/ promised # -1 \/ connection # "Connected"
=============================================================================
