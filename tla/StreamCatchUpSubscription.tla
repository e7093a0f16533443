---------------------- MODULE StreamCatchUpSubscription ----------------------
(***************************************************************************)
(* A catch-up subscription to one stream (EsStreamCatchUpSubscription):    *)
(* events are compared by their numbers, and both passes read the stream   *)
(* from its start.                                                         *)
(***************************************************************************)
EXTENDS CatchUpSubscription

NoStream == [type |-> "NoStream"]

Messages == [type : {"Read"}, at : 0..MaxEvents]
            \cup [type : {"Page"}, events : Seq(Events), next : 0..MaxEvents, end : BOOLEAN]
            \cup [type : {"Confirmed"}, last : Events \cup {-1}]
            \cup [type : {"Event"}, evt : Events]
            \cup {Subscribe, Unsubscribe, CloseConnection, Failure, NoStream, Dropped}

\* Each variable holds what the code puts there.
TypeOK ==
    /\ SharedTypeOK
    /\ lastProcessed \in Events \cup {-1, StartAfter}
    /\ readUntil \in Events \cup {-1}
    /\ queue \in Seq(Messages) /\ inbound \in Seq(Messages) /\ requests \subseteq Messages

\* Mutation: off by one.
StartsBefore == StartAfter - 1

\* `startProcessingAfter || -1': 0 counts as absent.
StartsAt == IF StartAfter = 0 THEN -1 ELSE StartAfter

Init ==
    /\ InitWith(StartsAt, Read(0))
    /\ readUntil = -1
    /\ written \in 0..MaxEvents

\* Mutation: 'dropped' is emitted by stop() itself, as before version 0.10.0.
TryProcessDroppingAtOnce ==
    /\ Runs("try")
    /\ MayStop /\ ~liveSub
    /\ LET n == Head(immediates).evt IN
       /\ n > lastProcessed
       /\ delivered' = Append(delivered, n)
       /\ lastProcessed' = n
    /\ stops' = stops + 1 /\ shouldStop' = TRUE
    /\ TellDropped
    /\ immediates' = Tail(immediates)
    /\ UNCHANGED <<liveSub, isDropped, liveQueue, allowProcessing, pass, readUntil, connection,
                   queue, listening, wire, server, stopsAtClose, lives>>

\* Mutation: the last event processed is not filtered out.
IsNotOlder(n) == n >= lastProcessed

IsNew(n) == n > lastProcessed

TryProcess == LET n == Head(immediates).evt IN TryProcessIf(IsNew(n), n)

\* Mutation: the second pass ends one event early.
IsDoneEarly(p) == IF pass = "first" THEN p.end ELSE p.next >= readUntil

\* When the pass needs no further page.
IsDone(p) == IF pass = "first" THEN p.end ELSE p.next > readUntil

HandlePage == HandlePageUntil(IsDone(Head(queue)))

\* The stream does not exist: the pass is over.
HandleNoStream ==
    /\ Dispatch("NoStream")
    /\ PassDone(<<>>)
    /\ UNCHANGED <<lastProcessed, isDropped, readUntil, connection, listening, wire, server,
                   stopsAtClose, delivered, drops, promised>>

HandleConfirmed == HandleConfirmedBy(Head(queue).last, Read(0))

Immediate == SharedImmediate \/ TryProcess \/ HandlePage \/ HandleNoStream \/ HandleConfirmed

-----------------------------------------------------------------------------
(* The server *)

WriteEvent == written < MaxEvents /\ WriteUpTo(written + 1)

\* A page ends before the next event to read: one past the last when it got there.
AnswerRead ==
    \E n \in 0..MaxEvents :
        LET atEnd == n + PageSize >= written
            next  == IF atEnd THEN written ELSE n + PageSize
        IN  /\ Answer(Read(n), IF written = 0
                               THEN NoStream
                               ELSE Page(EventsFrom(n, next), next, atEnd))
            /\ UNCHANGED server

Confirm == ConfirmWith(written - 1)

-----------------------------------------------------------------------------
(* The system *)

Next == \/ TryProcess \/ HandlePage \/ HandleNoStream \/ HandleConfirmed
        \/ SharedNext
        \/ WriteEvent \/ AnswerRead \/ Confirm

Fairness == SharedFairness /\ WF_vars(Immediate) /\ WF_vars(AnswerRead) /\ WF_vars(Confirm)

Spec     == Init /\ [][Next]_vars
FairSpec == Spec /\ Fairness

-----------------------------------------------------------------------------
(* Properties *)

\* Until 'dropped', and until a read of the second pass fails, the listener sees
\* what OrderedDelivery promises: neither the overlap of the two passes and the
\* live events nor their interleaving loses, repeats or reorders an event.
Promise == INSTANCE OrderedDelivery
    WITH From      <- StartsAt + 1,
         delivered <- Promised,
         ended     <- (promised # -1)

ImplementsPromise == Promise!Spec

\* 'live' means caught up: by then every event up to the one the confirmation
\* named has been delivered or is about to be.
LiveMeansCaughtUp ==
    lives > 0 /\ promised = -1 => \A n \in (StartsAt + 1)..readUntil : Handed(n)

\* CHANGELOG.md: dropping is asynchronous so that lastProcessedEventNumber is
\* that of the last event delivered when 'dropped' is emitted.
LastProcessedAtDrop ==
    [][drops' # drops =>
          lastProcessed = IF delivered' = <<>> THEN StartsAt ELSE delivered'[Len(delivered')]]_vars

\* Every event written after the starting point is delivered in the end, unless
\* the subscription is stopped or dropped, a read of the second pass fails or the
\* connection is closed.
EveryEventDelivered ==
    \A n \in Events :
        n >= StartsAt + 1 /\ written > n ~>
            \/ \E i \in DOMAIN delivered : delivered[i] = n
            \/ stops > 0 \/ promised # -1 \/ connection # "Connected"

\* The test read_all_existing_events_and_keep_listening_to_new_ones: whatever is
\* delivered starts with the first event and leaves none out.
DeliveredWithoutGap == \A i \in DOMAIN delivered : delivered[i] = StartsAt + i

\* startProcessingAfter: processing starts after that event.
StartsAfterTheGivenEvent == \A i \in DOMAIN delivered : delivered[i] > StartAfter
=============================================================================
