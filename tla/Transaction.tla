------------------------------ MODULE Transaction ------------------------------
(***************************************************************************)
(* An explicit transaction: startTransaction hands the program an          *)
(* EsTransaction, whose write and commit go to the server as operations of *)
(* their own, answered in any number of steps later.  The program may call *)
(* them at any moment: neither _isCommitted nor an answer still to come is *)
(* looked at.  Other programs append to the stream meanwhile.              *)
(*                                                                         *)
(* ConnectionLogicHandler models how an operation travels; here are the    *)
(* requests on their way, in the order they were enqueued, and the server, *)
(* which serves one connection's requests in order.                        *)
(***************************************************************************)
EXTENDS Integers, SequencesExt

CONSTANTS
    Events,    \* what the program may write
    MaxCalls,  \* bound: calls of write and commit
    MaxOthers, \* bound: events other programs append
    Faults     \* what may go wrong: a call "denied", timed out, taken for a bad
               \* request or made when the stream is "deleted", an answer that is
               \* "unparsable", a "close", a write with "noCallback"

ASSUME ConstantsAssumption ==
    /\ MaxCalls \in Nat /\ MaxOthers \in Nat
    /\ Faults \subseteq {"denied", "timeout", "badRequest", "deleted", "unparsable", "close",
                       "noCallback"}

VARIABLES
    handed,    \* the EsTransaction: not asked for, asked for, or its transaction id
    isCommitted, \* _isCommitted
    closed,    \* the connection is closed
    crashed,   \* an exception has ended the process
    calls,     \* calls of write and commit
    outcome,   \* of each call, what its callback was given
    requests,  \* on their way to the server: indices of calls, 0 for the start
    answers,   \* on their way back
    expected,  \* transactionData.expectedVersion: "any" or "empty"
    open,      \* the server has the transaction
    prepared,  \* the calls whose events the server keeps for the commit
    stream,    \* the stream's events
    committer  \* the call that committed, 0 while none has

vars == <<handed, isCommitted, closed, crashed, calls, outcome, requests, answers, expected,
          open, prepared, stream, committer>>

Other == "other"

\* write: `given' is what the program gave, `sent' what is sent.
Call(op, given, sent, hasCb) == [op |-> op, given |-> given, sent |-> sent, hasCb |-> hasCb]

\* An answer: the result it carries, a BadRequest package, or a payload that cannot be
\* parsed, whatever the server did.
Results == {"Success", "AccessDenied", "PrepareTimeout", "CommitTimeout", "WrongExpectedVersion",
            "InvalidTransaction", "StreamDeleted", "BadRequest", "Unparsable"}

\* What a callback may have been given: an error made of the server's word, what the
\* parser threw, or a result; "pending" while it has not been called.
Outcomes == {"pending", "error", "exception"} \cup Results

\* Calls with any list of events.
CallRecords == [op : {"write", "commit"}, given : Seq(Events), sent : Seq(Events), hasCb : BOOLEAN]

\* The variables hold what the program, the wire and the server put there.
TypeOK ==
    /\ handed \in {"no", "asked", "failed", "valid", "invalid"}
    /\ {isCommitted, closed, crashed, open} \subseteq BOOLEAN
    /\ calls \in Seq(CallRecords)
    /\ outcome \in Seq(Outcomes) /\ Len(outcome) = Len(calls)
    /\ requests \in Seq(0..Len(calls))
    /\ answers \in Seq([call : 0..Len(calls), result : Results])
    /\ expected \in {"any", "empty"}
    /\ prepared \in Seq(DOMAIN calls)
    /\ stream \in Seq(Events \cup {Other})
    /\ committer \in 0..Len(calls)

Init ==
    /\ handed = "no" /\ isCommitted = FALSE
    /\ closed = FALSE /\ crashed = FALSE
    /\ calls = <<>> /\ outcome = <<>>
    /\ requests = <<>> /\ answers = <<>>
    /\ expected \in {"any", "empty"}
    /\ open = FALSE /\ prepared = <<>> /\ stream = <<>> /\ committer = 0

-----------------------------------------------------------------------------
(* The program *)

\* Mutation: a message is put in front of those that are queued.
EnqueueInFront(request) == requests' = <<request>> \o requests

Enqueue(request) == requests' = Append(requests, request)

StartTransaction ==
    /\ handed = "no" /\ ~closed
    /\ handed' = "asked"
    /\ Enqueue(0)
    /\ UNCHANGED <<isCommitted, closed, crashed, calls, outcome, answers, expected, open,
                   prepared, stream, committer>>

\* On a closed connection the callback gets an error, and is missed when there is
\* none.
Issue(call) ==
    /\ handed \in {"valid", "invalid"} /\ ~crashed
    /\ Len(calls) < MaxCalls
    /\ calls' = Append(calls, call)
    /\ \/ /\ closed
          /\ outcome' = Append(outcome, "error")
          /\ crashed' = ~call.hasCb
          /\ UNCHANGED requests
       \/ /\ ~closed
          /\ outcome' = Append(outcome, "pending")
          /\ Enqueue(Len(calls) + 1)
          /\ UNCHANGED crashed
    /\ UNCHANGED <<handed, closed, answers, expected, open, prepared, stream, committer>>

\* write(events, cb) or write(cb).
Write ==
    /\ \E events \in {<<e>> : e \in Events} \cup {<<>>} : Issue(Call("write", events, events, TRUE))
    /\ UNCHANGED isCommitted

\* write(events): what is taken for the callback are the events.
WriteWithoutCallback ==
    /\ "noCallback" \in Faults
    /\ \E e \in Events : Issue(Call("write", <<e>>, <<>>, FALSE))
    /\ UNCHANGED isCommitted

Commit ==
    /\ Issue(Call("commit", <<>>, <<>>, TRUE))
    /\ isCommitted' = TRUE

\* The connection is closed: answers are lost, and with them the requests that were
\* written last.
Close ==
    /\ "close" \in Faults /\ ~closed /\ ~crashed
    /\ closed' = TRUE
    /\ \E n \in 0..Len(requests) : requests' = SubSeq(requests, 1, n)
    /\ answers' = <<>>
    /\ UNCHANGED <<handed, isCommitted, crashed, calls, outcome, expected, open, prepared, stream,
                   committer>>

-----------------------------------------------------------------------------
(* The callbacks *)

\* The results finish turns into errors.
IsRefusal(op, result) ==
    \/ result \in {"BadRequest", "AccessDenied", "WrongExpectedVersion"}
    \/ result = "StreamDeleted" /\ op = "commit"

\* Mutation: the callback gets the name of the error.
OutcomeNamed(op, result) == IF IsRefusal(op, result) THEN "Error" ELSE result

\* Mutation: a timeout is an error.
OutcomeTimeout(op, result) == IF result # "Success" THEN "error" ELSE result

\* finish passes on what the parser threw, turns refusals into errors and hands on all
\* other results, a timeout and an invalid transaction among them.
Outcome(op, result) ==
    CASE result = "Unparsable"    -> "exception"
      [] IsRefusal(op, result)    -> "error"
      [] OTHER                    -> result

Receive ==
    /\ answers # <<>> /\ ~closed /\ ~crashed
    /\ answers' = Tail(answers)
    /\ UNCHANGED <<isCommitted, closed, calls, requests, expected, open, prepared, stream,
                   committer>>

\* The transaction's id is taken from any result that is no error.
HandTransaction ==
    /\ Receive
    /\ Head(answers).call = 0
    /\ handed' = CASE Outcome("start", Head(answers).result) \in {"error", "exception"} -> "failed"
                   [] Head(answers).result = "Success" -> "valid"
                   [] OTHER -> "invalid"
    /\ UNCHANGED <<outcome, crashed>>

CallBack ==
    /\ Receive
    /\ Head(answers).call # 0
    /\ LET i == Head(answers).call IN
       /\ outcome' = [outcome EXCEPT ![i] = Outcome(calls[i].op, Head(answers).result)]
       /\ crashed' = ~calls[i].hasCb
    /\ UNCHANGED handed

-----------------------------------------------------------------------------
(* The server *)

\* The next request, that of call i, is answered.
Serve(i, result) ==
    /\ requests # <<>> /\ Head(requests) = i
    /\ requests' = Tail(requests)
    /\ answers' = Append(answers, [call |-> i, result |-> result])
    /\ UNCHANGED <<handed, isCommitted, closed, crashed, calls, outcome, expected>>

\* What may come instead of an answer that says what was done.
Unclear(timeout) == (IF "timeout" \in Faults THEN {timeout} ELSE {})
                    \cup (IF "unparsable" \in Faults THEN {"Unparsable"} ELSE {})

Denials == (IF "denied" \in Faults THEN {"AccessDenied"} ELSE {})
           \cup (IF "badRequest" \in Faults THEN {"BadRequest"} ELSE {})
           \cup (IF "deleted" \in Faults THEN {"StreamDeleted"} ELSE {})

\* The id is that of a transaction that is still open.
Valid == open /\ handed = "valid"

\* The results of a request that has no effect; `spent' is the result of one that
\* comes too late or has no transaction.
Refusals(timeout, spent) ==
    Unclear(timeout) \cup Denials \cup (IF Valid THEN {} ELSE {spent, "InvalidTransaction"})

ServeStart ==
    /\ \/ /\ \E result \in {"Success"} \cup Unclear("PrepareTimeout") : Serve(0, result)
          /\ open' = TRUE
       \/ /\ \E result \in Unclear("PrepareTimeout") \cup Denials : Serve(0, result)
          /\ UNCHANGED open
    /\ UNCHANGED <<prepared, stream, committer>>

IsNext(op) == requests # <<>> /\ Head(requests) # 0 /\ calls[Head(requests)].op = op

\* A write after the commit may be taken, and is never committed.
ServeWrite ==
    /\ IsNext("write")
    /\ \/ /\ Valid
          /\ \E result \in {"Success"} \cup Unclear("PrepareTimeout") : Serve(Head(requests), result)
          /\ prepared' = Append(prepared, Head(requests))
       \/ /\ \E result \in Refusals("PrepareTimeout", "Success") : Serve(Head(requests), result)
          /\ UNCHANGED prepared
    /\ UNCHANGED <<open, stream, committer>>

\* The events the server keeps, in the order it got them.
PreparedEvents == FlattenSeq([k \in DOMAIN prepared |-> calls[prepared[k]].sent])

\* A commit that times out, or whose answer cannot be parsed, may have been done.
ServeCommit ==
    /\ IsNext("commit")
    /\ LET i == Head(requests) IN
       \/ /\ Valid /\ (expected = "empty" => stream = <<>>)
          /\ \E result \in {"Success"} \cup Unclear("CommitTimeout") : Serve(i, result)
          /\ stream' = stream \o PreparedEvents
          /\ open' = FALSE /\ committer' = i
       \/ /\ Valid /\ expected = "empty" /\ stream # <<>>
          /\ Serve(i, "WrongExpectedVersion")
          /\ UNCHANGED <<open, stream, committer>>
       \/ /\ \E result \in Refusals("CommitTimeout", "InvalidTransaction") : Serve(i, result)
          /\ UNCHANGED <<open, stream, committer>>
    /\ UNCHANGED prepared

OtherAppends ==
    /\ Cardinality({i \in DOMAIN stream : stream[i] = Other}) < MaxOthers
    /\ stream' = Append(stream, Other)
    /\ UNCHANGED <<handed, isCommitted, closed, crashed, calls, outcome, requests, answers,
                   expected, open, prepared, committer>>

Next == \/ StartTransaction \/ Write \/ WriteWithoutCallback \/ Commit \/ Close
        \/ HandTransaction \/ CallBack
        \/ ServeStart \/ ServeWrite \/ ServeCommit \/ OtherAppends

Spec == Init /\ [][Next]_vars

-----------------------------------------------------------------------------
(* Properties *)

\* The events the server kept follow the first n of the stream, and all else is others'.
CommittedAfter(n) ==
    /\ n + Len(PreparedEvents) <= Len(stream)
    /\ \A i \in DOMAIN stream :
           stream[i] = IF n < i /\ i <= n + Len(PreparedEvents) THEN PreparedEvents[i - n] ELSE Other

\* What gets into the stream are the events of writes called before the commit that
\* was done, together and in the order of the calls: no later write slips in,
\* whatever is called while the commit is on its way, and no write overtakes another.
CommitsCallsInOrder ==
    committer # 0 =>
        /\ \A j, k \in DOMAIN prepared : j < k => prepared[j] < prepared[k]
        /\ \A k \in DOMAIN prepared : prepared[k] < committer
        /\ \E n \in 0..Len(stream) : CommittedAfter(n)

\* A program that is told its commit succeeded finds every event in the stream of
\* the writes it was told succeeded and called before the commit; one that forgot a
\* callback has ended before it is told.
AcknowledgedWritesCommitted ==
    \A k \in DOMAIN calls : calls[k].op = "commit" /\ outcome[k] = "Success" =>
        \A i \in 1..(k - 1) : calls[i].op = "write" =>
            /\ calls[i].hasCb /\ outcome[i] # "pending"
            /\ outcome[i] = "Success" =>
                   i \in Range(prepared) /\ Range(calls[i].given) \subseteq Range(stream)

\* A commit whose callback got an error made of the server's word, or of a closed
\* connection, has not been done, so it may be tried again.  The callback cannot tell
\* from an exception of the parser, nor from a timeout, whether it has.
RefusedMeansNotCommitted ==
    committer # 0 => outcome[committer] # "error"
=============================================================================
