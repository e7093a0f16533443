--------------------------- MODULE TransactionProofs ---------------------------
(***************************************************************************)
(* Proofs about Transaction for every set of events, every number of calls *)
(* and every choice of faults.                                             *)
(***************************************************************************)
EXTENDS Transaction, SequenceTheorems, WellFoundedInduction, TLAPS

-----------------------------------------------------------------------------
(* The inductive invariant *)

\* The request of call i is on its way, or its answer is.
Underway(i) ==
    \/ \E b \in DOMAIN requests : requests[b] = i
    \/ \E a \in DOMAIN answers : answers[a].call = i

\* The callback of call i has been given r, or will be.
Told(i, r) ==
    \/ outcome[i] = r
    \/ \E a \in DOMAIN answers : answers[a].call = i /\ answers[a].result = r

\* What is on its way is in the order of the calls, answers before requests.
InOrder ==
    /\ \A a, b \in DOMAIN requests : a < b => requests[a] < requests[b]
    /\ \A a, b \in DOMAIN answers : a < b => answers[a].call < answers[b].call
    /\ \A a \in DOMAIN answers, b \in DOMAIN requests : answers[a].call < requests[b]

\* There is no call before the program was handed a transaction, and nothing of the
\* start is on its way after that.
StartFirst ==
    /\ handed = "no" => requests = <<>> /\ answers = <<>>
    /\ handed \in {"no", "asked", "failed"} => calls = <<>>
    /\ handed \in {"failed", "valid", "invalid"} => ~Underway(0)

\* A callback is called once: not while the request or its answer is on its way.
UnderwayPending == \A i \in DOMAIN calls : Underway(i) => outcome[i] = "pending"

\* While the connection is open, no call is lost.
PendingUnderway == ~closed => \A i \in DOMAIN calls : outcome[i] = "pending" => Underway(i)

\* The program lives on only if it gave every callback that was called, and a result
\* comes after those of all earlier calls.
HeardInOrder ==
    /\ ~crashed => \A i \in DOMAIN calls : outcome[i] # "pending" => calls[i].hasCb
    /\ \A k \in DOMAIN calls : outcome[k] \in Results =>
           \A i \in 1..(k - 1) : outcome[i] # "pending" /\ calls[i].hasCb

\* The server got the writes in the order of the calls, and all before what it has
\* still to serve; so it did the commit.
PreparedInOrder ==
    /\ \A j, k \in DOMAIN prepared : j < k => prepared[j] < prepared[k]
    /\ \A k \in DOMAIN prepared, b \in DOMAIN requests : prepared[k] < requests[b]
    /\ committer # 0 =>
           /\ \A k \in DOMAIN prepared : prepared[k] < committer
           /\ \A b \in DOMAIN requests : committer < requests[b]

\* What a commit that was done may be told: an answer that cannot be parsed becomes
\* an exception.
DoneTold == {"pending", "Success", "CommitTimeout", "Unparsable", "exception"}

\* A commit is done once, and is not told that it was refused.
CommitterTold ==
    committer # 0 =>
        /\ ~open
        /\ \A r \in Outcomes : Told(committer, r) => r \in DoneTold

\* Only the commit that was done succeeds.
CommitTold == \A k \in DOMAIN calls :
    calls[k].op = "commit" /\ Told(k, "Success") => committer = k

\* A write that succeeds was kept, unless there was no transaction to keep it in: it
\* came after the commit, or there never will be a commit.
WriteTold == \A i \in DOMAIN calls :
    calls[i].op = "write" /\ Told(i, "Success") =>
        \/ i \in Range(prepared)
        \/ ~Valid /\ (committer # 0 => committer < i)

\* With a callback, what is sent is what was given.
SentIsGiven == \A i \in DOMAIN calls : calls[i].hasCb => calls[i].sent = calls[i].given

\* The stream has other programs' events only, until the commit puts in what was kept.
InStream ==
    /\ committer = 0 => \A i \in DOMAIN stream : stream[i] = Other
    /\ committer # 0 => \E n \in 0..Len(stream) : CommittedAfter(n)

\* Inductive, and all the properties follow from it.
IInv ==
    /\ TypeOK /\ InOrder /\ StartFirst /\ UnderwayPending /\ PendingUnderway /\ HeardInOrder
    /\ PreparedInOrder /\ CommitterTold /\ CommitTold /\ WriteTold /\ SentIsGiven /\ InStream

-----------------------------------------------------------------------------
(* Type correctness *)

\* What finish makes of a result is an outcome.
LEMMA OutcomeType == \A op, r : r \in Results => Outcome(op, r) \in Outcomes
BY DEF Outcome, IsRefusal, Results, Outcomes

\* A done commit's answer makes a done commit's outcome, and success is told by success
\* only.
LEMMA OutcomeTold ==
    ASSUME NEW op, NEW r \in Results
    PROVE  /\ Outcome(op, r) # "pending"
           /\ r \in DoneTold => Outcome(op, r) \in DoneTold
           /\ Outcome(op, r) = "Success" <=> r = "Success"
BY DEF Outcome, IsRefusal, Results, DoneTold

\* What a call changes.
LEMMA IssueEffect ==
    ASSUME TypeOK, NEW call \in CallRecords, Issue(call)
    PROVE  /\ handed \in {"valid", "invalid"} /\ ~crashed
           /\ calls' = Append(calls, call)
           /\ calls' \in Seq(CallRecords) /\ Len(calls') = Len(calls) + 1 /\ Len(calls) \in Nat
           /\ \A i \in 1..Len(calls) : calls'[i] = calls[i]
           /\ calls'[Len(calls) + 1] = call
           /\ outcome' \in Seq(Outcomes) /\ Len(outcome') = Len(calls) + 1
           /\ \A i \in 1..Len(calls) : outcome'[i] = outcome[i]
           /\ closed => /\ outcome'[Len(calls) + 1] = "error"
                        /\ crashed' = ~call.hasCb
                        /\ requests' = requests
           /\ ~closed => /\ outcome'[Len(calls) + 1] = "pending"
                         /\ crashed' = crashed
                         /\ requests' = Append(requests, Len(calls) + 1)
           /\ UNCHANGED <<handed, closed, answers, expected, open, prepared, stream, committer>>
<1>1. calls' = Append(calls, call)
  BY DEF Issue
<1>2. calls \in Seq(CallRecords) /\ outcome \in Seq(Outcomes) /\ Len(outcome) = Len(calls)
  BY DEF TypeOK
<1>3. PICK o \in {"error", "pending"} : outcome' = Append(outcome, o)
  BY DEF Issue
<1>4. o \in Outcomes
  BY DEF Outcomes
<1>5. closed => /\ o = "error"
                /\ crashed' = ~call.hasCb
                /\ requests' = requests
  BY <1>2, <1>3 DEF Issue
<1>6. ~closed => /\ o = "pending"
                 /\ crashed' = crashed
                 /\ requests' = Append(requests, Len(calls) + 1)
  BY <1>2, <1>3 DEF Issue, Enqueue
<1> QED
  BY <1>1, <1>2, <1>3, <1>4, <1>5, <1>6 DEF Issue

\* Calls are added, never taken away: what refers to them stays in range.
LEMMA MoreCalls ==
    ASSUME TypeOK, NEW n \in Nat, Len(calls) <= n
    PROVE  /\ requests \in Seq(0..n)
           /\ answers \in Seq([call : 0..n, result : Results])
           /\ prepared \in Seq(1..n)
           /\ committer \in 0..n
<1>1. Len(calls) \in Nat /\ DOMAIN calls = 1..Len(calls)
  BY DEF TypeOK
<1>2. /\ 0..Len(calls) \subseteq 0..n
      /\ 1..Len(calls) \subseteq 1..n
      /\ [call : 0..Len(calls), result : Results] \subseteq [call : 0..n, result : Results]
  BY <1>1
<1>3. requests \in Seq(0..n)
  BY <1>2, SeqMonotonic DEF TypeOK
<1>4. answers \in Seq([call : 0..n, result : Results])
  <2> DEFINE S == [call : 0..Len(calls), result : Results]
             T == [call : 0..n, result : Results]
  <2>1. answers \in Seq(S) /\ S \subseteq T
    BY <1>2 DEF TypeOK
  <2> HIDE DEF S, T
  <2>2. answers \in Seq(T)
    BY <2>1, SeqMonotonic
  <2> QED BY <2>2 DEF T
<1>5. prepared \in Seq(1..n)
  BY <1>1, <1>2, SeqMonotonic DEF TypeOK
<1> QED
  BY <1>2, <1>3, <1>4, <1>5 DEF TypeOK

\* A call keeps the types.
LEMMA IssueType ==
    ASSUME TypeOK, NEW call \in CallRecords, Issue(call), isCommitted' \in BOOLEAN
    PROVE  TypeOK'
<1> DEFINE n == Len(calls) + 1
<1>1. n \in Nat /\ Len(calls) <= n /\ Len(calls') = n /\ DOMAIN calls' = 1..n
  BY IssueEffect
<1>2. /\ requests \in Seq(0..n)
      /\ answers \in Seq([call : 0..n, result : Results])
      /\ prepared \in Seq(1..n)
      /\ committer \in 0..n
  BY <1>1, MoreCalls
<1>3. requests' \in Seq(0..n)
  <2>1. Append(requests, n) \in Seq(0..n)
    BY <1>1, <1>2
  <2> QED BY <1>2, <2>1, IssueEffect
<1>4. crashed' \in BOOLEAN
  BY IssueEffect DEF CallRecords, TypeOK
<1> HIDE DEF n
<1> QED
  BY <1>1, <1>2, <1>3, <1>4, IssueEffect DEF TypeOK

\* What a request served changes.
LEMMA ServeEffect ==
    ASSUME TypeOK, NEW i, NEW result \in Results, Serve(i, result)
    PROVE  /\ requests # <<>> /\ i = Head(requests) /\ i \in 0..Len(calls)
           /\ requests' = Tail(requests) /\ requests' \in Seq(0..Len(calls))
           /\ answers' = Append(answers, [call |-> i, result |-> result])
           /\ answers' \in Seq([call : 0..Len(calls), result : Results])
           /\ UNCHANGED <<handed, isCommitted, closed, crashed, calls, outcome, expected>>
<1>1. requests \in Seq(0..Len(calls)) /\ answers \in Seq([call : 0..Len(calls), result : Results])
  BY DEF TypeOK
<1>2. requests # <<>> /\ i = Head(requests) /\ i \in 0..Len(calls)
  BY <1>1 DEF Serve
<1>3. [call |-> i, result |-> result] \in [call : 0..Len(calls), result : Results]
  BY <1>2
<1> QED
  BY <1>1, <1>2, <1>3 DEF Serve

\* So does a request served.
LEMMA ServeType ==
    ASSUME TypeOK, NEW i, NEW result \in Results, Serve(i, result),
           open' \in BOOLEAN, prepared' \in Seq(DOMAIN calls),
           stream' \in Seq(Events \cup {Other}), committer' \in 0..Len(calls)
    PROVE  TypeOK'
BY ServeEffect DEF TypeOK

\* The results a request may be answered with are results.
LEMMA RefusalsType ==
    /\ Unclear("PrepareTimeout") \subseteq Results /\ Unclear("CommitTimeout") \subseteq Results
    /\ Denials \subseteq Results
    /\ Refusals("PrepareTimeout", "Success") \subseteq Results
    /\ Refusals("CommitTimeout", "InvalidTransaction") \subseteq Results
    /\ {"Success", "WrongExpectedVersion"} \subseteq Results
BY DEF Unclear, Denials, Refusals, Results

\* Induction over the natural numbers, of a set: the least number outside of T would
\* be 0 or follow a number in T.
LEMMA Induction ==
    ASSUME NEW T, 0 \in T, \A n \in Nat : n \in T => n + 1 \in T
    PROVE  Nat \subseteq T
<1> DEFINE R == OpToRel(<, Nat)
<1> DEFINE Missed == {n \in Nat : n \notin T}
<1>1. IsWellFoundedOn(R, Nat)
  BY NatLessThanWellFounded
<1>2. \A x, y \in Nat : y < x => <<y, x>> \in R
  BY DEF OpToRel
<1>3. Missed \subseteq Nat
  OBVIOUS
<1> HIDE DEF R
<1>4. SUFFICES ASSUME Missed # {} PROVE FALSE
  OBVIOUS
<1>5. PICK x \in Missed : \A y \in Missed : ~ (<<y, x>> \in R)
  BY <1>1, <1>3, <1>4, WFMin
<1>6. x \in Nat /\ x # 0 /\ x \notin T
  BY <1>5
<1>7. x - 1 \in Nat /\ x - 1 < x /\ (x - 1) + 1 = x
  BY <1>6
<1>8. x - 1 \notin Missed
  BY <1>2, <1>5, <1>6, <1>7
<1> QED
  BY <1>6, <1>7, <1>8

\* FlattenSeq makes a sequence of the elements of all the sequences it is given.
LEMMA FlattenSeqProperties ==
    ASSUME NEW S, NEW seqs \in Seq(Seq(S))
    PROVE  /\ FlattenSeq(seqs) \in Seq(S)
           /\ \A j \in DOMAIN seqs : Range(seqs[j]) \subseteq Range(FlattenSeq(seqs))
<1> DEFINE N == Len(seqs)
           IsFlat(f, n) == f = [i \in 1..n |-> IF i = 1 THEN seqs[i] ELSE f[i - 1] \o seqs[i]]
           flat == CHOOSE f : IsFlat(f, N)
<1>1. N \in Nat /\ DOMAIN seqs = 1..N /\ \A j \in 1..N : seqs[j] \in Seq(S)
  OBVIOUS
<1>2. CASE N = 0
  BY <1>1, <1>2 DEF FlattenSeq
<1>3. CASE N # 0
  <2>1. FlattenSeq(seqs) = flat[N]
    BY <1>3 DEF FlattenSeq
  <2>2. IsFlat(flat, N)
    <3> DEFINE Made == {n \in Nat : \E f : IsFlat(f, n)}
    <3>1. 0 \in Made
      <4>1. IsFlat(<<>>, 0)
        OBVIOUS
      <4> QED BY <4>1
    <3>2. ASSUME NEW n \in Nat, n \in Made
          PROVE  n + 1 \in Made
      <4>1. PICK f : IsFlat(f, n)
        BY <3>2
      <4> DEFINE g == [i \in 1..(n + 1) |->
                          IF i = n + 1 THEN IF i = 1 THEN seqs[i] ELSE f[i - 1] \o seqs[i]
                                       ELSE f[i]]
      <4>2. \A i \in 1..n : g[i] = f[i]
        OBVIOUS
      <4>3. \A i \in 1..n : f[i] = IF i = 1 THEN seqs[i] ELSE f[i - 1] \o seqs[i]
        BY <4>1
      <4>4. \A i \in 1..(n + 1) : g[i] = IF i = 1 THEN seqs[i] ELSE g[i - 1] \o seqs[i]
        BY <4>2, <4>3
      <4>5. IsFlat(g, n + 1)
        BY <4>4
      <4> HIDE DEF g, IsFlat
      <4> QED BY <4>5
    <3> HIDE DEF Made
    <3>3. N \in Made
      BY <1>1, <3>1, <3>2, Induction
    <3>4. \E f : IsFlat(f, N)
      BY <3>3 DEF Made
    <3> HIDE DEF IsFlat
    <3> QED BY <3>4
  <2>3. \A i \in 1..N : flat[i] = IF i = 1 THEN seqs[i] ELSE flat[i - 1] \o seqs[i]
    <3> HIDE DEF flat
    <3> QED BY <2>2
  <2> HIDE DEF flat, IsFlat
  <2> DEFINE Good(n) == /\ flat[n] \in Seq(S)
                        /\ \A j \in 1..n : Range(seqs[j]) \subseteq Range(flat[n])
             Holds == {n \in Nat : n \in 1..N => Good(n)}
  <2>4. 0 \in Holds
    OBVIOUS
  <2>5. ASSUME NEW n \in Nat, n \in Holds, n + 1 \in 1..N
        PROVE  Good(n + 1)
    <3>1. CASE n = 0
      BY <1>1, <2>3, <2>5, <3>1
    <3>2. CASE n # 0
      <4>1. n \in 1..N
        BY <2>5, <3>2
      <4>2. flat[n + 1] = flat[n] \o seqs[n + 1]
        <5>1. (n + 1) - 1 = n /\ n + 1 # 1
          BY <4>1
        <5> QED BY <2>3, <2>5, <5>1
      <4>3. flat[n] \in Seq(S) /\ seqs[n + 1] \in Seq(S)
        BY <1>1, <2>5, <4>1
      <4>4. Range(flat[n + 1]) = Range(flat[n]) \cup Range(seqs[n + 1])
        BY <4>2, <4>3, RangeConcatenation
      <4>5. \A j \in 1..n : Range(seqs[j]) \subseteq Range(flat[n])
        BY <2>5, <4>1
      <4>6. flat[n + 1] \in Seq(S)
        BY <4>2, <4>3
      <4> QED BY <4>4, <4>5, <4>6
    <3> QED BY <3>1, <3>2
  <2>6. \A n \in Nat : n \in Holds => n + 1 \in Holds
    <3> SUFFICES ASSUME NEW n \in Nat, n \in Holds PROVE n + 1 \in Holds
      OBVIOUS
    <3>1. n + 1 \in Nat
      OBVIOUS
    <3>2. n + 1 \in 1..N => Good(n + 1)
      BY <2>5
    <3> HIDE DEF Good
    <3> QED BY <3>1, <3>2, Zenon
  <2> HIDE DEF Holds
  <2>7. N \in Holds
    BY <1>1, <2>4, <2>6, Induction
  <2>8. N \in 1..N
    BY <1>1, <1>3
  <2> QED BY <1>1, <2>1, <2>7, <2>8 DEF Holds
<1> QED BY <1>2, <1>3

\* The events kept are events, and those of every write that was kept.
LEMMA PreparedEventsType ==
    ASSUME TypeOK
    PROVE  /\ PreparedEvents \in Seq(Events)
           /\ \A k \in DOMAIN prepared : Range(calls[prepared[k]].sent) \subseteq Range(PreparedEvents)
<1> DEFINE seqs == [k \in DOMAIN prepared |-> calls[prepared[k]].sent]
<1>1. \A k \in DOMAIN prepared : calls[prepared[k]] \in CallRecords
  BY SMTT(30) DEF TypeOK
<1>2. seqs \in Seq(Seq(Events)) /\ DOMAIN seqs = DOMAIN prepared
  <2>1. DOMAIN prepared = 1..Len(prepared) /\ Len(prepared) \in Nat
    BY DEF TypeOK
  <2>2. \A k \in DOMAIN prepared : seqs[k] \in Seq(Events)
    BY <1>1 DEF CallRecords
  <2> QED BY <2>1, <2>2
<1>3. \A k \in DOMAIN prepared : seqs[k] = calls[prepared[k]].sent
  OBVIOUS
<1>4. PreparedEvents = FlattenSeq(seqs)
  BY DEF PreparedEvents
<1> HIDE DEF seqs
<1> QED
  BY <1>2, <1>3, <1>4, FlattenSeqProperties

\* Every step keeps the types.
LEMMA TypeStep ==
    ASSUME TypeOK, [Next]_vars
    PROVE  TypeOK'
<1>1. CASE StartTransaction
  <2>1. requests' \in Seq(0..Len(calls))
    BY <1>1 DEF StartTransaction, Enqueue, TypeOK
  <2> QED BY <1>1, <2>1 DEF StartTransaction, TypeOK
<1>2. CASE Write
  <2>1. PICK events \in {<<e>> : e \in Events} \cup {<<>>} : Issue(Call("write", events, events, TRUE))
    BY <1>2 DEF Write
  <2>2. events \in Seq(Events)
    <3>1. <<>> \in Seq(Events) /\ \A e \in Events : <<e>> \in Seq(Events)
      OBVIOUS
    <3> QED BY <3>1
  <2>3. Call("write", events, events, TRUE) \in CallRecords
    BY <2>2 DEF Call, CallRecords
  <2>4. isCommitted' \in BOOLEAN
    BY <1>2 DEF Write, TypeOK
  <2> QED BY <2>1, <2>3, <2>4, IssueType
<1>3. CASE WriteWithoutCallback
  <2>1. PICK e \in Events : Issue(Call("write", <<e>>, <<>>, FALSE))
    BY <1>3 DEF WriteWithoutCallback
  <2>2. <<e>> \in Seq(Events) /\ <<>> \in Seq(Events)
    OBVIOUS
  <2>3. Call("write", <<e>>, <<>>, FALSE) \in CallRecords
    BY <2>2 DEF Call, CallRecords
  <2>4. isCommitted' \in BOOLEAN
    BY <1>3 DEF WriteWithoutCallback, TypeOK
  <2> QED BY <2>1, <2>3, <2>4, IssueType
<1>4. CASE Commit
  <2>1. <<>> \in Seq(Events)
    OBVIOUS
  <2>2. Call("commit", <<>>, <<>>, TRUE) \in CallRecords
    BY <2>1 DEF Call, CallRecords
  <2> QED BY <1>4, <2>2, IssueType DEF Commit
<1>5. CASE Close
  <2>1. PICK n \in 0..Len(requests) : requests' = SubSeq(requests, 1, n)
    BY <1>5 DEF Close
  <2>2. requests' \in Seq(0..Len(calls))
    BY <2>1, SMTT(30) DEF TypeOK
  <2>3. answers' \in Seq([call : 0..Len(calls), result : Results])
    BY <1>5 DEF Close
  <2> QED BY <1>5, <2>2, <2>3 DEF Close, TypeOK
<1>6. CASE HandTransaction
  <2>1. answers' \in Seq([call : 0..Len(calls), result : Results])
    BY <1>6 DEF HandTransaction, Receive, TypeOK
  <2>2. handed' \in {"no", "asked", "failed", "valid", "invalid"}
    BY <1>6 DEF HandTransaction
  <2> QED BY <1>6, <2>1, <2>2 DEF HandTransaction, Receive, TypeOK
<1>7. CASE CallBack
  <2>1. /\ answers' \in Seq([call : 0..Len(calls), result : Results])
        /\ Head(answers) \in [call : 0..Len(calls), result : Results]
    <3> DEFINE S == [call : 0..Len(calls), result : Results]
    <3>1. answers \in Seq(S) /\ answers # <<>> /\ answers' = Tail(answers)
      BY <1>7 DEF CallBack, Receive, TypeOK
    <3> HIDE DEF S
    <3>2. answers' \in Seq(S) /\ Head(answers) \in S
      BY <3>1
    <3> QED BY <3>2 DEF S
  <2> DEFINE o == Outcome(calls[Head(answers).call].op, Head(answers).result)
  <2>2. o \in Outcomes
    BY <2>1, OutcomeType
  <2>3. outcome' \in Seq(Outcomes) /\ Len(outcome') = Len(outcome)
    <3> DEFINE i == Head(answers).call
    <3>1. outcome \in Seq(Outcomes) /\ i \in 1..Len(outcome) /\ o \in Outcomes
      BY <1>7, <2>1, <2>2 DEF CallBack, TypeOK
    <3>2. outcome' = [outcome EXCEPT ![i] = o]
      BY <1>7 DEF CallBack
    <3> HIDE DEF i, o
    <3> QED BY <3>1, <3>2
  <2>4. crashed' \in BOOLEAN
    BY <1>7 DEF CallBack
  <2> QED BY <1>7, <2>1, <2>3, <2>4 DEF CallBack, Receive, TypeOK
<1>8. CASE ServeStart
  <2>1. PICK result \in Results : Serve(0, result)
    BY <1>8, RefusalsType DEF ServeStart
  <2>2. open' \in BOOLEAN
    BY <1>8 DEF ServeStart, TypeOK
  <2> QED BY <1>8, <2>1, <2>2, ServeType DEF ServeStart, TypeOK
<1>9. CASE ServeWrite
  <2>1. PICK result \in Results : Serve(Head(requests), result)
    BY <1>9, RefusalsType DEF ServeWrite
  <2>2. Head(requests) \in DOMAIN calls
    BY <1>9 DEF ServeWrite, IsNext, TypeOK
  <2>3. prepared' \in Seq(DOMAIN calls)
    <3> DEFINE D == DOMAIN calls
               i == Head(requests)
    <3>1. prepared \in Seq(D) /\ i \in D
      BY <2>2 DEF TypeOK
    <3>2. prepared' \in {prepared, Append(prepared, i)}
      BY <1>9 DEF ServeWrite
    <3> HIDE DEF D, i
    <3>3. prepared' \in Seq(D)
      BY <3>1, <3>2
    <3> QED BY <3>3 DEF D
  <2> QED BY <1>9, <2>1, <2>3, ServeType DEF ServeWrite, TypeOK
<1>10. CASE ServeCommit
  <2>1. PICK result \in Results : Serve(Head(requests), result)
    BY <1>10, RefusalsType DEF ServeCommit
  <2>2. Head(requests) \in DOMAIN calls
    BY <1>10 DEF ServeCommit, IsNext, TypeOK
  <2>3. stream' \in Seq(Events \cup {Other})
    <3>1. PreparedEvents \in Seq(Events \cup {Other})
      BY PreparedEventsType, SeqMonotonic
    <3>2. stream \o PreparedEvents \in Seq(Events \cup {Other})
      BY <3>1 DEF TypeOK
    <3> QED BY <1>10, <3>2 DEF ServeCommit, TypeOK
  <2>4. open' \in BOOLEAN /\ prepared' \in Seq(DOMAIN calls)
    BY <1>10 DEF ServeCommit, TypeOK
  <2>5. committer' \in 0..Len(calls)
    <3>1. Head(requests) \in 0..Len(calls) /\ committer \in 0..Len(calls)
      BY <2>1, ServeEffect DEF TypeOK
    <3>2. committer' \in {committer, Head(requests)}
      BY <1>10 DEF ServeCommit
    <3> QED BY <3>1, <3>2
  <2> QED BY <2>1, <2>3, <2>4, <2>5, ServeType
<1>11. CASE OtherAppends
  <2>1. stream' \in Seq(Events \cup {Other})
    BY <1>11 DEF OtherAppends, TypeOK
  <2> QED BY <1>11, <2>1 DEF OtherAppends, TypeOK
<1>12. CASE UNCHANGED vars
  BY <1>12 DEF vars, TypeOK
<1> QED
  BY <1>1, <1>2, <1>3, <1>4, <1>5, <1>6, <1>7, <1>8, <1>9, <1>10, <1>11, <1>12 DEF Next

\* They hold at the start.
LEMMA InitType == Init => TypeOK
<1> SUFFICES ASSUME Init PROVE TypeOK
  OBVIOUS
<1>1. /\ <<>> \in Seq(CallRecords) /\ <<>> \in Seq(Outcomes)
      /\ <<>> \in Seq(0..0) /\ <<>> \in Seq([call : 0..0, result : Results])
      /\ <<>> \in Seq({}) /\ <<>> \in Seq(Events \cup {Other})
  OBVIOUS
<1>2. calls = <<>> /\ Len(calls) = 0 /\ DOMAIN calls = {} /\ Len(outcome) = 0
  BY DEF Init
<1>3. /\ calls \in Seq(CallRecords) /\ outcome \in Seq(Outcomes)
      /\ requests \in Seq(0..Len(calls)) /\ prepared \in Seq(DOMAIN calls)
      /\ answers \in Seq([call : 0..Len(calls), result : Results])
      /\ stream \in Seq(Events \cup {Other})
  BY <1>1, <1>2 DEF Init
<1>4. /\ handed \in {"no", "asked", "failed", "valid", "invalid"}
      /\ {isCommitted, closed, crashed, open} \subseteq BOOLEAN
      /\ expected \in {"any", "empty"}
  BY DEF Init
<1>5. Len(outcome) = Len(calls) /\ committer \in 0..Len(calls)
  BY <1>2 DEF Init
<1> QED
  BY <1>3, <1>4, <1>5 DEF TypeOK

\* Every variable holds what the program, the wire and the server put there.
THEOREM TypeCorrect == Spec => []TypeOK
<1> QED BY InitType, TypeStep, PTL DEF Spec

-----------------------------------------------------------------------------
(* Every step keeps the invariant *)

\* Serving a request keeps the order: its answer goes behind all others, and before
\* those of the requests that are left.
LEMMA ServeOrder ==
    ASSUME TypeOK, InOrder, NEW i, NEW result \in Results, Serve(i, result)
    PROVE  /\ InOrder'
           /\ \A j : Underway(j)' <=> Underway(j)
           /\ \A j, r : Told(j, r)' <=> Told(j, r) \/ (j = i /\ r = result)
           /\ \A b \in DOMAIN requests' :
                  i < requests'[b] /\ \E c \in DOMAIN requests : requests[c] = requests'[b]
           /\ Underway(i)
<1> DEFINE S == [call : 0..Len(calls), result : Results]
           e == [call |-> i, result |-> result]
<1>1. /\ requests \in Seq(0..Len(calls)) /\ answers \in Seq(S) /\ e \in S
      /\ requests # <<>> /\ requests' = Tail(requests) /\ answers' = Append(answers, e)
      /\ i = Head(requests) /\ outcome' = outcome
  BY ServeEffect DEF TypeOK
<1>2. e.call = i /\ e.result = result
  OBVIOUS
<1> HIDE DEF S, e
<1>3. /\ Len(requests') = Len(requests) - 1 /\ Len(requests) \in Nat \ {0} /\ requests[1] = i
      /\ DOMAIN requests = 1..Len(requests) /\ DOMAIN requests' = 1..(Len(requests) - 1)
      /\ \A b \in 1..(Len(requests) - 1) : requests'[b] = requests[b + 1]
      /\ \A b \in 1..Len(requests) : requests[b] \in Int
  BY <1>1
<1>4. /\ Len(answers) \in Nat /\ DOMAIN answers = 1..Len(answers)
      /\ DOMAIN answers' = 1..(Len(answers) + 1)
      /\ \A a \in 1..Len(answers) : answers'[a] = answers[a] /\ answers[a].call \in Int
      /\ answers'[Len(answers) + 1] = e
  <2>1. /\ Len(answers) \in Nat /\ DOMAIN answers = 1..Len(answers)
        /\ DOMAIN answers' = 1..(Len(answers) + 1)
        /\ \A a \in 1..Len(answers) : answers'[a] = answers[a] /\ answers[a] \in S
        /\ answers'[Len(answers) + 1] = e
    BY <1>1
  <2>2. \A s \in S : s.call \in Int
    BY DEF S, TypeOK
  <2> QED BY <2>1, <2>2
<1>5. \A b \in DOMAIN requests' :
          i < requests'[b] /\ \E c \in DOMAIN requests : requests[c] = requests'[b]
  <2> SUFFICES ASSUME NEW b \in 1..(Len(requests) - 1)
               PROVE  i < requests'[b] /\ \E c \in DOMAIN requests : requests[c] = requests'[b]
    BY <1>3
  <2>1. 1 \in DOMAIN requests /\ b + 1 \in DOMAIN requests /\ 1 < b + 1
    BY <1>3
  <2>2. requests[1] < requests[b + 1]
    BY <2>1 DEF InOrder
  <2> QED BY <1>3, <2>1, <2>2
<1>6. InOrder'
  <2>1. \A a, b \in DOMAIN requests' : a < b => requests'[a] < requests'[b]
    <3> SUFFICES ASSUME NEW a \in 1..(Len(requests) - 1), NEW b \in 1..(Len(requests) - 1), a < b
                 PROVE  requests'[a] < requests'[b]
      BY <1>3
    <3>1. a + 1 \in DOMAIN requests /\ b + 1 \in DOMAIN requests /\ a + 1 < b + 1
      BY <1>3
    <3> QED BY <1>3, <3>1 DEF InOrder
  <2>2. \A a, b \in DOMAIN answers' : a < b => answers'[a].call < answers'[b].call
    <3> SUFFICES ASSUME NEW a \in 1..(Len(answers) + 1), NEW b \in 1..(Len(answers) + 1), a < b
                 PROVE  answers'[a].call < answers'[b].call
      BY <1>4
    <3>1. CASE b \in 1..Len(answers)
      <4>1. a \in DOMAIN answers /\ b \in DOMAIN answers
        BY <1>4, <3>1
      <4>2. answers[a].call < answers[b].call
        BY <4>1 DEF InOrder
      <4> QED BY <1>4, <4>1, <4>2
    <3>2. CASE b = Len(answers) + 1
      <4>1. a \in DOMAIN answers /\ 1 \in DOMAIN requests
        BY <1>3, <1>4, <3>2
      <4>2. answers[a].call < requests[1]
        BY <4>1 DEF InOrder
      <4> QED BY <1>2, <1>3, <1>4, <3>2, <4>1, <4>2
    <3> QED BY <1>4, <3>1, <3>2
  <2>3. \A a \in DOMAIN answers', b \in DOMAIN requests' : answers'[a].call < requests'[b]
    <3> SUFFICES ASSUME NEW a \in 1..(Len(answers) + 1), NEW b \in DOMAIN requests'
                 PROVE  answers'[a].call < requests'[b]
      BY <1>4
    <3>1. CASE a \in 1..Len(answers)
      BY <1>4, <1>5, <3>1 DEF InOrder
    <3>2. CASE a = Len(answers) + 1
      BY <1>2, <1>4, <1>5, <3>2
    <3> QED BY <1>4, <3>1, <3>2
  <2> QED BY <2>1, <2>2, <2>3 DEF InOrder
<1>7. \A j : Underway(j)' <=> Underway(j)
  <2> SUFFICES ASSUME NEW j PROVE Underway(j)' <=> Underway(j)
    OBVIOUS
  <2>1. (\E b \in DOMAIN requests : requests[b] = j)
            <=> j = i \/ \E b \in DOMAIN requests' : requests'[b] = j
    <3>1. ASSUME NEW b \in DOMAIN requests, requests[b] = j
          PROVE  j = i \/ \E c \in DOMAIN requests' : requests'[c] = j
      <4>1. CASE b = 1
        BY <1>3, <3>1, <4>1
      <4>2. CASE b # 1
        <5>1. b - 1 \in DOMAIN requests' /\ requests'[b - 1] = requests[(b - 1) + 1] /\ (b - 1) + 1 = b
          BY <1>3, <3>1, <4>2
        <5> QED BY <3>1, <5>1
      <4> QED BY <4>1, <4>2
    <3>2. i = j => \E b \in DOMAIN requests : requests[b] = j
      BY <1>3
    <3> QED BY <1>5, <3>1, <3>2
  <2>2. (\E a \in DOMAIN answers' : answers'[a].call = j)
            <=> j = i \/ \E a \in DOMAIN answers : answers[a].call = j
    <3>1. Len(answers) + 1 \in DOMAIN answers' /\ \A a \in DOMAIN answers : a \in DOMAIN answers'
      BY <1>4
    <3>2. \A a \in DOMAIN answers' : a \in DOMAIN answers \/ a = Len(answers) + 1
      BY <1>4
    <3> QED BY <1>2, <1>4, <3>1, <3>2
  <2> QED BY <2>1, <2>2 DEF Underway
<1>8. \A j, r : Told(j, r)' <=> Told(j, r) \/ (j = i /\ r = result)
  <2> SUFFICES ASSUME NEW j, NEW r PROVE Told(j, r)' <=> Told(j, r) \/ (j = i /\ r = result)
    OBVIOUS
  <2>1. Len(answers) + 1 \in DOMAIN answers' /\ \A a \in DOMAIN answers : a \in DOMAIN answers'
    BY <1>4
  <2>2. \A a \in DOMAIN answers' : a \in DOMAIN answers \/ a = Len(answers) + 1
    BY <1>4
  <2>3. (\E a \in DOMAIN answers' : answers'[a].call = j /\ answers'[a].result = r)
            <=> \/ j = i /\ r = result
                \/ \E a \in DOMAIN answers : answers[a].call = j /\ answers[a].result = r
    BY <1>2, <1>4, <2>1, <2>2
  <2> QED BY <1>1, <2>3 DEF Told
<1>9. Underway(i)
  BY <1>3 DEF Underway
<1> QED
  BY <1>5, <1>6, <1>7, <1>8, <1>9

\* The calls, and what refers to them.
LEMMA CallFacts ==
    ASSUME TypeOK
    PROVE  /\ Len(calls) \in Nat /\ DOMAIN calls = 1..Len(calls) /\ DOMAIN outcome = 1..Len(calls)
           /\ committer \in 0..Len(calls)
           /\ \A k \in DOMAIN prepared : prepared[k] \in 1..Len(calls)
           /\ \A b \in DOMAIN requests : requests[b] \in 0..Len(calls)
           /\ \A a \in DOMAIN answers : answers[a].call \in 0..Len(calls) /\ answers[a].result \in Results
           /\ \A i \in DOMAIN calls : calls[i] \in CallRecords
<1>1. \A a \in DOMAIN answers : answers[a] \in [call : 0..Len(calls), result : Results]
  <2> DEFINE S == [call : 0..Len(calls), result : Results]
  <2>1. answers \in Seq(S)
    BY DEF TypeOK
  <2> HIDE DEF S
  <2>2. \A a \in DOMAIN answers : answers[a] \in S
    BY <2>1
  <2> QED BY <2>2 DEF S
<1>2. Len(calls) \in Nat /\ DOMAIN calls = 1..Len(calls) /\ DOMAIN outcome = 1..Len(calls)
  BY DEF TypeOK
<1>3. /\ \A k \in DOMAIN prepared : prepared[k] \in 1..Len(calls)
      /\ \A b \in DOMAIN requests : requests[b] \in 0..Len(calls)
      /\ \A i \in DOMAIN calls : calls[i] \in CallRecords
  BY <1>2, SMTT(30) DEF TypeOK
<1> QED
  BY <1>1, <1>2, <1>3 DEF TypeOK

\* What a request served leaves as it was, whatever the server did.
LEMMA ServeKeeps ==
    ASSUME IInv, NEW i, NEW result \in Results, Serve(i, result)
    PROVE  /\ InOrder' /\ StartFirst' /\ UnderwayPending' /\ PendingUnderway' /\ HeardInOrder'
           /\ SentIsGiven'
<1> USE DEF IInv
<1>1. UNCHANGED <<handed, closed, crashed, calls, outcome>> /\ requests # <<>>
  BY ServeEffect
<1>2. \A j : Underway(j)' <=> Underway(j)
  BY ServeOrder
<1>3. InOrder'
  BY ServeOrder
<1>4. StartFirst'
  BY <1>1, <1>2 DEF StartFirst
<1>5. UnderwayPending'
  BY <1>1, <1>2 DEF UnderwayPending
<1>6. PendingUnderway'
  BY <1>1, <1>2 DEF PendingUnderway
<1>7. HeardInOrder'
  BY <1>1 DEF HeardInOrder
<1>8. SentIsGiven'
  BY <1>1 DEF SentIsGiven
<1> QED
  BY <1>3, <1>4, <1>5, <1>6, <1>7, <1>8

\* InStream does not depend on anything else.
LEMMA StreamKept ==
    ASSUME InStream, UNCHANGED <<calls, prepared, stream, committer>>
    PROVE  InStream'
BY DEF InStream, CommittedAfter, PreparedEvents

\* The start of the transaction is served before there are calls.
LEMMA ServeStartStep ==
    ASSUME IInv, ServeStart
    PROVE  IInv'
<1> USE DEF IInv
<1>1. PICK result \in Results : Serve(0, result)
  BY RefusalsType DEF ServeStart
<1>2. UNCHANGED <<handed, calls, outcome, prepared, stream, committer>>
  BY <1>1, ServeEffect DEF ServeStart
<1>3. TypeOK'
  BY TypeStep DEF Next
<1>4. Underway(0) /\ \A b \in DOMAIN requests' : \E c \in DOMAIN requests : requests[c] = requests'[b]
  BY <1>1, ServeOrder
<1>5. calls = <<>>
  BY <1>4 DEF StartFirst, TypeOK
<1>6. committer = 0 /\ DOMAIN calls = {}
  BY <1>5 DEF TypeOK
<1>7. PreparedInOrder'
  BY <1>2, <1>4, <1>6 DEF PreparedInOrder
<1>8. CommitterTold' /\ CommitTold' /\ WriteTold'
  BY <1>2, <1>6 DEF CommitterTold, CommitTold, WriteTold
<1>9. InStream'
  BY <1>2, StreamKept
<1> QED
  BY <1>1, <1>3, <1>7, <1>8, <1>9, ServeKeeps

\* A write is kept behind all that were kept, and only before the commit.
LEMMA ServeWriteStep ==
    ASSUME IInv, ServeWrite
    PROVE  IInv'
<1> USE DEF IInv
<1> DEFINE i == Head(requests)
<1>1. PICK result \in Results :
          /\ Serve(i, result)
          /\ \/ Valid /\ prepared' = Append(prepared, i)
             \/ (result = "Success" => ~Valid) /\ prepared' = prepared
  <2>1. CASE Valid /\ prepared' = Append(prepared, i)
    BY <2>1, RefusalsType DEF ServeWrite
  <2>2. CASE (\E result \in Refusals("PrepareTimeout", "Success") : Serve(i, result)) /\ prepared' = prepared
    <3>1. PICK result \in Refusals("PrepareTimeout", "Success") : Serve(i, result)
      BY <2>2
    <3>2. result = "Success" => ~Valid
      BY <3>1 DEF Refusals, Unclear, Denials
    <3> QED BY <2>2, <3>1, <3>2, RefusalsType
  <2> QED BY <2>1, <2>2 DEF ServeWrite
<1>2. UNCHANGED <<handed, calls, outcome, open, stream, committer>> /\ (Valid' <=> Valid)
  BY <1>1, ServeEffect DEF ServeWrite, Valid
<1>3. TypeOK'
  BY TypeStep DEF Next
<1>4. /\ 1 \in DOMAIN requests /\ requests[1] = i /\ i \in DOMAIN calls /\ calls[i].op = "write"
  BY CallFacts DEF ServeWrite, IsNext
<1>5. /\ \A b \in DOMAIN requests' :
             i < requests'[b] /\ \E c \in DOMAIN requests : requests[c] = requests'[b]
      /\ \A j, r : Told(j, r)' <=> Told(j, r) \/ (j = i /\ r = result)
  BY <1>1, ServeOrder
<1>6. committer # 0 => committer < i
  BY <1>4 DEF PreparedInOrder
<1>7. Valid => committer = 0
  BY DEF CommitterTold, Valid
<1>8. /\ \A k \in DOMAIN prepared : k \in DOMAIN prepared' /\ prepared'[k] = prepared[k]
      /\ prepared' # prepared => /\ DOMAIN prepared' = DOMAIN prepared \cup {Len(prepared) + 1}
                                 /\ prepared'[Len(prepared) + 1] = i /\ Valid
                                 /\ \A k \in DOMAIN prepared : k < Len(prepared) + 1
  <2> DEFINE D == DOMAIN calls
  <2>1. prepared \in Seq(D) /\ i \in D
    BY <1>4 DEF TypeOK
  <2> HIDE DEF D, i
  <2>2. CASE Valid /\ prepared' = Append(prepared, i)
    BY <2>1, <2>2
  <2>3. CASE prepared' = prepared
    BY <2>3
  <2> QED BY <1>1, <2>2, <2>3 DEF i
<1>9. \A k \in DOMAIN prepared : prepared[k] < i
  BY <1>4 DEF PreparedInOrder
<1> HIDE DEF i
<1>10. PreparedInOrder'
  <2>1. CASE prepared' = prepared
    BY <1>2, <1>5, <2>1 DEF PreparedInOrder
  <2>2. CASE prepared' # prepared
    <3>1. \A j, k \in DOMAIN prepared' : j < k => prepared'[j] < prepared'[k]
      <4> SUFFICES ASSUME NEW j \in DOMAIN prepared', NEW k \in DOMAIN prepared', j < k
                   PROVE  prepared'[j] < prepared'[k]
        OBVIOUS
      <4>1. j \in DOMAIN prepared
        <5>1. j # Len(prepared) + 1
          BY <1>8, <2>2 DEF TypeOK
        <5> QED BY <1>8, <2>2, <5>1
      <4>2. CASE k \in DOMAIN prepared
        BY <1>8, <4>1, <4>2 DEF PreparedInOrder
      <4>3. CASE k = Len(prepared) + 1
        BY <1>8, <1>9, <2>2, <4>1, <4>3
      <4> QED BY <1>8, <2>2, <4>2, <4>3
    <3>2. \A k \in DOMAIN prepared', b \in DOMAIN requests' : prepared'[k] < requests'[b]
      <4> SUFFICES ASSUME NEW k \in DOMAIN prepared', NEW b \in DOMAIN requests'
                   PROVE  prepared'[k] < requests'[b]
        OBVIOUS
      <4>1. CASE k \in DOMAIN prepared
        BY <1>5, <1>8, <4>1 DEF PreparedInOrder
      <4>2. CASE k = Len(prepared) + 1
        BY <1>5, <1>8, <2>2, <4>2
      <4> QED BY <1>8, <2>2, <4>1, <4>2
    <3>3. committer' = 0
      BY <1>2, <1>7, <1>8, <2>2
    <3> QED BY <3>1, <3>2, <3>3 DEF PreparedInOrder
  <2> QED BY <2>1, <2>2
<1>11. CommitterTold'
  <2>1. committer # 0 => committer # i
    BY <1>3, <1>4, <1>6, CallFacts
  <2> QED BY <1>2, <1>5, <2>1 DEF CommitterTold
<1>12. CommitTold'
  BY <1>2, <1>4, <1>5 DEF CommitTold
<1>13. WriteTold'
  <2> SUFFICES ASSUME NEW j \in DOMAIN calls, calls[j].op = "write", Told(j, "Success")'
               PROVE  \/ j \in Range(prepared')
                      \/ ~Valid /\ (committer # 0 => committer < j)
    BY <1>2 DEF WriteTold
  <2>1. Range(prepared) \subseteq Range(prepared')
    BY <1>8 DEF Range
  <2>2. CASE Told(j, "Success")
    BY <2>1, <2>2 DEF WriteTold
  <2>3. CASE j = i /\ result = "Success"
    <3>1. CASE prepared' = prepared /\ ~Valid
      BY <1>6, <2>3, <3>1
    <3>2. CASE prepared' = Append(prepared, i)
      <4>1. Len(prepared) + 1 \in DOMAIN prepared' /\ prepared'[Len(prepared) + 1] = i
        BY <3>2 DEF TypeOK
      <4> QED BY <2>3, <4>1 DEF Range
    <3> QED BY <1>1, <2>3, <3>1, <3>2 DEF i
  <2> QED BY <1>5, <2>2, <2>3
<1>14. InStream'
  <2>1. CASE prepared' = prepared
    BY <1>2, <2>1, StreamKept
  <2>2. CASE prepared' # prepared
    BY <1>2, <1>7, <1>8, <2>2 DEF InStream
  <2> QED BY <2>1, <2>2
<1> QED
  BY <1>1, <1>3, <1>10, <1>11, <1>12, <1>13, <1>14, ServeKeeps

\* A commit is done when none has been, with the writes kept, all called before it.
LEMMA ServeCommitStep ==
    ASSUME IInv, ServeCommit
    PROVE  IInv'
<1> USE DEF IInv
<1> DEFINE i == Head(requests)
<1>1. PICK result \in Results :
          /\ Serve(i, result)
          /\ \/ /\ Valid /\ result \in DoneTold
                /\ stream' = stream \o PreparedEvents /\ open' = FALSE /\ committer' = i
             \/ result # "Success" /\ UNCHANGED <<open, stream, committer>>
  <2>1. CASE \E result \in {"Success"} \cup Unclear("CommitTimeout") :
                 /\ Serve(i, result)
                 /\ Valid /\ stream' = stream \o PreparedEvents /\ open' = FALSE /\ committer' = i
    BY <2>1 DEF Unclear, Results, DoneTold
  <2>2. CASE Serve(i, "WrongExpectedVersion") /\ UNCHANGED <<open, stream, committer>>
    BY <2>2, RefusalsType
  <2>3. CASE (\E result \in Refusals("CommitTimeout", "InvalidTransaction") : Serve(i, result))
             /\ UNCHANGED <<open, stream, committer>>
    <3>1. PICK result \in Refusals("CommitTimeout", "InvalidTransaction") : Serve(i, result)
      BY <2>3
    <3>2. result # "Success"
      BY <3>1 DEF Refusals, Unclear, Denials
    <3> QED BY <2>3, <3>1, <3>2, RefusalsType
  <2> QED BY <2>1, <2>2, <2>3 DEF ServeCommit
<1>2. UNCHANGED <<handed, calls, outcome, prepared>>
  BY <1>1, ServeEffect DEF ServeCommit
<1>3. TypeOK'
  BY TypeStep DEF Next
<1>4. /\ 1 \in DOMAIN requests /\ requests[1] = i /\ i \in DOMAIN calls /\ calls[i].op = "commit"
      /\ i # 0
  <2>1. requests # <<>> /\ i # 0 /\ calls[i].op = "commit"
    BY DEF ServeCommit, IsNext
  <2>2. 1 \in DOMAIN requests /\ requests[1] = i
    BY <2>1 DEF TypeOK
  <2>3. i \in DOMAIN calls
    BY <2>1, <2>2, CallFacts
  <2> QED BY <2>1, <2>2, <2>3
<1>5. /\ \A b \in DOMAIN requests' :
             i < requests'[b] /\ \E c \in DOMAIN requests : requests[c] = requests'[b]
      /\ \A j, r : Told(j, r)' <=> Told(j, r) \/ (j = i /\ r = result)
      /\ Underway(i)
  BY <1>1, ServeOrder
<1>6. committer # 0 => committer < i /\ committer # i
  BY <1>4, CallFacts DEF PreparedInOrder
<1>7. Valid => committer = 0
  BY DEF CommitterTold, Valid
<1>8. \A k \in DOMAIN prepared : prepared[k] < i
  BY <1>4 DEF PreparedInOrder
<1>9. \A r : Told(i, r) => r = "pending"
  <2>1. outcome[i] = "pending"
    BY <1>4, <1>5 DEF UnderwayPending
  <2>2. \A a \in DOMAIN answers : answers[a].call < i
    BY <1>4 DEF InOrder
  <2>3. \A a \in DOMAIN answers : answers[a].call # i
    BY <1>4, <2>2, CallFacts
  <2> QED BY <2>1, <2>3 DEF Told
<1> HIDE DEF i
<1>10. CASE result # "Success" /\ UNCHANGED <<open, stream, committer>>
  <2>1. PreparedInOrder'
    BY <1>2, <1>5, <1>10 DEF PreparedInOrder
  <2>2. CommitterTold'
    BY <1>2, <1>5, <1>6, <1>10 DEF CommitterTold
  <2>3. CommitTold'
    BY <1>2, <1>5, <1>10 DEF CommitTold
  <2>4. WriteTold'
    BY <1>2, <1>5, <1>10 DEF WriteTold, Valid
  <2>5. InStream'
    BY <1>2, <1>10, StreamKept
  <2> QED BY <1>1, <1>3, <2>1, <2>2, <2>3, <2>4, <2>5, ServeKeeps
<1>11. CASE /\ Valid /\ result \in DoneTold
            /\ stream' = stream \o PreparedEvents /\ open' = FALSE /\ committer' = i
  <2>1. PreparedInOrder'
    BY <1>2, <1>5, <1>8, <1>11 DEF PreparedInOrder
  <2>2. CommitterTold'
    BY <1>5, <1>9, <1>11 DEF CommitterTold, DoneTold
  <2>3. CommitTold'
    BY <1>2, <1>3, <1>5, <1>7, <1>11, CallFacts DEF CommitTold
  <2>4. WriteTold'
    BY <1>2, <1>4, <1>5, <1>11 DEF WriteTold
  <2>5. InStream'
    <3> DEFINE P == PreparedEvents
    <3>n. PICK n \in Nat : n = Len(stream)
      BY DEF TypeOK
    <3>1. stream \in Seq(Events \cup {Other}) /\ P \in Seq(Events \cup {Other})
      <4>1. P \in Seq(Events)
        BY PreparedEventsType
      <4>2. P \in Seq(Events \cup {Other})
        BY <4>1, SeqMonotonic
      <4> QED BY <4>2 DEF TypeOK
    <3>2. \A k \in DOMAIN stream : stream[k] = Other
      BY <1>7, <1>11 DEF InStream
    <3>3. PreparedEvents' = P
      BY <1>2 DEF PreparedEvents
    <3> HIDE DEF P
    <3>4. /\ n \in Nat /\ Len(P) \in Nat /\ Len(stream') = n + Len(P)
          /\ DOMAIN stream' = 1..(n + Len(P))
          /\ \A k \in 1..n : stream'[k] = Other
          /\ \A k \in (n + 1)..(n + Len(P)) : stream'[k] = P[k - n]
      BY <1>11, <3>n, <3>1, <3>2, SMTT(30) DEF P
    <3>5. CommittedAfter(n)'
      BY <3>3, <3>4 DEF CommittedAfter
    <3>6. n \in 0..Len(stream')
      BY <3>4
    <3> QED BY <1>4, <1>11, <3>5, <3>6 DEF InStream
  <2> QED BY <1>1, <1>3, <2>1, <2>2, <2>3, <2>4, <2>5, ServeKeeps
<1> QED
  BY <1>1, <1>10, <1>11 DEF i

\* startTransaction sends the first request of all.
LEMMA StartTransactionStep ==
    ASSUME IInv, StartTransaction
    PROVE  IInv'
<1> USE DEF IInv
<1>1. /\ requests = <<>> /\ answers = <<>> /\ calls = <<>> /\ requests' = <<0>>
  BY DEF StartTransaction, StartFirst, Enqueue
<1>2. UNCHANGED <<closed, crashed, calls, outcome, answers, open, prepared, stream, committer>>
  BY DEF StartTransaction
<1>3. TypeOK'
  BY TypeStep DEF Next
<1>4. DOMAIN calls = {} /\ DOMAIN answers = {} /\ DOMAIN requests' = {1} /\ committer = 0
  BY <1>1, CallFacts
<1>5. DOMAIN prepared = {}
  BY <1>4, CallFacts
<1>6. InOrder'
  BY <1>1, <1>2, <1>4 DEF InOrder
<1>7. StartFirst'
  BY <1>1, <1>2 DEF StartFirst, StartTransaction
<1>8. UnderwayPending' /\ PendingUnderway' /\ HeardInOrder' /\ SentIsGiven'
  BY <1>2, <1>4 DEF UnderwayPending, PendingUnderway, HeardInOrder, SentIsGiven
<1>9. PreparedInOrder'
  BY <1>2, <1>4, <1>5 DEF PreparedInOrder
<1>10. CommitterTold' /\ CommitTold' /\ WriteTold'
  BY <1>2, <1>4 DEF CommitterTold, CommitTold, WriteTold
<1>11. InStream'
  BY <1>2, StreamKept
<1> QED
  BY <1>3, <1>6, <1>7, <1>8, <1>9, <1>10, <1>11

\* A call is later than all others, and its request goes behind theirs.
LEMMA IssueStep ==
    ASSUME IInv, TypeOK', NEW call \in CallRecords, Issue(call), call.hasCb => call.sent = call.given
    PROVE  IInv'
<1> USE DEF IInv
<1>0. PICK n \in Nat : n = Len(calls) + 1
  BY CallFacts
<1>1. /\ n \in Nat /\ DOMAIN calls = 1..(n - 1) /\ DOMAIN calls' = 1..n /\ n # 0
      /\ calls'[n] = call /\ \A j \in DOMAIN calls : calls'[j] = calls[j] /\ outcome'[j] = outcome[j]
      /\ outcome'[n] \in {"pending", "error"}
      /\ \A j \in DOMAIN calls' : j \in DOMAIN calls \/ j = n
      /\ \A j \in DOMAIN calls : j \in DOMAIN calls' /\ j < n /\ j # n
  <2>1. /\ Len(calls) \in Nat /\ DOMAIN calls = 1..Len(calls)
        /\ calls' \in Seq(CallRecords) /\ Len(calls') = n
    BY <1>0, IssueEffect, CallFacts
  <2>2. DOMAIN calls' = 1..n
    BY <1>0, <2>1
  <2>3. /\ calls'[n] = call /\ \A j \in DOMAIN calls : calls'[j] = calls[j] /\ outcome'[j] = outcome[j]
        /\ outcome'[n] \in {"pending", "error"}
    BY <1>0, <2>1, IssueEffect
  <2> QED BY <1>0, <2>1, <2>2, <2>3
<1>2. /\ handed \in {"valid", "invalid"} /\ ~crashed
      /\ closed => outcome'[n] = "error" /\ crashed' = ~call.hasCb /\ requests' = requests
      /\ ~closed => outcome'[n] = "pending" /\ crashed' = crashed /\ requests' = Append(requests, n)
      /\ UNCHANGED <<handed, closed, answers, expected, open, prepared, stream, committer>>
  BY <1>0, IssueEffect
<1>3. /\ committer \in 0..(n - 1)
      /\ \A k \in DOMAIN prepared : prepared[k] \in 1..(n - 1)
      /\ \A b \in DOMAIN requests : requests[b] \in 0..(n - 1)
      /\ \A a \in DOMAIN answers : answers[a].call \in 0..(n - 1)
  BY <1>0, CallFacts
<1>4. requests \in Seq(0..(n - 1))
  BY <1>0 DEF TypeOK
<1>5. DOMAIN requests = 1..Len(requests) /\ Len(requests) \in Nat
  BY <1>4
<1>6. /\ \A b \in DOMAIN requests : b \in DOMAIN requests' /\ requests'[b] = requests[b]
      /\ \A b \in DOMAIN requests' :
             \/ b \in DOMAIN requests
             \/ ~closed /\ requests'[b] = n /\ \A c \in DOMAIN requests : c < b
      /\ \A b, c \in DOMAIN requests' : b < c /\ c \in DOMAIN requests => b \in DOMAIN requests
      /\ \A b, c \in DOMAIN requests' : b < c /\ c \notin DOMAIN requests => b \in DOMAIN requests
      /\ ~closed => \E b \in DOMAIN requests' : requests'[b] = n
  <2>1. CASE closed
    BY <1>2, <2>1
  <2>2. CASE ~closed
    <3>1. /\ requests' = Append(requests, n)
          /\ DOMAIN requests' = 1..(Len(requests) + 1) /\ requests'[Len(requests) + 1] = n
          /\ \A b \in 1..Len(requests) : requests'[b] = requests[b]
      BY <1>2, <1>4, <1>5, <2>2, SMTT(30)
    <3>2. \A b \in DOMAIN requests' : b \in DOMAIN requests \/ b = Len(requests) + 1
      BY <1>5, <3>1
    <3>3. \A b \in DOMAIN requests : b < Len(requests) + 1 /\ b \in DOMAIN requests'
      BY <1>5, <3>1
    <3> QED BY <1>5, <2>2, <3>1, <3>2, <3>3
  <2> QED BY <2>1, <2>2
<1>7. \A j : Underway(j)' <=> Underway(j) \/ (~closed /\ j = n)
  BY <1>2, <1>6 DEF Underway
<1>8. \A j \in DOMAIN calls : \A r : Told(j, r)' <=> Told(j, r)
  BY <1>1, <1>2 DEF Told
<1>9. ~Told(n, "Success")'
  <2>1. \A a \in DOMAIN answers : answers[a].call # n
    BY <1>1, <1>3
  <2> QED BY <1>1, <1>2, <2>1 DEF Told
<1>10. InOrder'
  <2>1. \A a, b \in DOMAIN requests' : a < b => requests'[a] < requests'[b]
    <3> SUFFICES ASSUME NEW a \in DOMAIN requests', NEW b \in DOMAIN requests', a < b
                 PROVE  requests'[a] < requests'[b]
      OBVIOUS
    <3>1. a \in DOMAIN requests
      BY <1>6
    <3>2. CASE b \in DOMAIN requests
      BY <1>6, <3>1, <3>2 DEF InOrder
    <3>3. CASE b \notin DOMAIN requests
      BY <1>1, <1>3, <1>6, <3>1, <3>3
    <3> QED BY <3>2, <3>3
  <2>2. \A a \in DOMAIN answers, b \in DOMAIN requests' : answers[a].call < requests'[b]
    <3> SUFFICES ASSUME NEW a \in DOMAIN answers, NEW b \in DOMAIN requests'
                 PROVE  answers[a].call < requests'[b]
      OBVIOUS
    <3>1. CASE b \in DOMAIN requests
      BY <1>6, <3>1 DEF InOrder
    <3>2. CASE b \notin DOMAIN requests
      BY <1>1, <1>3, <1>6, <3>2
    <3> QED BY <3>1, <3>2
  <2> QED BY <1>2, <2>1, <2>2 DEF InOrder
<1>11. StartFirst'
  BY <1>1, <1>2, <1>7 DEF StartFirst
<1>12. UnderwayPending'
  BY <1>1, <1>2, <1>3, <1>6, <1>7 DEF UnderwayPending, Underway
<1>13. PendingUnderway'
  BY <1>1, <1>2, <1>7 DEF PendingUnderway
<1>14. HeardInOrder'
  <2>1. \A j \in DOMAIN calls' : ~crashed' /\ outcome'[j] # "pending" => calls'[j].hasCb
    BY <1>1, <1>2 DEF HeardInOrder
  <2>2. \A k \in DOMAIN calls' : outcome'[k] \in Results =>
            \A j \in 1..(k - 1) : outcome'[j] # "pending" /\ calls'[j].hasCb
    <3> SUFFICES ASSUME NEW k \in DOMAIN calls', outcome'[k] \in Results, NEW j \in 1..(k - 1)
                 PROVE  outcome'[j] # "pending" /\ calls'[j].hasCb
      OBVIOUS
    <3>1. k # n
      BY <1>1 DEF Results
    <3>2. k \in DOMAIN calls /\ j \in DOMAIN calls
      BY <1>1, <3>1
    <3> QED BY <1>1, <3>2 DEF HeardInOrder
  <2> QED BY <2>1, <2>2 DEF HeardInOrder
<1>15. PreparedInOrder'
  <2>1. \A k \in DOMAIN prepared, b \in DOMAIN requests' : prepared[k] < requests'[b]
    <3> SUFFICES ASSUME NEW k \in DOMAIN prepared, NEW b \in DOMAIN requests'
                 PROVE  prepared[k] < requests'[b]
      OBVIOUS
    <3>1. CASE b \in DOMAIN requests
      BY <1>6, <3>1 DEF PreparedInOrder
    <3>2. CASE b \notin DOMAIN requests
      BY <1>1, <1>3, <1>6, <3>2
    <3> QED BY <3>1, <3>2
  <2>2. committer # 0 => \A b \in DOMAIN requests' : committer < requests'[b]
    <3> SUFFICES ASSUME committer # 0, NEW b \in DOMAIN requests'
                 PROVE  committer < requests'[b]
      OBVIOUS
    <3>1. CASE b \in DOMAIN requests
      BY <1>6, <3>1 DEF PreparedInOrder
    <3>2. CASE b \notin DOMAIN requests
      BY <1>1, <1>3, <1>6, <3>2
    <3> QED BY <3>1, <3>2
  <2> QED BY <1>2, <2>1, <2>2 DEF PreparedInOrder
<1>16. CommitterTold'
  <2>1. committer # 0 => committer \in DOMAIN calls
    BY <1>1, <1>3
  <2> QED BY <1>2, <1>8, <2>1 DEF CommitterTold
<1>17. CommitTold'
  BY <1>1, <1>2, <1>8, <1>9 DEF CommitTold
<1>18. WriteTold'
  BY <1>1, <1>2, <1>8, <1>9 DEF WriteTold, Valid
<1>19. SentIsGiven'
  BY <1>1 DEF SentIsGiven
<1>20. InStream'
  <2>1. [k \in DOMAIN prepared |-> calls'[prepared[k]].sent] = [k \in DOMAIN prepared |-> calls[prepared[k]].sent]
    BY <1>1, <1>3
  <2>2. PreparedEvents' = PreparedEvents
    BY <1>2, <2>1 DEF PreparedEvents
  <2> QED BY <1>2, <2>2 DEF InStream, CommittedAfter
<1> QED
  BY <1>10, <1>11, <1>12, <1>13, <1>14, <1>15, <1>16, <1>17, <1>18, <1>19, <1>20

\* Closing the connection loses requests and answers, and changes nothing else.
LEMMA CloseStep ==
    ASSUME IInv, Close
    PROVE  IInv'
<1> USE DEF IInv
<1>1. PICK n \in 0..Len(requests) : requests' = SubSeq(requests, 1, n)
  BY DEF Close
<1>2. /\ answers' = <<>> /\ closed'
      /\ UNCHANGED <<handed, crashed, calls, outcome, open, prepared, stream, committer>>
  BY DEF Close
<1>3. TypeOK'
  BY TypeStep DEF Next
<1>4. /\ \A b \in DOMAIN requests' : b \in DOMAIN requests /\ requests'[b] = requests[b]
      /\ DOMAIN answers' = {}
  BY <1>1, <1>2, SMTT(30) DEF TypeOK
<1>5. \A j : Underway(j)' => Underway(j)
  BY <1>4 DEF Underway
<1>6. \A j, r : Told(j, r)' => Told(j, r)
  BY <1>2, <1>4 DEF Told
<1>7. InOrder'
  BY <1>4 DEF InOrder
<1>8. StartFirst'
  <2>1. requests = <<>> => requests' = <<>>
    BY <1>1
  <2> QED BY <1>2, <1>5, <2>1 DEF StartFirst
<1>9. UnderwayPending' /\ PendingUnderway' /\ HeardInOrder' /\ SentIsGiven'
  BY <1>2, <1>5 DEF UnderwayPending, PendingUnderway, HeardInOrder, SentIsGiven
<1>10. PreparedInOrder'
  BY <1>2, <1>4 DEF PreparedInOrder
<1>11. CommitterTold' /\ CommitTold'
  BY <1>2, <1>6 DEF CommitterTold, CommitTold
<1>12. WriteTold'
  BY <1>2, <1>6 DEF WriteTold, Valid
<1>13. InStream'
  BY <1>2, StreamKept
<1> QED
  BY <1>3, <1>7, <1>8, <1>9, <1>10, <1>11, <1>12, <1>13

\* The answer received is that of the first call that is on its way.
LEMMA ReceiveEffect ==
    ASSUME IInv, Receive, NEW i, i = Head(answers).call
    PROVE  /\ i \in 0..Len(calls) /\ 1 \in DOMAIN answers /\ answers[1].call = i
           /\ answers[1] = Head(answers) /\ Head(answers).result \in Results
           /\ InOrder'
           /\ \A j : Underway(j)' <=> Underway(j) /\ j # i
           /\ \A a \in DOMAIN answers' : \E b \in DOMAIN answers : answers'[a] = answers[b]
           /\ \A j : Underway(j) => i <= j
           /\ Underway(i)
           /\ \A j : Underway(j) => j \in 0..Len(calls)
<1> USE DEF IInv
<1> DEFINE S == [call : 0..Len(calls), result : Results]
<1>1. answers \in Seq(S) /\ answers # <<>> /\ answers' = Tail(answers) /\ requests' = requests
  BY DEF Receive, TypeOK
<1> HIDE DEF S
<1>2. /\ Len(answers) \in Nat \ {0} /\ DOMAIN answers = 1..Len(answers)
      /\ DOMAIN answers' = 1..(Len(answers) - 1)
      /\ \A a \in 1..(Len(answers) - 1) : answers'[a] = answers[a + 1]
      /\ answers[1] = Head(answers)
  BY <1>1
<1>3. 1 \in DOMAIN answers /\ answers[1].call = i
  BY <1>2
<1>4. i \in 0..Len(calls) /\ Head(answers).result \in Results
  BY <1>2, <1>3, CallFacts
<1>5. \A a \in DOMAIN answers' : a + 1 \in DOMAIN answers /\ answers'[a] = answers[a + 1] /\ 1 < a + 1
  BY <1>2
<1>6. \A a \in DOMAIN answers' : i < answers'[a].call
  BY <1>3, <1>5 DEF InOrder
<1>7. \A b \in DOMAIN requests : i < requests[b]
  BY <1>3 DEF InOrder
<1>8. InOrder'
  <2>1. \A a, b \in DOMAIN answers' : a < b => answers'[a].call < answers'[b].call
    <3> SUFFICES ASSUME NEW a \in DOMAIN answers', NEW b \in DOMAIN answers', a < b
                 PROVE  answers'[a].call < answers'[b].call
      OBVIOUS
    <3>1. a + 1 < b + 1
      BY <1>2
    <3> QED BY <1>5, <3>1 DEF InOrder
  <2>2. \A a \in DOMAIN answers', b \in DOMAIN requests : answers'[a].call < requests[b]
    BY <1>5 DEF InOrder
  <2> QED BY <1>1, <2>1, <2>2 DEF InOrder
<1>9. \A j : Underway(j)' <=> Underway(j) /\ j # i
  <2> SUFFICES ASSUME NEW j PROVE Underway(j)' <=> Underway(j) /\ j # i
    OBVIOUS
  <2>1. ASSUME Underway(j)' PROVE Underway(j) /\ j # i
    <3>1. CASE \E b \in DOMAIN requests : requests[b] = j
      BY <1>4, <1>7, <3>1, CallFacts DEF Underway
    <3>2. CASE \E a \in DOMAIN answers' : answers'[a].call = j
      BY <1>4, <1>5, <1>6, <3>2, CallFacts DEF Underway
    <3> QED BY <1>1, <2>1, <3>1, <3>2 DEF Underway
  <2>2. ASSUME Underway(j), j # i PROVE Underway(j)'
    <3>1. ASSUME NEW a \in DOMAIN answers, answers[a].call = j
          PROVE  \E b \in DOMAIN answers' : answers'[b].call = j
      <4>1. a # 1
        BY <1>3, <2>2, <3>1
      <4>2. a - 1 \in DOMAIN answers' /\ (a - 1) + 1 = a
        BY <1>2, <4>1
      <4>3. answers'[a - 1] = answers[(a - 1) + 1]
        BY <1>5, <4>2
      <4> QED BY <3>1, <4>2, <4>3
    <3> QED BY <1>1, <2>2, <3>1 DEF Underway
  <2> QED BY <2>1, <2>2
<1>10. Underway(i)
  BY <1>3 DEF Underway
<1>11. \A j : Underway(j) => i <= j /\ j \in 0..Len(calls)
  <2> SUFFICES ASSUME NEW j, Underway(j) PROVE i <= j /\ j \in 0..Len(calls)
    OBVIOUS
  <2>1. CASE \E b \in DOMAIN requests : requests[b] = j
    BY <1>4, <1>7, <2>1, CallFacts
  <2>2. CASE \E a \in DOMAIN answers : answers[a].call = j
    <3>1. PICK a \in DOMAIN answers : answers[a].call = j
      BY <2>2
    <3>2. CASE a = 1
      BY <1>3, <1>4, <3>1, <3>2
    <3>3. CASE a # 1
      <4>1. 1 < a
        BY <1>2, <3>3
      <4>2. answers[1].call < answers[a].call
        BY <1>3, <4>1 DEF InOrder
      <4> QED BY <1>3, <1>4, <3>1, <4>2, CallFacts
    <3> QED BY <3>2, <3>3
  <2> QED BY <2>1, <2>2 DEF Underway
<1> QED
  BY <1>2, <1>3, <1>4, <1>5, <1>8, <1>9, <1>10, <1>11

\* The transaction is handed over before there are calls.
LEMMA HandTransactionStep ==
    ASSUME IInv, HandTransaction
    PROVE  IInv'
<1> USE DEF IInv
<1>1. Receive /\ Head(answers).call = 0
  BY DEF HandTransaction
<1>2. /\ UNCHANGED <<closed, crashed, calls, outcome, requests, open, prepared, stream, committer>>
      /\ handed' \in {"failed", "valid", "invalid"}
  BY DEF HandTransaction, Receive
<1>3. TypeOK'
  BY TypeStep DEF Next
<1>4. /\ InOrder'
      /\ \A j : Underway(j)' <=> Underway(j) /\ j # 0
      /\ \A a \in DOMAIN answers' : \E b \in DOMAIN answers : answers'[a] = answers[b]
      /\ Underway(0) /\ answers # <<>>
  BY <1>1, ReceiveEffect DEF Receive
<1>5. calls = <<>>
  BY <1>4 DEF StartFirst, TypeOK
<1>6. DOMAIN calls = {} /\ committer = 0
  BY <1>5, CallFacts
<1>7. StartFirst'
  BY <1>2, <1>4, <1>5 DEF StartFirst
<1>8. UnderwayPending' /\ PendingUnderway' /\ HeardInOrder' /\ SentIsGiven'
  BY <1>2, <1>6 DEF UnderwayPending, PendingUnderway, HeardInOrder, SentIsGiven
<1>9. PreparedInOrder'
  BY <1>2 DEF PreparedInOrder
<1>10. CommitterTold' /\ CommitTold' /\ WriteTold'
  BY <1>2, <1>6 DEF CommitterTold, CommitTold, WriteTold
<1>11. InStream'
  BY <1>2, StreamKept
<1> QED
  BY <1>3, <1>4, <1>7, <1>8, <1>9, <1>10, <1>11

\* A callback is called when those of all earlier calls have been.
LEMMA CallBackStep ==
    ASSUME IInv, CallBack
    PROVE  IInv'
<1> USE DEF IInv
<1>1. PICK i, result : i = Head(answers).call /\ result = Head(answers).result
  OBVIOUS
<1> DEFINE o == Outcome(calls[i].op, result)
<1>2. Receive /\ i # 0
  BY <1>1 DEF CallBack
<1>3. /\ UNCHANGED <<handed, closed, calls, requests, open, prepared, stream, committer>>
      /\ ~closed /\ ~crashed
      /\ outcome' = [outcome EXCEPT ![i] = o]
      /\ crashed' = ~calls[i].hasCb
      /\ answers # <<>>
  BY <1>1 DEF CallBack, Receive
<1>4. TypeOK'
  BY TypeStep DEF Next
<1>5. /\ i \in 0..Len(calls) /\ 1 \in DOMAIN answers /\ answers[1].call = i
      /\ answers[1].result = result /\ result \in Results
      /\ InOrder'
      /\ \A j : Underway(j)' <=> Underway(j) /\ j # i
      /\ \A a \in DOMAIN answers' : \E b \in DOMAIN answers : answers'[a] = answers[b]
      /\ \A j : Underway(j) => i <= j
      /\ Underway(i)
  BY <1>1, <1>2, ReceiveEffect
<1>6. /\ i \in DOMAIN calls /\ DOMAIN outcome = DOMAIN calls /\ DOMAIN outcome' = DOMAIN calls
      /\ \A j \in DOMAIN calls : outcome'[j] = IF j = i THEN o ELSE outcome[j]
  BY <1>2, <1>3, <1>5, CallFacts
<1>7. /\ o \in Outcomes /\ o # "pending"
      /\ result \in DoneTold => o \in DoneTold
      /\ o = "Success" <=> result = "Success"
  BY <1>5, OutcomeType, OutcomeTold
<1> HIDE DEF o
<1>8. Told(i, result)
  BY <1>5 DEF Told
<1>9. \A j \in DOMAIN calls : \A r : Told(j, r)' => Told(j, r) \/ (j = i /\ r = o)
  BY <1>5, <1>6 DEF Told
<1>10. StartFirst'
  BY <1>3, <1>5, <1>6 DEF StartFirst
<1>11. UnderwayPending'
  BY <1>3, <1>5, <1>6 DEF UnderwayPending
<1>12. PendingUnderway'
  BY <1>3, <1>5, <1>6, <1>7 DEF PendingUnderway
<1>13. HeardInOrder'
  <2>1. ~crashed' => \A j \in DOMAIN calls : outcome'[j] # "pending" => calls[j].hasCb
    BY <1>3, <1>6 DEF HeardInOrder
  <2>2. ASSUME NEW k \in DOMAIN calls, outcome'[k] \in Results, NEW j \in 1..(k - 1)
        PROVE  outcome'[j] # "pending" /\ calls[j].hasCb
    <3>1. j \in DOMAIN calls /\ j < k
      BY CallFacts
    <3>2. CASE k = i
      <4>1. outcome[j] # "pending"
        BY <1>3, <1>5, <3>1, <3>2, CallFacts DEF PendingUnderway
      <4> QED BY <1>3, <1>6, <1>7, <3>1, <4>1 DEF HeardInOrder
    <3>3. CASE k # i
      BY <1>6, <1>7, <2>2, <3>1, <3>3 DEF HeardInOrder
    <3> QED BY <3>2, <3>3
  <2> QED BY <1>3, <2>1, <2>2 DEF HeardInOrder
<1>14. PreparedInOrder'
  BY <1>3 DEF PreparedInOrder
<1>15. CommitterTold'
  <2> SUFFICES ASSUME committer # 0
               PROVE  ~open /\ \A r \in Outcomes : Told(committer, r)' => r \in DoneTold
    BY <1>3 DEF CommitterTold
  <2>1. committer \in DOMAIN calls
    BY CallFacts
  <2>2. result \in Outcomes
    BY <1>5 DEF Outcomes
  <2>3. committer = i => o \in DoneTold
    BY <1>7, <1>8, <2>2 DEF CommitterTold
  <2>4. ASSUME NEW r \in Outcomes, Told(committer, r)'
        PROVE  r \in DoneTold
    <3>1. Told(committer, r)' => Told(committer, r) \/ (committer = i /\ r = o)
      BY <1>3, <1>9, <2>1
    <3> QED BY <2>3, <2>4, <3>1 DEF CommitterTold
  <2> QED BY <2>4 DEF CommitterTold
<1>16. CommitTold'
  BY <1>3, <1>7, <1>8, <1>9 DEF CommitTold
<1>17. WriteTold'
  BY <1>3, <1>7, <1>8, <1>9 DEF WriteTold, Valid
<1>18. SentIsGiven'
  BY <1>3 DEF SentIsGiven
<1>19. InStream'
  BY <1>3, StreamKept
<1> QED
  BY <1>4, <1>5, <1>10, <1>11, <1>12, <1>13, <1>14, <1>15, <1>16, <1>17, <1>18, <1>19

\* Other programs' events go behind the transaction's.
LEMMA OtherAppendsStep ==
    ASSUME IInv, OtherAppends
    PROVE  IInv'
<1> USE DEF IInv
<1>1. /\ UNCHANGED <<handed, closed, crashed, calls, outcome, requests, answers, open, prepared, committer>>
      /\ stream' = Append(stream, Other)
  BY DEF OtherAppends
<1>2. TypeOK'
  BY TypeStep DEF Next
<1>3. InOrder' /\ StartFirst' /\ UnderwayPending' /\ PendingUnderway'
  BY <1>1 DEF InOrder, StartFirst, UnderwayPending, PendingUnderway, Underway
<1>4. HeardInOrder' /\ PreparedInOrder' /\ SentIsGiven'
  BY <1>1 DEF HeardInOrder, PreparedInOrder, SentIsGiven
<1>5. CommitterTold' /\ CommitTold' /\ WriteTold'
  BY <1>1 DEF CommitterTold, CommitTold, WriteTold, Told, Valid
<1>6. InStream'
  <2>1. /\ Len(stream) \in Nat /\ DOMAIN stream = 1..Len(stream) /\ Len(stream') = Len(stream) + 1
        /\ DOMAIN stream' = 1..(Len(stream) + 1) /\ stream'[Len(stream) + 1] = Other
        /\ \A k \in 1..Len(stream) : stream'[k] = stream[k]
    BY <1>1 DEF TypeOK
  <2>2. CASE committer = 0
    BY <1>1, <2>1, <2>2 DEF InStream
  <2>3. CASE committer # 0
    <3>1. PICK n \in 0..Len(stream) : CommittedAfter(n)
      BY <2>3 DEF InStream
    <3>2. PreparedEvents' = PreparedEvents /\ Len(PreparedEvents) \in Nat
      BY <1>1, PreparedEventsType DEF PreparedEvents
    <3>3. CommittedAfter(n)'
      <4> DEFINE P == PreparedEvents
      <4>1. /\ n + Len(P) <= Len(stream) /\ Len(P) \in Nat
            /\ \A k \in 1..Len(stream) :
                   stream[k] = IF n < k /\ k <= n + Len(P) THEN P[k - n] ELSE Other
        BY <2>1, <3>1, <3>2 DEF CommittedAfter
      <4> HIDE DEF P
      <4>2. /\ n + Len(P) <= Len(stream')
            /\ \A k \in DOMAIN stream' :
                   stream'[k] = IF n < k /\ k <= n + Len(P) THEN P[k - n] ELSE Other
        BY <2>1, <4>1
      <4> QED BY <3>2, <4>2 DEF CommittedAfter, P
    <3>4. n \in 0..Len(stream')
      BY <2>1
    <3> QED BY <1>1, <2>3, <3>3, <3>4 DEF InStream
  <2> QED BY <2>2, <2>3
<1> QED
  BY <1>2, <1>3, <1>4, <1>5, <1>6

\* Every step keeps the invariant.
LEMMA InvariantStep ==
    ASSUME IInv, [Next]_vars
    PROVE  IInv'
<1>1. TypeOK'
  BY TypeStep DEF IInv
<1>2. CASE Write
  <2>1. PICK events \in {<<e>> : e \in Events} \cup {<<>>} : Issue(Call("write", events, events, TRUE))
    BY <1>2 DEF Write
  <2>2. events \in Seq(Events)
    <3>1. <<>> \in Seq(Events) /\ \A e \in Events : <<e>> \in Seq(Events)
      OBVIOUS
    <3> QED BY <3>1
  <2>3. /\ Call("write", events, events, TRUE) \in CallRecords
        /\ Call("write", events, events, TRUE).sent = Call("write", events, events, TRUE).given
    BY <2>2 DEF Call, CallRecords
  <2> QED BY <1>1, <2>1, <2>3, IssueStep
<1>3. CASE WriteWithoutCallback
  <2>1. PICK e \in Events : Issue(Call("write", <<e>>, <<>>, FALSE))
    BY <1>3 DEF WriteWithoutCallback
  <2>2. <<e>> \in Seq(Events) /\ <<>> \in Seq(Events)
    OBVIOUS
  <2>3. Call("write", <<e>>, <<>>, FALSE) \in CallRecords /\ ~Call("write", <<e>>, <<>>, FALSE).hasCb
    BY <2>2 DEF Call, CallRecords
  <2> QED BY <1>1, <2>1, <2>3, IssueStep
<1>4. CASE Commit
  <2>1. <<>> \in Seq(Events)
    OBVIOUS
  <2>2. /\ Call("commit", <<>>, <<>>, TRUE) \in CallRecords
        /\ Call("commit", <<>>, <<>>, TRUE).sent = Call("commit", <<>>, <<>>, TRUE).given
    BY <2>1 DEF Call, CallRecords
  <2>3. Issue(Call("commit", <<>>, <<>>, TRUE))
    BY <1>4 DEF Commit
  <2> QED BY <1>1, <2>2, <2>3, IssueStep
<1>5. CASE UNCHANGED vars
  <2>1. UNCHANGED <<handed, closed, crashed, calls, outcome, requests, answers, open, prepared, stream, committer>>
    BY <1>5 DEF vars
  <2>2. InOrder' /\ StartFirst' /\ UnderwayPending' /\ PendingUnderway'
    BY <2>1 DEF IInv, InOrder, StartFirst, UnderwayPending, PendingUnderway, Underway
  <2>3. HeardInOrder' /\ PreparedInOrder' /\ SentIsGiven'
    BY <2>1 DEF IInv, HeardInOrder, PreparedInOrder, SentIsGiven
  <2>4. CommitterTold' /\ CommitTold' /\ WriteTold'
    BY <2>1 DEF IInv, CommitterTold, CommitTold, WriteTold, Told, Valid
  <2>5. InStream'
    BY <2>1, StreamKept DEF IInv
  <2> QED BY <1>1, <2>2, <2>3, <2>4, <2>5 DEF IInv
<1> QED
  BY <1>2, <1>3, <1>4, <1>5, StartTransactionStep, CloseStep, HandTransactionStep, CallBackStep,
     ServeStartStep, ServeWriteStep, ServeCommitStep, OtherAppendsStep DEF Next

\* It holds at the start.
LEMMA InvariantInit == Init => IInv
<1> SUFFICES ASSUME Init PROVE IInv
  OBVIOUS
<1>1. TypeOK
  BY InitType
<1>2. /\ handed = "no" /\ calls = <<>> /\ requests = <<>> /\ answers = <<>> /\ prepared = <<>>
      /\ stream = <<>> /\ committer = 0
  BY DEF Init
<1>3. /\ DOMAIN calls = {} /\ DOMAIN requests = {} /\ DOMAIN answers = {} /\ DOMAIN prepared = {}
      /\ DOMAIN stream = {}
  BY <1>2
<1>4. InOrder /\ StartFirst /\ UnderwayPending /\ PendingUnderway
  BY <1>2, <1>3 DEF InOrder, StartFirst, UnderwayPending, PendingUnderway
<1>5. HeardInOrder /\ PreparedInOrder /\ SentIsGiven
  BY <1>2, <1>3 DEF HeardInOrder, PreparedInOrder, SentIsGiven
<1>6. CommitterTold /\ CommitTold /\ WriteTold /\ InStream
  BY <1>2, <1>3 DEF CommitterTold, CommitTold, WriteTold, InStream
<1> QED
  BY <1>1, <1>4, <1>5, <1>6 DEF IInv

-----------------------------------------------------------------------------
(* The properties *)

\* So it holds always.
LEMMA Invariant == Spec => []IInv
<1> QED BY InvariantInit, InvariantStep, PTL DEF Spec

\* Of all that is written with a transaction, what gets into the stream are the events
\* of the writes called before the commit that was done, together and in the order of
\* the calls.
THEOREM CommitInOrder == Spec => []CommitsCallsInOrder
<1>1. IInv => CommitsCallsInOrder
  BY DEF IInv, PreparedInOrder, InStream, CommitsCallsInOrder
<1> QED BY <1>1, Invariant, PTL

\* A program that is told that its commit succeeded finds the events of every write
\* it was told succeeded before in the stream.
THEOREM SuccessMeansCommitted == Spec => []AcknowledgedWritesCommitted
<1>1. ASSUME IInv PROVE AcknowledgedWritesCommitted
  <2> USE <1>1 DEF IInv
  <2> SUFFICES ASSUME NEW k \in DOMAIN calls, calls[k].op = "commit", outcome[k] = "Success",
                      NEW i \in 1..(k - 1), calls[i].op = "write"
               PROVE  /\ calls[i].hasCb /\ outcome[i] # "pending"
                      /\ outcome[i] = "Success" =>
                             i \in Range(prepared) /\ Range(calls[i].given) \subseteq Range(stream)
    BY DEF AcknowledgedWritesCommitted
  <2>1. i \in DOMAIN calls /\ i < k
    BY CallFacts
  <2>2. calls[i].hasCb /\ outcome[i] # "pending"
    BY DEF HeardInOrder, Results
  <2>3. committer = k /\ committer # 0
    BY CallFacts DEF CommitTold, Told
  <2>4. ASSUME outcome[i] = "Success" PROVE i \in Range(prepared)
    BY <2>1, <2>3, <2>4, CallFacts DEF WriteTold, Told
  <2>5. ASSUME i \in Range(prepared) PROVE Range(calls[i].given) \subseteq Range(stream)
    <3>1. PICK m \in DOMAIN prepared : prepared[m] = i
      BY <2>5 DEF Range
    <3>2. Range(calls[i].given) \subseteq Range(PreparedEvents)
      BY <2>1, <2>2, <3>1, PreparedEventsType DEF SentIsGiven
    <3>3. Range(PreparedEvents) \subseteq Range(stream)
      <4>1. PICK n \in 0..Len(stream) : CommittedAfter(n)
        BY <2>3 DEF InStream
      <4> DEFINE P == PreparedEvents
      <4>2. /\ P \in Seq(Events) /\ n + Len(P) <= Len(stream)
            /\ Len(stream) \in Nat /\ DOMAIN stream = 1..Len(stream)
            /\ \A j \in 1..Len(stream) :
                   stream[j] = IF n < j /\ j <= n + Len(P) THEN P[j - n] ELSE Other
        <5>1. P \in Seq(Events)
          BY PreparedEventsType
        <5>2. Len(stream) \in Nat /\ DOMAIN stream = 1..Len(stream)
          BY DEF TypeOK
        <5> QED BY <4>1, <5>1, <5>2 DEF CommittedAfter
      <4> HIDE DEF P
      <4>3. ASSUME NEW j \in DOMAIN P PROVE P[j] \in Range(stream)
        <5>1. j \in 1..Len(P) /\ Len(P) \in Nat
          BY <4>2
        <5>2. j + n \in 1..Len(stream) /\ n < j + n /\ j + n <= n + Len(P) /\ (j + n) - n = j
          BY <4>2, <5>1
        <5>3. stream[j + n] = P[j]
          BY <4>2, <5>2
        <5> QED BY <4>2, <5>2, <5>3 DEF Range
      <4>4. Range(P) \subseteq Range(stream)
        BY <4>3 DEF Range
      <4> QED BY <4>4 DEF P
    <3> QED BY <3>2, <3>3
  <2> QED BY <2>2, <2>4, <2>5
<1> QED BY <1>1, Invariant, PTL

\* A commit whose callback got an error made of the server's word, or of a closed
\* connection, has not been done.
THEOREM RefusedNotCommitted == Spec => []RefusedMeansNotCommitted
<1>1. IInv => RefusedMeansNotCommitted
  BY CallFacts DEF IInv, CommitterTold, Told, DoneTold, Outcomes, RefusedMeansNotCommitted
<1> QED BY <1>1, Invariant, PTL
=============================================================================
