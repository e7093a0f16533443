------------------------ MODULE MessageReceiverProofs ------------------------
(***************************************************************************)
(* Proofs about MessageReceiver for every sequence of packets and every    *)
(* way of cutting it into chunks.                                          *)
(***************************************************************************)
EXTENDS MessageReceiver, SequenceTheorems, TLAPS

-----------------------------------------------------------------------------
(* Bytes *)

\* Length, command, flag and correlation id take 22 bytes.
LEMMA HeaderLength == AuthOffset = 22
BY DEF AuthOffset, CorrelationIdOffset, FlagOffset, CommandOffset, LengthPrefixLength

\* Adjacent runs of bytes make one run.
LEMMA BytesConcat ==
    ASSUME NEW a \in Nat, NEW b \in Nat, NEW c \in Nat, a <= b, b <= c
    PROVE  Bytes(a, b) \o Bytes(b, c) = Bytes(a, c)
  <1>1. /\ Bytes(a, b) \in Seq(Nat) /\ Len(Bytes(a, b)) = b - a
        /\ Bytes(b, c) \in Seq(Nat) /\ Len(Bytes(b, c)) = c - b
        /\ Bytes(a, c) \in Seq(Nat) /\ Len(Bytes(a, c)) = c - a
    BY DEF Bytes
  <1>2. ASSUME NEW i \in 1..(c - a) PROVE (Bytes(a, b) \o Bytes(b, c))[i] = Bytes(a, c)[i]
    BY <1>1, <1>2 DEF Bytes
  <1>3. /\ Bytes(a, b) \o Bytes(b, c) \in Seq(Nat)
        /\ Len(Bytes(a, b) \o Bytes(b, c)) = c - a
    <2>1. (b - a) + (c - b) = c - a
      OBVIOUS
    <2>2. QED
      BY <1>1, <2>1, ConcatProperties
  <1>4. QED
    BY <1>1, <1>2, <1>3, SeqEqual

\* A run of bytes is as long as its bounds say; an empty one is the empty sequence.
LEMMA BytesLength ==
    ASSUME NEW a \in Nat, NEW b \in Nat, a <= b
    PROVE  /\ Bytes(a, b) \in Seq(Nat)
           /\ Len(Bytes(a, b)) = b - a
           /\ Bytes(a, b) = <<>> <=> a = b
BY DEF Bytes

\* Cutting a run in two.
LEMMA BytesCut ==
    ASSUME NEW a \in Nat, NEW b \in Nat, NEW c \in Nat, a <= b, b <= c
    PROVE  /\ SubSeq(Bytes(a, c), 1, b - a) = Bytes(a, b)
           /\ SubSeq(Bytes(a, c), b - a + 1, c - a) = Bytes(b, c)
  <1>1. Bytes(a, c) \in Seq(Nat) /\ Len(Bytes(a, c)) = c - a
    BY DEF Bytes
  <1>2. SubSeq(Bytes(a, c), 1, b - a) = Bytes(a, b)
    BY <1>1 DEF Bytes
  <1>3. SubSeq(Bytes(a, c), b - a + 1, c - a) = Bytes(b, c)
    BY <1>1 DEF Bytes
  <1>4. QED
    BY <1>2, <1>3

-----------------------------------------------------------------------------
(* The invariant *)

\* Bytes of the packets emitted so far.
Consumed == Boundary[Len(emitted)]

\* The bytes behind the packets emitted are kept, in data while processData
\* runs and as the incomplete packet when it does not.
Kept ==
    /\ Consumed <= arrived
    /\ data # <<>> => incomplete = <<>> /\ data = Bytes(Consumed, arrived)
    /\ data = <<>> => incomplete = Bytes(Consumed, arrived)

IInv == TypeOK /\ PacketsIntact /\ Kept /\ NothingHeldBack /\ CrashOnlyInsidePrefix

\* What is left to process starts with a packet the server sent, and its length
\* prefix is that packet's.
LEMMA PrefixRead ==
    ASSUME IInv, data # <<>>
    PROVE  /\ Len(emitted) \in 0..(Packets - 1)
           /\ Consumed \in Nat /\ arrived \in Nat
           /\ Len(data) = arrived - Consumed
           /\ Boundary[Len(emitted) + 1] \in Nat
           /\ Boundary[Len(emitted) + 1] >= Consumed + AuthOffset
           /\ Len(data) >= LengthPrefixLength =>
                 ContentLengths(data) =
                    {Boundary[Len(emitted) + 1] - Consumed - LengthPrefixLength}
  <1> DEFINE n == Len(emitted)
  <1>1. n \in Nat /\ n <= Packets /\ Packets \in Nat
    BY BoundaryAssumption DEF IInv, TypeOK, PacketsIntact
  <1>2. Consumed \in Nat /\ arrived \in Nat /\ Total \in Nat /\ arrived <= Total
    BY <1>1, BoundaryAssumption DEF Consumed, IInv, TypeOK, Total
  <1>3. Len(data) = arrived - Consumed /\ Consumed # arrived
    BY <1>2, BytesLength DEF IInv, Kept
  <1>4. n \in 0..(Packets - 1)
    BY <1>1, <1>2, <1>3 DEF IInv, Kept, Consumed, Total
  <1>5. /\ Boundary[n + 1] \in Nat
        /\ Boundary[n + 1] >= Consumed + AuthOffset
    BY <1>4, BoundaryAssumption DEF Consumed
  <1>6. ASSUME Len(data) >= LengthPrefixLength
        PROVE  ContentLengths(data) = {Boundary[n + 1] - Consumed - LengthPrefixLength}
    <2> DEFINE starts == {k \in 1..Packets :
                  \A i \in 1..LengthPrefixLength : data[i] = Boundary[k - 1] + i - 1}
    <2>1. \A i \in 1..LengthPrefixLength : data[i] = Consumed + i - 1
      BY <1>2, <1>3, <1>6 DEF LengthPrefixLength, IInv, Kept, Bytes
    <2>2. n + 1 \in starts
      <3>1. n + 1 \in 1..Packets /\ (n + 1) - 1 = n
        BY <1>1, <1>4
      <3>2. QED
        BY <2>1, <3>1 DEF Consumed
    <2>3. ASSUME NEW k \in starts PROVE k = n + 1
      <3>1. k \in 1..Packets /\ Boundary[k - 1] = Consumed
        <4>1. data[1] = Consumed + 1 - 1
          BY <2>1 DEF LengthPrefixLength
        <4>2. k \in 1..Packets /\ data[1] = Boundary[k - 1] + 1 - 1
          BY <2>3 DEF LengthPrefixLength
        <4>3. Boundary[k - 1] \in Nat
          BY <1>1, <4>2, BoundaryAssumption
        <4>4. QED
          BY <1>2, <4>1, <4>2, <4>3
      <3>2. k - 1 \in 0..Packets /\ n \in 0..Packets
        BY <1>1, <1>4, <3>1
      <3>3. /\ ~(k - 1 < n) /\ ~(n < k - 1)
        BY HeaderLength, <1>2, <3>1, <3>2, BoundaryAssumption DEF Consumed
      <3>4. QED
        BY <3>1, <3>2, <3>3
    <2>4. starts = {n + 1}
      BY <2>2, <2>3
    <2>5. ContentLengths(data) =
             {Boundary[k] - Boundary[k - 1] - LengthPrefixLength : k \in starts}
      BY <2>4 DEF ContentLengths
    <2>6. QED
      BY <1>4, <2>4, <2>5, SMTT(30) DEF Consumed
  <1>7. QED
    BY <1>2, <1>3, <1>4, <1>5, <1>6

\* Emitting the next packet whole keeps the packets intact.
LEMMA EmitNext ==
    ASSUME IInv, Len(emitted) \in 0..(Packets - 1), Emit(Packet(Len(emitted) + 1))
    PROVE  /\ PacketsIntact'
           /\ emitted' \in Seq(Seq(Nat))
           /\ Len(emitted') = Len(emitted) + 1
           /\ Consumed' = Boundary[Len(emitted) + 1]
  <1>1. Packet(Len(emitted) + 1) \in Seq(Nat)
    <2>1. /\ Boundary[Len(emitted)] \in Nat /\ Boundary[Len(emitted) + 1] \in Nat
          /\ Boundary[Len(emitted)] <= Boundary[Len(emitted) + 1]
      BY HeaderLength, BoundaryAssumption
    <2>2. Packet(Len(emitted) + 1) = Bytes(Boundary[Len(emitted)], Boundary[Len(emitted) + 1])
      <3>1. (Len(emitted) + 1) - 1 = Len(emitted)
        OBVIOUS
      <3>2. QED
        BY <3>1 DEF Packet
    <2>3. QED
      BY <2>1, <2>2, BytesLength
  <1>2. emitted \in Seq(Seq(Nat))
    BY DEF IInv, TypeOK
  <1>3. /\ emitted' \in Seq(Seq(Nat)) /\ Len(emitted') = Len(emitted) + 1
        /\ \A k \in 1..Len(emitted) : emitted'[k] = emitted[k]
        /\ emitted'[Len(emitted) + 1] = Packet(Len(emitted) + 1)
    BY <1>1, <1>2 DEF Emit
  <1>4. PacketsIntact'
    <2>1. Len(emitted') <= Packets
      BY <1>3, BoundaryAssumption
    <2>2. ASSUME NEW k \in DOMAIN emitted' PROVE emitted'[k] = Packet(k)
      <3>1. k \in 1..Len(emitted) \/ k = Len(emitted) + 1
        <4>1. DOMAIN emitted' = 1..Len(emitted')
          BY <1>3
        <4>2. Len(emitted) \in Nat
          BY <1>2
        <4>3. QED
          BY <1>3, <2>2, <4>1, <4>2
      <3>2. \A i \in 1..Len(emitted) : emitted[i] = Packet(i)
        <4>1. DOMAIN emitted = 1..Len(emitted)
          BY <1>2
        <4>2. \A i \in DOMAIN emitted : emitted[i] = Packet(i)
          BY DEF IInv, PacketsIntact
        <4>3. QED
          BY <4>1, <4>2
      <3>3. QED
        BY <1>3, <3>1, <3>2
    <2>3. \A k \in DOMAIN emitted' : Packet(k)' = Packet(k)
      BY DEF Packet, Bytes
    <2>4. QED
      BY <2>1, <2>2, <2>3 DEF PacketsIntact
  <1>5. QED
    BY <1>3, <1>4 DEF Consumed

\* Between two chunks, the next chunk is put behind the bytes kept.
LEMMA ChunkStep ==
    ASSUME IInv, NEW n \in 1..Total, Chunk(n)
    PROVE  IInv'
  <1>1. /\ Consumed \in Nat /\ arrived \in Nat /\ Total \in Nat
        /\ Consumed <= arrived
        /\ arrived' = arrived + n /\ n \in Nat /\ n > 0
        /\ emitted' = emitted /\ crashed' = FALSE /\ incomplete' = <<>>
    BY BoundaryAssumption DEF IInv, TypeOK, PacketsIntact, Kept, Consumed, Total, Chunk
  <1>2. data' = Bytes(Consumed, arrived')
    <2>1. incomplete = Bytes(Consumed, arrived)
      BY DEF Chunk, IInv, Kept
    <2>2. data' = Bytes(Consumed, arrived) \o Bytes(arrived, arrived + n)
      BY <2>1 DEF Chunk, Combined
    <2>3. arrived + n \in Nat /\ arrived <= arrived + n
      BY <1>1
    <2>4. Bytes(Consumed, arrived) \o Bytes(arrived, arrived + n) = Bytes(Consumed, arrived + n)
      BY <1>1, <2>3, BytesConcat
    <2>5. QED
      BY <1>1, <2>2, <2>4, Zenon
  <1>3. data' # <<>> /\ data' \in Seq(Nat)
    <2>1. arrived' \in Nat /\ Consumed <= arrived' /\ Consumed # arrived'
      BY <1>1
    <2>2. Bytes(Consumed, arrived') \in Seq(Nat) /\ Bytes(Consumed, arrived') # <<>>
      BY <1>1, <2>1, BytesLength
    <2>3. QED
      BY <1>2, <2>2, Zenon
  <1>4. arrived' \in 0..Total
    BY <1>1 DEF Chunk
  <1>5. Consumed' = Consumed
    BY <1>1 DEF Consumed
  <1>6. QED
    <2>1. TypeOK' /\ PacketsIntact'
      <3>1. <<>> \in Seq(Nat)
        OBVIOUS
      <3>2. incomplete' \in Seq(Nat)
        BY <1>1, <3>1, Zenon
      <3>3. QED
        BY <1>1, <1>3, <1>4, <3>2 DEF IInv, TypeOK, PacketsIntact, Packet, Bytes, Total
    <2>2. Kept'
      BY <1>1, <1>2, <1>3, <1>5 DEF Kept
    <2>3. QED
      BY <1>1, <1>3, <2>1, <2>2 DEF IInv, NothingHeldBack, CrashOnlyInsidePrefix

\* The prefix is cut: the bytes left are fewer than its length.
LEMMA PrefixCutStep ==
    ASSUME IInv, PrefixCut
    PROVE  IInv'
  <1>1. /\ UNCHANGED <<arrived, data, incomplete, emitted>>
        /\ crashed' = TRUE /\ data # <<>> /\ Len(data) < LengthPrefixLength
    BY DEF PrefixCut, Processing
  <1>2. /\ Len(emitted) < Packets
        /\ Boundary[Len(emitted)] < arrived
        /\ arrived < Boundary[Len(emitted)] + LengthPrefixLength
    <2>1. Consumed # arrived
      BY <1>1, PrefixRead, BytesLength DEF IInv, Kept
    <2>2. QED
      BY <1>1, <2>1, PrefixRead, BoundaryAssumption DEF IInv, Kept, Consumed, LengthPrefixLength
  <1>3. QED
    BY <1>1, <1>2 DEF IInv, TypeOK, PacketsIntact, Kept, Consumed, NothingHeldBack,
                      CrashOnlyInsidePrefix, Packet, Bytes

\* The bytes left are the next packet.
LEMMA CompletePacketStep ==
    ASSUME IInv, CompletePacket
    PROVE  IInv'
  <1> DEFINE next == Boundary[Len(emitted) + 1]
  <1>1. /\ data # <<>> /\ Len(data) >= LengthPrefixLength /\ ~crashed
        /\ Emit(data) /\ data' = <<>> /\ UNCHANGED <<arrived, incomplete, crashed>>
    BY DEF CompletePacket, Processing
  <1>2. /\ Len(emitted) \in 0..(Packets - 1)
        /\ Consumed \in Nat /\ arrived \in Nat /\ next \in Nat
        /\ next >= Consumed + AuthOffset
        /\ Len(data) = arrived - Consumed
        /\ ContentLengths(data) = {next - Consumed - LengthPrefixLength}
    BY <1>1, PrefixRead
  <1>3. arrived = next
    BY HeaderLength, <1>2 DEF CompletePacket, LengthPrefixLength
  <1>4. data = Packet(Len(emitted) + 1)
    <2>1. (Len(emitted) + 1) - 1 = Len(emitted)
      BY <1>2
    <2>2. data = Bytes(Consumed, next)
      BY <1>1, <1>3 DEF IInv, Kept
    <2>3. QED
      BY <2>1, <2>2 DEF Packet, Consumed
  <1>5. /\ PacketsIntact' /\ emitted' \in Seq(Seq(Nat))
        /\ Len(emitted') = Len(emitted) + 1 /\ Consumed' = next
    BY <1>1, <1>2, <1>4, EmitNext
  <1>6. incomplete' = Bytes(Consumed', arrived') /\ incomplete' = <<>>
    <2>1. incomplete' = <<>>
      BY <1>1 DEF IInv, Kept
    <2>2. Consumed' = next /\ arrived' = next
      BY <1>1, <1>3, <1>5
    <2>3. Bytes(next, next) = <<>>
      <3>1. next \in Nat /\ next <= next
        BY <1>2
      <3>2. QED
        BY <3>1, BytesLength
    <2>4. QED
      BY <2>1, <2>2, <2>3, Zenon
  <1>7. NothingHeldBack'
    <2>1. ASSUME Len(emitted') < Packets PROVE arrived' < Boundary[Len(emitted') + 1]
      <3>1. /\ Len(emitted) + 1 \in 0..Packets /\ Len(emitted) + 2 \in 0..Packets
            /\ Len(emitted) + 1 < Len(emitted) + 2 /\ Len(emitted') + 1 = Len(emitted) + 2
        BY <1>2, <1>5, <2>1, BoundaryAssumption, SMTT(30)
      <3>2. /\ Boundary[Len(emitted) + 2] >= Boundary[Len(emitted) + 1] + AuthOffset
            /\ Boundary[Len(emitted) + 2] \in Nat
        BY <3>1, BoundaryAssumption
      <3>3. QED
        BY HeaderLength, <1>1, <1>2, <1>3, <3>1, <3>2, SMTT(30)
    <2>2. QED
      BY <2>1 DEF NothingHeldBack
  <1>8. TypeOK'
    BY <1>1, <1>5 DEF IInv, TypeOK
  <1>9. QED
    BY <1>1, <1>2, <1>3, <1>5, <1>6, <1>7, <1>8 DEF IInv, Kept, CrashOnlyInsidePrefix

\* The bytes left go on behind the next packet.
LEMMA MultiplePacketsStep ==
    ASSUME IInv, MultiplePackets
    PROVE  IInv'
  <1> DEFINE next == Boundary[Len(emitted) + 1]
  <1>1. /\ data # <<>> /\ Len(data) >= LengthPrefixLength /\ ~crashed
        /\ UNCHANGED <<arrived, incomplete, crashed>>
    BY DEF MultiplePackets, Processing, RestNow
  <1>2. /\ Len(emitted) \in 0..(Packets - 1)
        /\ Consumed \in Nat /\ arrived \in Nat /\ next \in Nat
        /\ next >= Consumed + AuthOffset
        /\ Len(data) = arrived - Consumed
        /\ ContentLengths(data) = {next - Consumed - LengthPrefixLength}
    BY <1>1, PrefixRead
  <1>3. /\ next < arrived
        /\ Emit(SubSeq(data, 1, next - Consumed))
        /\ data' = SubSeq(data, next - Consumed + 1, arrived - Consumed)
    <2>1. PICK n \in ContentLengths(data) :
             /\ Len(data) > n + LengthPrefixLength
             /\ Emit(SubSeq(data, 1, n + LengthPrefixLength))
             /\ RestNow(SubSeq(data, n + LengthPrefixLength + 1, Len(data)))
      BY DEF MultiplePackets
    <2>2. n + LengthPrefixLength = next - Consumed
      BY <1>2, <2>1 DEF LengthPrefixLength
    <2>3. next < arrived
      BY <1>2, <2>1, <2>2
    <2>4. QED
      BY <1>2, <2>1, <2>2, <2>3 DEF RestNow
  <1>4. data = Bytes(Consumed, arrived)
    BY <1>1 DEF IInv, Kept
  <1>5. /\ SubSeq(data, 1, next - Consumed) = Bytes(Consumed, next)
        /\ data' = Bytes(next, arrived)
    <2>1. Consumed <= next /\ next <= arrived
      BY HeaderLength, <1>2, <1>3
    <2>2. /\ SubSeq(Bytes(Consumed, arrived), 1, next - Consumed) = Bytes(Consumed, next)
          /\ SubSeq(Bytes(Consumed, arrived), next - Consumed + 1, arrived - Consumed)
                = Bytes(next, arrived)
      BY <1>2, <2>1, BytesCut
    <2>3. QED
      BY <1>3, <1>4, <2>2, Zenon
  <1>6. Bytes(Consumed, next) = Packet(Len(emitted) + 1)
    <2>1. (Len(emitted) + 1) - 1 = Len(emitted)
      BY <1>2
    <2>2. QED
      BY <2>1 DEF Packet, Consumed
  <1>7. /\ PacketsIntact' /\ emitted' \in Seq(Seq(Nat))
        /\ Len(emitted') = Len(emitted) + 1 /\ Consumed' = next
    BY <1>2, <1>3, <1>5, <1>6, EmitNext
  <1>8. data' # <<>> /\ data' \in Seq(Nat) /\ incomplete' = <<>>
    <2>1. Bytes(next, arrived) \in Seq(Nat) /\ Bytes(next, arrived) # <<>>
      <3>1. next \in Nat /\ arrived \in Nat /\ next <= arrived /\ next # arrived
        BY <1>2, <1>3
      <3>2. QED
        BY <3>1, BytesLength
    <2>2. QED
      BY <1>1, <1>5, <2>1, Zenon DEF IInv, Kept
  <1>9. TypeOK'
    BY <1>1, <1>7, <1>8 DEF IInv, TypeOK
  <1>10. QED
    <2>1. Kept'
      <3>1. Consumed' <= arrived'
        BY <1>1, <1>2, <1>3, <1>7
      <3>2. data' = Bytes(Consumed', arrived')
        BY <1>1, <1>5, <1>7, Zenon
      <3>3. QED
        BY <1>8, <3>1, <3>2 DEF Kept
    <2>2. QED
      BY <1>1, <1>7, <1>8, <1>9, <2>1 DEF IInv, NothingHeldBack, CrashOnlyInsidePrefix

\* The bytes left end inside the next packet.
LEMMA IncompletePacketStep ==
    ASSUME IInv, IncompletePacket
    PROVE  IInv'
  <1> DEFINE next == Boundary[Len(emitted) + 1]
  <1>1. /\ data # <<>> /\ Len(data) >= LengthPrefixLength /\ ~crashed
        /\ incomplete' = data /\ data' = <<>> /\ UNCHANGED <<arrived, emitted, crashed>>
    BY DEF IncompletePacket, Processing
  <1>2. /\ Consumed \in Nat /\ arrived \in Nat /\ next \in Nat
        /\ Len(data) = arrived - Consumed
        /\ ContentLengths(data) = {next - Consumed - LengthPrefixLength}
    BY <1>1, PrefixRead
  <1>3. arrived < next
    BY <1>2 DEF IncompletePacket, LengthPrefixLength
  <1>4. QED
    BY <1>1, <1>2, <1>3 DEF IInv, TypeOK, PacketsIntact, Packet, Bytes, Kept, Consumed,
                            NothingHeldBack, CrashOnlyInsidePrefix

\* IInv is inductive.
LEMMA ReceiverInvariant == Spec => []IInv
  <1>1. Init => IInv
    <2>1. ASSUME Init PROVE IInv
      <3>1. /\ emitted = <<>> /\ data = <<>> /\ incomplete = <<>> /\ arrived = 0
            /\ crashed = FALSE /\ Len(emitted) = 0
        BY <2>1 DEF Init
      <3>2. Consumed = 0 /\ Bytes(0, 0) = <<>>
        BY <3>1, BytesLength, BoundaryAssumption DEF Consumed
      <3>3. Total \in Nat
        BY BoundaryAssumption DEF Total
      <3>4. <<>> \in Seq(Nat) /\ <<>> \in Seq(Seq(Nat))
        OBVIOUS
      <3>5. TypeOK
        <4>1. data \in Seq(Nat) /\ incomplete \in Seq(Nat) /\ emitted \in Seq(Seq(Nat))
          BY <3>1, <3>4, Zenon
        <4>2. arrived \in 0..Total
          BY <3>1, <3>3
        <4>3. QED
          BY <3>1, <4>1, <4>2, Zenon DEF TypeOK
      <3>6. NothingHeldBack
        BY HeaderLength, <3>1, BoundaryAssumption DEF NothingHeldBack
      <3>7. QED
        BY <3>1, <3>2, <3>5, <3>6, BoundaryAssumption
           DEF IInv, PacketsIntact, Kept, CrashOnlyInsidePrefix
    <2>2. QED
      BY <2>1
  <1>2. IInv /\ [Next]_vars => IInv'
    <2>1. CASE UNCHANGED vars
      BY <2>1 DEF vars, IInv, TypeOK, PacketsIntact, Packet, Bytes, Kept, Consumed,
                  NothingHeldBack, CrashOnlyInsidePrefix
    <2>2. QED
      BY <2>1, ChunkStep, PrefixCutStep, CompletePacketStep, MultiplePacketsStep,
         IncompletePacketStep DEF Next
  <1>3. QED
    BY <1>1, <1>2, PTL DEF Spec

-----------------------------------------------------------------------------
(* Theorems *)

\* Whatever the packets and wherever the chunks are cut, the receiver emits the
\* server's packets, whole and in order.
THEOREM PacketsReassembled == Spec => []PacketsIntact
  <1>1. IInv => PacketsIntact
    BY DEF IInv
  <1>2. QED
    BY <1>1, ReceiverInvariant, PTL

\* It emits a packet as soon as it has arrived whole.
THEOREM PacketsPrompt == Spec => []NothingHeldBack
  <1>1. IInv => NothingHeldBack
    BY DEF IInv
  <1>2. QED
    BY <1>1, ReceiverInvariant, PTL

\* It throws on nothing but a chunk that ends inside a length prefix.
THEOREM OnlyPrefixesThrow == Spec => []CrashOnlyInsidePrefix
  <1>1. IInv => CrashOnlyInsidePrefix
    BY DEF IInv
  <1>2. QED
    BY <1>1, ReceiverInvariant, PTL
=============================================================================
