-------------------------- MODULE FramedStreamProofs --------------------------
(***************************************************************************)
(* Proofs about Framing and FramedStream: what is framed is what the       *)
(* receiver makes of the stream, for every sequence of messages and every  *)
(* way to cut it into chunks.                                              *)
(***************************************************************************)
EXTENDS FramedStream, MessageReceiverProofs

-----------------------------------------------------------------------------
(* The tables and the length *)

\* No two commands have the same code, so a code tells its command.
LEMMA NameOfCommand ==
    ASSUME NEW name \in DOMAIN Commands
    PROVE  NameIn(Commands, Commands[name]) = name
  <1>1. \A m, n \in DOMAIN Commands : Commands[m] = Commands[n] => m = n
    BY SMTT(60) DEF Commands
  <1>2. QED
    BY <1>1 DEF NameIn

\* A flag tells whether there is authentication.
LEMMA NameOfFlag ==
    ASSUME NEW auth \in BOOLEAN
    PROVE  NameIn(Flags, Flags[Flag(auth)]) = Flag(auth) /\ Flags[Flag(auth)] \in Byte
  <1>1. \A m, n \in DOMAIN Flags : Flags[m] = Flags[n] => m = n
    BY DEF Flags
  <1>2. Flag(auth) \in DOMAIN Flags /\ Flags[Flag(auth)] \in Byte
    BY DEF Flag, Flags, Byte
  <1>3. QED
    BY <1>1, <1>2 DEF NameIn

\* A length is read back from the four bytes it is written to.
LEMMA LengthRoundTrip ==
    ASSUME NEW n \in Nat, n <= MaxBufferLength
    PROVE  /\ UInt32LE(n) \in Seq(Byte) /\ Len(UInt32LE(n)) = 4
           /\ ReadUInt32LE(UInt32LE(n)) = n
  <1>1. /\ n % 256 \in Byte /\ (n \div 256) % 256 \in Byte
        /\ (n \div 65536) % 256 \in Byte /\ n \div 16777216 \in Byte
    BY DEF Byte, MaxBufferLength
  <1>2. (n % 256) + (256 * ((n \div 256) % 256)) + (65536 * ((n \div 65536) % 256))
            + (16777216 * (n \div 16777216)) = n
    OBVIOUS
  <1>3. QED
    BY <1>1, <1>2 DEF UInt32LE, ReadUInt32LE

-----------------------------------------------------------------------------
(* Frames *)

\* The elements of a concatenation of bytes.
LEMMA ConcatParts ==
    ASSUME NEW s \in Seq(Byte), NEW t \in Seq(Byte)
    PROVE  /\ s \o t \in Seq(Byte) /\ Len(s \o t) = Len(s) + Len(t)
           /\ \A j \in 1..Len(s) : (s \o t)[j] = s[j]
           /\ \A j \in (Len(s) + 1)..(Len(s) + Len(t)) : (s \o t)[j] = t[j - Len(s)]
  <1>1. Len(s) \in Nat /\ Len(t) \in Nat
    BY LenProperties
  <1>2. /\ s \o t \in Seq(Byte) /\ Len(s \o t) = Len(s) + Len(t)
        /\ \A i \in 1..(Len(s) + Len(t)) :
               (s \o t)[i] = IF i <= Len(s) THEN s[i] ELSE t[i - Len(s)]
    BY ConcatProperties
  <1>3. QED
    BY <1>1, <1>2

\* The part of a sequence of bytes that another one is found in.
LEMMA PartOf ==
    ASSUME NEW s \in Seq(Byte), NEW t \in Seq(Byte), NEW m \in Nat, NEW n \in Nat,
           n = m + Len(t), n <= Len(s), \A i \in 1..Len(t) : s[i + m] = t[i]
    PROVE  SubSeq(s, m + 1, n) = t
  <1> DEFINE p == SubSeq(s, m + 1, n)
  <1>1. Len(t) \in Nat /\ Len(s) \in Nat
    BY LenProperties
  <1>2. \A i \in (m + 1)..n : s[i] \in Byte
    BY <1>1
  <1>3. /\ p \in Seq(Byte) /\ Len(p) = Len(t)
        /\ \A i \in 1..Len(t) : p[i] = s[i + m]
    BY <1>1, <1>2
  <1>4. QED
    BY <1>1, <1>3, SeqEqual

\* The credentials are bytes.
LEMMA AuthPartType == ASSUME NEW auth \in BOOLEAN PROVE AuthPart(auth) \in Seq(Byte)
  <1>1. AuthBlock \in Seq(Byte)
    BY DEF AuthBlock, Byte
  <1>2. <<>> \in Seq(Byte)
    OBVIOUS
  <1>3. QED
    BY <1>1, <1>2 DEF AuthPart

\* A correlation id has 16 bytes.
LEMMA IdType == ASSUME NEW id \in [1..16 -> Byte] PROVE id \in Seq(Byte) /\ Len(id) = 16
  <1>1. id \in Seq(Byte)
    BY SeqDef
  <1>2. DOMAIN id = 1..16 /\ DOMAIN id = 1..Len(id) /\ Len(id) \in Nat
    BY <1>1, LenProperties
  <1>3. QED
    BY <1>1, <1>2

\* What unframe takes for the payload.
Body(payload, auth) == AuthPart(auth) \o payload

\* What follows the length in a frame.
Rest(name, id, payload, auth) ==
    <<Commands[name], Flags[Flag(auth)]>> \o id \o Body(payload, auth)

\* It has the command, the flag and the id first, then the body.
LaidOut(rest, command, flag, id, body) ==
    /\ rest \in Seq(Byte) /\ body \in Seq(Byte) /\ Len(rest) = 18 + Len(body)
    /\ rest[1] = command /\ rest[2] = flag
    /\ \A j \in 3..18 : rest[j] = id[j - 2]
    /\ \A j \in 19..(18 + Len(body)) : rest[j] = body[j - 18]

\* So it is laid out.
LEMMA RestLayout ==
    ASSUME NEW name \in MessageNames, NEW id \in [1..16 -> Byte], NEW payload \in Seq(Byte),
           NEW auth \in BOOLEAN
    PROVE  LaidOut(Rest(name, id, payload, auth), Commands[name], Flags[Flag(auth)], id,
                   Body(payload, auth))
  <1> DEFINE codes == <<Commands[name], Flags[Flag(auth)]>>
             head  == codes \o id
             body  == Body(payload, auth)
             rest  == head \o body
  <1>1. codes \in Seq(Byte) /\ Len(codes) = 2
        /\ codes[1] = Commands[name] /\ codes[2] = Flags[Flag(auth)]
    BY NameOfFlag DEF MessageNames
  <1> HIDE DEF codes
  <1>2. /\ head \in Seq(Byte) /\ Len(head) = 18 /\ head[1] = codes[1] /\ head[2] = codes[2]
        /\ \A j \in 3..18 : head[j] = id[j - 2]
    <2>1. id \in Seq(Byte) /\ Len(id) = 16
      BY IdType
    <2>2. /\ head \in Seq(Byte) /\ Len(head) = Len(codes) + Len(id)
          /\ \A j \in 1..Len(codes) : head[j] = codes[j]
          /\ \A j \in (Len(codes) + 1)..(Len(codes) + Len(id)) : head[j] = id[j - Len(codes)]
      BY <1>1, <2>1, ConcatParts
    <2> HIDE DEF head
    <2>3. QED
      BY <1>1, <2>1, <2>2, SMTT(30)
  <1>3. body \in Seq(Byte)
    BY AuthPartType, ConcatProperties DEF Body
  <1> HIDE DEF head, body
  <1>4. /\ rest \in Seq(Byte) /\ Len(rest) = 18 + Len(body)
        /\ \A j \in 1..18 : rest[j] = head[j]
        /\ \A j \in 19..(18 + Len(body)) : rest[j] = body[j - 18]
    <2>1. /\ rest \in Seq(Byte) /\ Len(rest) = Len(head) + Len(body)
          /\ \A j \in 1..Len(head) : rest[j] = head[j]
          /\ \A j \in (Len(head) + 1)..(Len(head) + Len(body)) :
                 rest[j] = body[j - Len(head)]
      BY <1>2, <1>3, ConcatParts
    <2>2. Len(head) = 18
      BY <1>2
    <2> HIDE DEF rest
    <2>3. QED
      BY <2>1, <2>2
  <1> HIDE DEF rest
  <1>5. /\ rest[1] = Commands[name] /\ rest[2] = Flags[Flag(auth)]
        /\ \A j \in 3..18 : rest[j] = id[j - 2]
    BY <1>1, <1>2, <1>4, SMTT(30)
  <1>6. LaidOut(rest, Commands[name], Flags[Flag(auth)], id, body)
    BY ONLY <1>3, <1>4, <1>5, Zenon DEF LaidOut
  <1>7. QED
    BY ONLY <1>6, Zenon DEF Rest, rest, body, head, codes

\* What is unframed is what was framed, and the length tells the length of the rest.
THEOREM FrameRoundTrip ==
    ASSUME NEW name \in MessageNames, NEW id \in [1..16 -> Byte], NEW payload \in Seq(Byte),
           NEW auth \in BOOLEAN, Len(Frame(name, id, payload, auth)) <= MaxBufferLength
    PROVE  LET frame == Frame(name, id, payload, auth)
           IN  /\ frame \in Seq(Byte)
               /\ GetContentLength(frame) = Len(frame) - LengthPrefixLength
               /\ Unframe(frame) = [messageName   |-> name,
                                    flag          |-> Flag(auth),
                                    correlationId |-> id,
                                    payload       |-> AuthPart(auth) \o payload]
  <1> DEFINE rest  == Rest(name, id, payload, auth)
             body  == Body(payload, auth)
             size  == UInt32LE(Len(rest))
             frame == size \o rest
  <1>1. /\ rest \in Seq(Byte) /\ body \in Seq(Byte) /\ Len(rest) = 18 + Len(body)
        /\ rest[1] = Commands[name] /\ rest[2] = Flags[Flag(auth)]
        /\ \A j \in 3..18 : rest[j] = id[j - 2]
        /\ \A j \in 19..(18 + Len(body)) : rest[j] = body[j - 18]
    <2>1. LaidOut(rest, Commands[name], Flags[Flag(auth)], id, body)
      BY RestLayout
    <2> HIDE DEF rest, body
    <2>2. QED
      BY ONLY <2>1, Zenon DEF LaidOut
  <1>2. frame = Frame(name, id, payload, auth)
    BY DEF Frame, Rest, Body
  <1> HIDE DEF rest, body
  <1>3. Len(rest) \in Nat /\ Len(body) \in Nat
    BY <1>1, LenProperties
  <1>4. /\ size \in Seq(Int) /\ Len(size) = 4
    BY <1>3 DEF UInt32LE
  <1>5. Len(rest) <= MaxBufferLength
    <2>1. Len(frame) = Len(size) + Len(rest)
      <3>1. rest \in Seq(Int)
        <4>1. Byte \subseteq Int
          BY DEF Byte
        <4>2. QED
          BY <1>1, <4>1, SeqMonotonic
      <3> HIDE DEF size
      <3>2. QED
        BY <1>4, <3>1, ConcatProperties
    <2>2. MaxBufferLength \in Nat
      BY SMT DEF MaxBufferLength
    <2>3. QED
      BY <1>2, <1>3, <1>4, <2>1, <2>2
  <1>6. size \in Seq(Byte) /\ ReadUInt32LE(size) = Len(rest)
    BY <1>3, <1>5, LengthRoundTrip
  <1> HIDE DEF size
  <1>7. /\ frame \in Seq(Byte) /\ Len(frame) = 22 + Len(body)
        /\ \A j \in 1..4 : frame[j] = size[j]
        /\ \A j \in 5..(22 + Len(body)) : frame[j] = rest[j - 4]
    <2>1. /\ frame \in Seq(Byte) /\ Len(frame) = Len(size) + Len(rest)
          /\ \A j \in 1..Len(size) : frame[j] = size[j]
          /\ \A j \in (Len(size) + 1)..(Len(size) + Len(rest)) :
                 frame[j] = rest[j - Len(size)]
      BY <1>1, <1>6, ConcatParts
    <2> HIDE DEF frame
    <2>2. QED
      BY <1>1, <1>3, <1>4, <2>1
  <1> HIDE DEF frame
  <1>8. GetContentLength(frame) = Len(rest)
    <2>1. frame[1] = size[1] /\ frame[2] = size[2] /\ frame[3] = size[3] /\ frame[4] = size[4]
      BY <1>7
    <2>2. QED
      BY <1>6, <2>1 DEF GetContentLength, ReadUInt32LE
  <1>9. NameIn(Commands, frame[5]) = name /\ NameIn(Flags, frame[6]) = Flag(auth)
    <2>1. frame[5] = rest[1] /\ frame[6] = rest[2]
      BY <1>3, <1>7, SMTT(30)
    <2>2. QED
      BY <1>1, <2>1, NameOfCommand, NameOfFlag DEF MessageNames
  <1>10. SubSeq(frame, 7, 22) = id
    <2>1. ASSUME NEW i \in 1..16 PROVE frame[i + 6] = id[i]
      <3> DEFINE j == i + 6
                 l == i + 2
      <3>1. j \in 5..(22 + Len(body)) /\ j - 4 = l /\ l \in 3..18 /\ l - 2 = i
        BY <1>3, SMTT(30)
      <3> HIDE DEF j, l
      <3>2. frame[j] = rest[j - 4] /\ rest[l] = id[l - 2]
        BY <1>1, <1>7, <3>1
      <3>3. QED
        BY <3>1, <3>2 DEF j
    <2>2. id \in Seq(Byte) /\ Len(id) = 16 /\ 22 <= Len(frame)
      BY <1>3, <1>7, IdType, SMTT(30)
    <2>3. 6 \in Nat /\ 22 \in Nat /\ 22 = 6 + Len(id)
      BY <2>2
    <2>4. \A i \in 1..Len(id) : frame[i + 6] = id[i]
      BY <2>1, <2>2
    <2>5. SubSeq(frame, 6 + 1, 22) = id
      BY ONLY <1>7, <2>2, <2>3, <2>4, PartOf, ZenonT(60)
    <2>6. QED
      BY <2>5
  <1>11. SubSeq(frame, 23, Len(frame)) = body
    <2>1. ASSUME NEW i \in 1..Len(body) PROVE frame[i + 22] = body[i]
      <3> DEFINE j == i + 22
                 l == i + 18
      <3>1. j \in 5..(22 + Len(body)) /\ j - 4 = l /\ l \in 19..(18 + Len(body)) /\ l - 18 = i
        BY <1>3
      <3> HIDE DEF j, l
      <3>2. frame[j] = rest[j - 4] /\ rest[l] = body[l - 18]
        BY <1>1, <1>7, <3>1
      <3>3. QED
        BY <3>1, <3>2 DEF j
    <2>2. /\ body \in Seq(Byte) /\ 22 \in Nat /\ Len(frame) \in Nat
          /\ Len(frame) = 22 + Len(body) /\ Len(frame) <= Len(frame)
      BY <1>1, <1>3, <1>7
    <2>3. \A i \in 1..Len(body) : frame[i + 22] = body[i]
      BY <2>1
    <2>4. SubSeq(frame, 22 + 1, Len(frame)) = body
      BY ONLY <1>7, <2>2, <2>3, PartOf, Zenon
    <2>5. QED
      BY <2>4
  <1>12. Unframe(frame) = [messageName |-> name, flag |-> Flag(auth), correlationId |-> id,
                           payload |-> body]
    <2>1. /\ AuthOffset = 22 /\ AuthOffset + 1 = 23 /\ CorrelationIdOffset + 1 = 7
          /\ CommandOffset + 1 = 5 /\ FlagOffset + 1 = 6
      BY HeaderLength DEF LengthPrefixLength, CommandOffset, FlagOffset, CorrelationIdOffset
    <2>2. QED
      BY ONLY <1>9, <1>10, <1>11, <2>1, Zenon DEF Unframe
  <1>13. GetContentLength(frame) = Len(frame) - LengthPrefixLength
    BY <1>1, <1>3, <1>7, <1>8 DEF LengthPrefixLength
  <1>14. QED
    BY ONLY <1>2, <1>7, <1>12, <1>13, Zenon DEF body, Body

-----------------------------------------------------------------------------
(* The stream *)

\* A frame that was sent, and what MessageReceiver takes for its packet.
LEMMA SentPacket ==
    ASSUME NEW k \in 1..Packets
    PROVE  /\ Contents(Packet(k)) = SentFrame(k)
           /\ GetContentLength(SentFrame(k)) = Boundary[k] - Boundary[k - 1] - LengthPrefixLength
           /\ Unframe(SentFrame(k)) =
                  [messageName   |-> Sent[k].messageName,
                   flag          |-> Flag(Sent[k].auth),
                   correlationId |-> Sent[k].correlationId,
                   payload       |-> AuthPart(Sent[k].auth) \o Sent[k].payload]
  <1> DEFINE frame == SentFrame(k)
             a     == Boundary[k - 1]
             b     == Boundary[k]
  <1>1. /\ Sent[k].messageName \in MessageNames /\ Sent[k].correlationId \in [1..16 -> Byte]
        /\ Sent[k].payload \in Seq(Byte) /\ Sent[k].auth \in BOOLEAN
        /\ Len(frame) <= MaxBufferLength
        /\ b = a + Len(frame)
        /\ \A i \in 1..Len(frame) : Stream[a + i] = frame[i]
    BY StreamAssumption
  <1>2. /\ frame \in Seq(Byte)
        /\ GetContentLength(frame) = Len(frame) - LengthPrefixLength
        /\ Unframe(frame) = [messageName   |-> Sent[k].messageName,
                             flag          |-> Flag(Sent[k].auth),
                             correlationId |-> Sent[k].correlationId,
                             payload       |-> AuthPart(Sent[k].auth) \o Sent[k].payload]
    BY <1>1, FrameRoundTrip DEF SentFrame
  <1>3. Len(frame) \in Nat /\ a \in Nat /\ b \in Nat
    <2>1. Len(frame) \in Nat
      BY <1>2, LenProperties
    <2>2. k - 1 \in 0..Packets /\ k \in 0..Packets
      BY BoundaryAssumption
    <2>3. QED
      BY <2>1, <2>2, BoundaryAssumption
  <1> HIDE DEF frame, a, b
  <1>4. GetContentLength(frame) = b - a - LengthPrefixLength
    BY <1>1, <1>2, <1>3
  <1>5. Contents(Packet(k)) = frame
    <2> DEFINE contents == Contents(Packet(k))
    <2>1. Packet(k) = [i \in 1..Len(frame) |-> a + i - 1]
      BY <1>1, <1>3 DEF Packet, Bytes, a, b
    <2>2. Len(Packet(k)) = Len(frame)
      BY <1>3, <2>1
    <2>3. contents = [i \in 1..Len(frame) |-> Stream[Packet(k)[i] + 1]]
      BY <2>2 DEF Contents
    <2>4. ASSUME NEW i \in 1..Len(frame) PROVE Stream[Packet(k)[i] + 1] = frame[i]
      <3>1. Packet(k)[i] + 1 = a + i
        BY <1>3, <2>1
      <3>2. QED
        BY <1>1, <3>1
    <2>5. contents = [i \in 1..Len(frame) |-> frame[i]]
      BY <2>3, <2>4
    <2>6. frame = [i \in 1..Len(frame) |-> frame[i]]
      BY <1>2
    <2>7. QED
      BY <2>5, <2>6
  <1>6. QED
    BY <1>2, <1>4, <1>5 DEF frame, a, b

\* The messages received are the messages framed, for every sequence of them and
\* every way the stream is cut.
THEOREM MessagesArrive == Spec => []MessagesReceived
  <1>1. TypeOK /\ PacketsIntact => MessagesReceived
    <2>1. SUFFICES ASSUME TypeOK, PacketsIntact, NEW k \in DOMAIN emitted
                   PROVE  Unframe(Contents(emitted[k])) =
                              [messageName   |-> Sent[k].messageName,
                               flag          |-> Flag(Sent[k].auth),
                               correlationId |-> Sent[k].correlationId,
                               payload       |-> AuthPart(Sent[k].auth) \o Sent[k].payload]
      BY DEF MessagesReceived
    <2>2. emitted[k] = Packet(k)
      BY <2>1 DEF PacketsIntact
    <2>3. k \in 1..Packets
      <3>1. emitted \in Seq(Seq(Nat)) /\ Len(emitted) <= Packets /\ Packets \in Nat
        BY <2>1, BoundaryAssumption DEF TypeOK, PacketsIntact
      <3>2. DOMAIN emitted = 1..Len(emitted) /\ Len(emitted) \in Nat
        BY <3>1, LenProperties
      <3>3. QED
        BY <3>1, <3>2
    <2>4. QED
      BY <2>2, <2>3, SentPacket
  <1>2. IInv => TypeOK
    BY DEF IInv
  <1>3. QED
    BY <1>1, <1>2, ReceiverInvariant, PacketsReassembled, PTL
=============================================================================
