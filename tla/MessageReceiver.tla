--------------------------- MODULE MessageReceiver ---------------------------
(***************************************************************************)
(* messageReceiver.js: the bytes of the socket, which arrive in chunks cut *)
(* anywhere, are put together into length-prefixed packets.                *)
(*                                                                         *)
(* A byte is its position in the stream the server sent; packet k occupies *)
(* the positions Boundary[k-1] .. Boundary[k]-1, its length prefix first.  *)
(***************************************************************************)
EXTENDS Framing

CONSTANTS
    Packets, \* number of packets in the stream
    Boundary \* Boundary[k]: bytes up to the end of packet k

\* A packet holds at least what comes before authentication and payload.
ASSUME BoundaryAssumption ==
    /\ Packets \in Nat
    /\ Boundary \in [0..Packets -> Nat]
    /\ Boundary[0] = 0
    /\ \A j, k \in 0..Packets : j < k => Boundary[k] >= Boundary[j] + AuthOffset

VARIABLES
    arrived,    \* bytes the socket has delivered
    data,       \* what processData has yet to look at
    incomplete, \* _incompletePacket, empty for null
    emitted,    \* the packets of the 'message' events
    crashed     \* reading a length prefix threw

vars == <<arrived, data, incomplete, emitted, crashed>>

\* The bytes from position a up to, and not including, position b.
Bytes(a, b) == [i \in 1..(b - a) |-> a + i - 1]

Packet(k) == Bytes(Boundary[k - 1], Boundary[k])

Total == Boundary[Packets]

\* Every variable keeps the kind of value the code gives it.
TypeOK ==
    /\ arrived \in 0..Total
    /\ data \in Seq(Nat)
    /\ incomplete \in Seq(Nat)
    /\ emitted \in Seq(Seq(Nat))
    /\ crashed \in BOOLEAN

Init ==
    /\ arrived = 0
    /\ data = <<>> /\ incomplete = <<>> /\ emitted = <<>>
    /\ crashed = FALSE

\* framer.getContentLength: the packet's own where a prefix starts, and any
\* number elsewhere.
ContentLengths(bytes) ==
    LET starts == {k \in 1..Packets :
                      \A i \in 1..LengthPrefixLength : bytes[i] = Boundary[k - 1] + i - 1}
    IN  IF starts # {}
        THEN {Boundary[k] - Boundary[k - 1] - LengthPrefixLength : k \in starts}
        ELSE 0..Total

\* Mutation: the chunk goes in front of the incomplete packet.
CombinedInFront(chunk) == chunk \o incomplete

\* _combineWithIncompletePacket
Combined(chunk) == incomplete \o chunk

\* A chunk arrives: processData is called, and nothing runs until it returns.
Chunk(n) ==
    /\ ~crashed
    /\ data = <<>>
    /\ arrived + n <= Total
    /\ arrived' = arrived + n
    /\ data' = Combined(Bytes(arrived, arrived + n))
    /\ incomplete' = <<>>
    /\ UNCHANGED <<emitted, crashed>>

Processing == ~crashed /\ data # <<>>

\* readUInt32LE reaches beyond the buffer.
PrefixCut ==
    /\ Processing
    /\ Len(data) < LengthPrefixLength
    /\ crashed' = TRUE
    /\ UNCHANGED <<arrived, data, incomplete, emitted>>

Emit(packet) == emitted' = Append(emitted, packet)

CompletePacket ==
    /\ Processing
    /\ Len(data) >= LengthPrefixLength
    /\ \E n \in ContentLengths(data) : Len(data) = n + LengthPrefixLength
    /\ Emit(data)
    /\ data' = <<>>
    /\ UNCHANGED <<arrived, incomplete, crashed>>

\* Mutation: the bytes behind the first packet are put aside unseen.
RestLater(rest) == data' = <<>> /\ incomplete' = rest

\* processData is called again with the bytes behind the first packet.
RestNow(rest) == data' = rest /\ UNCHANGED incomplete

MultiplePackets ==
    /\ Processing
    /\ Len(data) >= LengthPrefixLength
    /\ \E n \in ContentLengths(data) :
          LET expected == n + LengthPrefixLength IN
          /\ Len(data) > expected
          /\ Emit(SubSeq(data, 1, expected))
          /\ RestNow(SubSeq(data, expected + 1, Len(data)))
    /\ UNCHANGED <<arrived, crashed>>

IncompletePacket ==
    /\ Processing
    /\ Len(data) >= LengthPrefixLength
    /\ \E n \in ContentLengths(data) : Len(data) < n + LengthPrefixLength
    /\ incomplete' = data
    /\ data' = <<>>
    /\ UNCHANGED <<arrived, emitted, crashed>>

Next == \/ \E n \in 1..Total : Chunk(n)
        \/ PrefixCut \/ CompletePacket \/ MultiplePackets \/ IncompletePacket

Spec == Init /\ [][Next]_vars

-----------------------------------------------------------------------------
(* Properties *)

\* However the stream is cut into chunks, the packets emitted are the server's,
\* each whole, in order, none left out and none twice.
PacketsIntact ==
    /\ Len(emitted) <= Packets
    /\ \A k \in DOMAIN emitted : emitted[k] = Packet(k)

\* When processData has returned, every packet that has arrived whole has been
\* emitted: none waits for more bytes.
NothingHeldBack ==
    data = <<>> /\ Len(emitted) < Packets => arrived < Boundary[Len(emitted) + 1]

\* The receiver throws only when a chunk ends inside the length prefix of the
\* next packet, having seen none of what follows the prefix.
CrashOnlyInsidePrefix ==
    crashed =>
        /\ Len(emitted) < Packets
        /\ Boundary[Len(emitted)] < arrived
        /\ arrived < Boundary[Len(emitted)] + LengthPrefixLength
=============================================================================
