------------------------------- MODULE Framing -------------------------------
(***************************************************************************)
(* How a message is laid out as bytes (lengthPrefixMessageFramer.js with   *)
(* tcp_commands.js and tcp_flags.js): the length of what follows, command, *)
(* flag, correlation id, a user and a password when it is authenticated,   *)
(* payload.  A packet is a sequence of bytes, so byte n of the code's      *)
(* buffers is element n + 1.                                               *)
(***************************************************************************)
EXTENDS Integers, Sequences

Byte == 0..255

LengthPrefixLength == 4
CommandOffset == LengthPrefixLength
FlagOffset == CommandOffset + 1
CorrelationIdOffset == FlagOffset + 1
AuthOffset == CorrelationIdOffset + 16

\* The code of NotAuthenticated is no byte: a package with F4, which the server sends,
\* has no name.
Commands == [
    HeartbeatRequestCommand |-> 1, HeartbeatResponseCommand |-> 2, Ping |-> 3, Pong |-> 4,
    PrepareAck |-> 5, CommitAck |-> 6, SlaveAssignment |-> 7, CloneAssignment |-> 8,
    SubscribeReplica |-> 16, ReplicaLogPositionAck |-> 17, CreateChunk |-> 18,
    RawChunkBulk |-> 19, DataChunkBulk |-> 20, ReplicaSubscriptionRetry |-> 21,
    ReplicaSubscribed |-> 22,
    WriteEvents |-> 130, WriteEventsCompleted |-> 131,
    TransactionStart |-> 132, TransactionStartCompleted |-> 133,
    TransactionWrite |-> 134, TransactionWriteCompleted |-> 135,
    TransactionCommit |-> 136, TransactionCommitCompleted |-> 137,
    DeleteStream |-> 138, DeleteStreamCompleted |-> 139,
    ReadEvent |-> 176, ReadEventCompleted |-> 177,
    ReadStreamEventsForward |-> 178, ReadStreamEventsForwardCompleted |-> 179,
    ReadStreamEventsBackward |-> 180, ReadStreamEventsBackwardCompleted |-> 181,
    ReadAllEventsForward |-> 182, ReadAllEventsForwardCompleted |-> 183,
    ReadAllEventsBackward |-> 184, ReadAllEventsBackwardCompleted |-> 185,
    SubscribeToStream |-> 192, SubscriptionConfirmation |-> 193, StreamEventAppeared |-> 194,
    UnsubscribeFromStream |-> 195, SubscriptionDropped |-> 196,
    ScavengeDatabase |-> 208, ScavengeDatabaseCompleted |-> 209,
    BadRequest |-> 240, NotHandled |-> 241, Authenticate |-> 242, Authenticated |-> 243,
    NotAuthenticated |-> 3904]

Flags == [None |-> 0, Authenticated |-> 1]

Undefined == "undefined"

\* The name of a code, by the table `all' that is looked up in.
NameIn(all, code) ==
    IF \E name \in DOMAIN all : all[name] = code
    THEN CHOOSE name \in DOMAIN all : all[name] = code
    ELSE Undefined

\* What can be told by one byte.
MessageNames == {name \in DOMAIN Commands : Commands[name] \in Byte}

\* What a buffer of Node can hold.
MaxBufferLength == 1073741823

\* writeUInt32LE, readUInt32LE
UInt32LE(n) == <<n % 256, (n \div 256) % 256, (n \div 65536) % 256, n \div 16777216>>
ReadUInt32LE(b) == b[1] + 256 * b[2] + 65536 * b[3] + 16777216 * b[4]

\* 'admin' and 'changeit', each with its length: whatever credentials are given.
AuthBlock == <<5, 97, 100, 109, 105, 110>> \o <<8, 99, 104, 97, 110, 103, 101, 105, 116>>

AuthPart(auth) == IF auth THEN AuthBlock ELSE <<>>

Flag(auth) == IF auth THEN "Authenticated" ELSE "None"

\* frameMessage
Frame(messageName, correlationId, payload, auth) ==
    LET rest == <<Commands[messageName], Flags[Flag(auth)]>>
                \o correlationId \o (AuthPart(auth) \o payload)
    IN  UInt32LE(Len(rest)) \o rest

GetContentLength(packet) == ReadUInt32LE(packet)

\* Mutation: the payload starts one byte early.
UnframeEarly(packet) ==
    [messageName   |-> NameIn(Commands, packet[CommandOffset + 1]),
     flag          |-> NameIn(Flags, packet[FlagOffset + 1]),
     correlationId |-> SubSeq(packet, CorrelationIdOffset + 1, AuthOffset),
     payload       |-> SubSeq(packet, AuthOffset, Len(packet))]

\* unframe: the payload starts where authentication would, whatever the flag.
Unframe(packet) ==
    [messageName   |-> NameIn(Commands, packet[CommandOffset + 1]),
     flag          |-> NameIn(Flags, packet[FlagOffset + 1]),
     correlationId |-> SubSeq(packet, CorrelationIdOffset + 1, AuthOffset),
     payload       |-> SubSeq(packet, AuthOffset + 1, Len(packet))]
=============================================================================
