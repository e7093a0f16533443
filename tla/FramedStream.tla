----------------------------- MODULE FramedStream -----------------------------
(***************************************************************************)
(* MessageReceiver over the bytes of framed messages: what the one end of  *)
(* a connection frames, in order, and what the other end's receiver makes  *)
(* of the stream.                                                          *)
(***************************************************************************)
EXTENDS MessageReceiver

CONSTANTS
    Sent,  \* the messages framed, in order
    Stream \* the bytes written; the byte at position p is Stream[p + 1]

SentFrame(k) ==
    Frame(Sent[k].messageName, Sent[k].correlationId, Sent[k].payload, Sent[k].auth)

\* The frames follow each other, each in a buffer of its own.
ASSUME StreamAssumption ==
    /\ Sent \in [1..Packets -> [messageName : MessageNames, correlationId : [1..16 -> Byte],
                                payload : Seq(Byte), auth : BOOLEAN]]
    /\ \A k \in 1..Packets :
           /\ Len(SentFrame(k)) <= MaxBufferLength
           /\ Boundary[k] = Boundary[k - 1] + Len(SentFrame(k))
           /\ \A i \in 1..Len(SentFrame(k)) : Stream[Boundary[k - 1] + i] = SentFrame(k)[i]

\* The bytes of a packet.
Contents(packet) == [i \in 1..Len(packet) |-> Stream[packet[i] + 1]]

\* The messages received are the messages framed, in order, however the stream is
\* cut into chunks.  Only the credentials of one that is authenticated stay in front
\* of its payload: the packages of the server have none.
MessagesReceived ==
    \A k \in DOMAIN emitted :
        Unframe(Contents(emitted[k])) =
            [messageName   |-> Sent[k].messageName,
             flag          |-> Flag(Sent[k].auth),
             correlationId |-> Sent[k].correlationId,
             payload       |-> AuthPart(Sent[k].auth) \o Sent[k].payload]
=============================================================================
