---------------------------- MODULE MCFramedStream ----------------------------
(***************************************************************************)
(* A small instance of FramedStream for TLC: an event, a heartbeat with    *)
(* nothing but its id, an authenticated request.                           *)
(***************************************************************************)
EXTENDS FramedStream, SequencesExt

Message(name, payload, auth) ==
    [messageName |-> name, correlationId |-> [i \in 1..16 |-> 255 - i * Len(payload)],
     payload |-> payload, auth |-> auth]

MCSent == <<Message("StreamEventAppeared", <<1, 2>>, FALSE),
            Message("HeartbeatRequestCommand", <<>>, FALSE),
            Message("WriteEvents", <<3, 0, 0, 0, 255>>, TRUE)>>

MCFrames == [k \in 1..3 |-> SentFrame(k)]

MCStream == FlattenSeq(MCFrames)

MCBoundary == [k \in 0..3 |-> Len(FlattenSeq(SubSeq(MCFrames, 1, k)))]
=============================================================================
