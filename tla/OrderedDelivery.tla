--------------------------- MODULE OrderedDelivery ---------------------------
(***************************************************************************)
(* What a catch-up subscription promises its listeners: the events written *)
(* after a starting point, each once, in order and without a gap, until    *)
(* the subscription has ended.                                             *)
(***************************************************************************)
EXTENDS Integers, Sequences

CONSTANTS
    MaxEvents, \* bound: events ever written
    From       \* the number of the first event the listener is owed

VARIABLES
    written,   \* number of events in the log: 0 .. written - 1
    delivered, \* event numbers given to the listener, in order
    ended      \* the listener was told the subscription is over

vars == <<written, delivered, ended>>

Init ==
    /\ written \in 0..MaxEvents
    /\ delivered = <<>>
    /\ ended = FALSE

\* A transaction's events are written together.
Write ==
    /\ written' \in (written + 1)..MaxEvents
    /\ UNCHANGED <<delivered, ended>>

Deliver ==
    /\ ~ended
    /\ From + Len(delivered) < written
    /\ delivered' = Append(delivered, From + Len(delivered))
    /\ UNCHANGED <<written, ended>>

End ==
    /\ ended' = TRUE
    /\ UNCHANGED <<written, delivered>>

Next == Write \/ Deliver \/ End

Spec == Init /\ [][Next]_vars
=============================================================================
