---------------------- MODULE MCConnectionLogicHandler ----------------------
(***************************************************************************)
(* Small instances of ConnectionLogicHandler for TLC.                      *)
(***************************************************************************)
EXTENDS ConnectionLogicHandler

CONSTANTS append, read, transaction, sub1, sub2, beat, none

\* One operation of each class: write and read.
MCKind == [o \in Ops |-> CASE o = append -> "AppendToStream"
                           [] o = read -> "ReadEvent"
                           [] OTHER -> "StartTransaction"]
=============================================================================
