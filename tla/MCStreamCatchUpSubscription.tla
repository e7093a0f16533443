--------------------- MODULE MCStreamCatchUpSubscription ---------------------
(***************************************************************************)
(* Small instances of StreamCatchUpSubscription for TLC.                   *)
(***************************************************************************)
EXTENDS StreamCatchUpSubscription

\* -1 and sequences of numbers cannot be written in a configuration file.
FromTheStart == -1
=============================================================================
