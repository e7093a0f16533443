---------------------- MODULE MCAllCatchUpSubscription ----------------------
(***************************************************************************)
(* Small instances of AllCatchUpSubscription for TLC.                      *)
(***************************************************************************)
EXTENDS AllCatchUpSubscription

\* Two transactions of two events each, and a single event at either end.  The
\* commit records of the transactions take positions of their own.
MCPos == [n \in Events |-> CASE n = 0 -> Position(0, 0)
                             [] n \in {1, 2} -> Position(3, n)
                             [] n \in {3, 4} -> Position(7, n + 2)
                             [] OTHER -> Position(n + 3, n + 3)]
=============================================================================
