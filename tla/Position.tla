------------------------------- MODULE Position -------------------------------
(***************************************************************************)
(* Positions in the log of all streams (position.js).  A transaction's     *)
(* events share their commit position and differ in their prepare          *)
(* position.  The strings the server sends are parsed by compare; here a   *)
(* position has the numbers.                                               *)
(***************************************************************************)
EXTENDS Integers

Position(c, p) == [commit |-> c, prepare |-> p]

start == Position(0, 0)
end   == Position(-1, -1)

IsPosition(p) == p \in [commit : Int, prepare : Int]

\* compare
Compare(this, other) ==
    CASE this.commit > other.commit -> 1
      [] this.commit < other.commit -> -1
      [] this.commit = other.commit /\ this.prepare > other.prepare -> 1
      [] this.commit = other.commit /\ this.prepare < other.prepare -> -1
      [] OTHER -> 0
=============================================================================
