---------------------------- MODULE MCCursorWalk ----------------------------
(* Five users created in three milliseconds: two of them in one millisecond, *)
(* a microsecond apart, and two at the same time.  The limits take in those  *)
(* that only the documentation forbids; -2 stands for all below -1.          *)
EXTENDS CursorWalk

CONSTANTS a, b, c, d, e

MCRows == {a, b, c, d, e}
MCMs ==
  [r \in MCRows |-> IF r = a THEN 0 ELSE IF r \in {b, c} THEN 1 ELSE 2]
MCLimits == {-2, -1, 0, 1, 2}
MCSub == [r \in MCRows |-> IF r = c THEN 1 ELSE 0]

===============================================================================
