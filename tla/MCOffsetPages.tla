---------------------------- MODULE MCOffsetPages ----------------------------
(* Four users, two of them created in the same moment.  The limits and first  *)
(* pages take in those that only the documentation forbids.                   *)
EXTENDS OffsetPages, TLC

CONSTANTS a, b, c, d

MCCreatedAt == (a :> 1) @@ (b :> 2) @@ (c :> 2) @@ (d :> 3)
MCLimits == {-1, 0, 1, 2}
MCStarts == {-1, 0, 1, 2}

===============================================================================
