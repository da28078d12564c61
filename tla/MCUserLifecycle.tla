--------------------------- MODULE MCUserLifecycle ---------------------------
(* Two updates and two deletes of one account, by that account and by       *)
(* another.  n3 is n1 and n4 in lower case; the account has n1 at first, as  *)
(* one that came from a social login may, and the updates ask for n4 and n1. *)
EXTENDS UserLifecycle

CONSTANTS r1, r2, r3, r4, u1, u2, n1, n2, n3, n4

MCUsers == {u1, u2}
MCUsernames == {n1, n2, n3, n4}
MCRequests == {r1, r2, r3, r4}

MCOp ==
  [r \in MCRequests |-> IF r \in {r1, r2} THEN "update"
                        ELSE IF r = r3 THEN "delete" ELSE "mutation"]
MCCaller == [r \in MCRequests |-> IF r \in {r1, r2} THEN u1 ELSE u2]
MCTarget == [r \in MCRequests |-> u1]
MCAsked ==
  [r \in MCRequests |-> IF r = r1 THEN n4 ELSE IF r = r2 THEN n1 ELSE Null]
MCLower == [n \in MCUsernames |-> IF n \in {n1, n4} THEN n3 ELSE n]
MCFirst == [u \in MCUsers |-> IF u = u1 THEN n1 ELSE n2]

===============================================================================
