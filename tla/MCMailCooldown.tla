---------------------------- MODULE MCMailCooldown ----------------------------
(* Three requests about one user: two for the same mail, one for another.   *)
EXTENDS MailCooldown, TLC

CONSTANTS r1, r2, r3, u1

MCUsers == {u1}
MCRequests == {r1, r2, r3}

Symm == Permutations({r1, r2})

MCKind ==
  [r \in MCRequests |->
     IF r = r3 THEN "reset-password" ELSE "signin-magic-link"]

MCUser == [r \in MCRequests |-> u1]

===============================================================================
