----------------------------- MODULE MCRequests -----------------------------
(* Two requests.  The first is c1's, which takes nothing away where clients  *)
(* are alike.  Headers and the proxy are tried on one throttled route; only   *)
(* c1 leaves a header empty, and only the address of c2 is claimed.           *)
EXTENDS Requests, TLC

CONSTANTS r1, r2, c1, c2, p, f1, f2

Claimed(k) ==
  IF k.proxied /\ k.header = "address" THEN {k.client}
  ELSE IF k.header = "address" THEN {c2} ELSE {None, c2}

OffersOf(clients) ==
  {k \in Kinds :
     /\ k.client \in clients
     /\ k.route = "users" \/ k.header = "none"
     /\ k.leftmost \in Claimed(k) /\ (k.header = "empty" => k.client = c1)
     /\ k.route = "upload" => k.files \in {{}, {f1, f2}}}

MCOffers == (r1 :> OffersOf({c1})) @@ (r2 :> OffersOf({c1, c2}))

===============================================================================
