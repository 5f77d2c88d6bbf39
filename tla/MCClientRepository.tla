------------------------ MODULE MCClientRepository -------------------------
(* A client that exists and a name that is free; three requests, enough to  *)
(* rotate, disable and authenticate at the same time.                       *)
EXTENDS ClientRepository, TLC

CONSTANTS c1, c2, k1, k2, k3, r1, r2, r3

MCClients == {c1, c2}
MCKeys == {k1, k2, k3}
MCRequests == {r1, r2, r3}
MCFirstKey == c1 :> k1 @@ c2 :> None
=============================================================================
