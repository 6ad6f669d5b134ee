------------------------------ MODULE MCSession ------------------------------
(* Instance of Session for TLC: the requests share one ApiClient, or r1 has  *)
(* one of its own.                                                           *)
EXTENDS Session

CONSTANTS r1, r2, a1, a2

OneClient == [r \in Requests |-> a1]
TwoClients == [r \in Requests |-> IF r = r1 THEN a1 ELSE a2]
=============================================================================
