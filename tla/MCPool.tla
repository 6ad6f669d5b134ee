------------------------------- MODULE MCPool -------------------------------
(* Instance of Pool for TLC: five requests, three of which need a hop, over *)
(* two connections and two threads.                                         *)
EXTENDS Pool

CONSTANTS c1, c2, u, p, h

Endpoints ==
    [r \in Requests |-> CASE r = u -> "direct" [] r = p -> "ready"
                          [] r = h -> "health" [] OTHER -> "hop"]
=============================================================================
