----------------------------- MODULE MCGateway -----------------------------
(* Two gateway processes, two upstreams. *)
EXTENDS Gateway

CONSTANTS r1, r2, s1, s2, c1, c2

MCHome == [r \in Requests |-> IF r = r1 THEN s1 ELSE s2]
=============================================================================
