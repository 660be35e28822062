--------------------------- MODULE MCLoadBalancer ---------------------------
(* TLC instance of LoadBalancer: only the conversations of Returning make a *)
(* second turn.                                                             *)
EXTENDS LoadBalancer

CONSTANT Returning

Turns == [c \in Conversations |-> IF c \in Returning THEN 2 ELSE 1]
=============================================================================
