------------------------- MODULE MCTracePropagation ---------------------------
(* Model-checking instance of TracePropagation: two calls of an            *)
(* application that share its context, and a call the handler of the first *)
(* makes.                                                                  *)
EXTENDS TracePropagation

CONSTANTS first, second, nested

MCOrigin == [c \in Calls |-> IF c = nested THEN first ELSE App]
===============================================================================
