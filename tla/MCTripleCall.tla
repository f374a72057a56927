----------------------------- MODULE MCTripleCall -----------------------------
(* Model-checking instance of TripleCall: a call to one service of a       *)
(* server that is started and refreshed, with every pair of a custom, a    *)
(* built-in and the protobuf codec and every kind of service.              *)
EXTENDS TripleCall

CONSTANTS c1, f1
===============================================================================
