--------------------------- MODULE MCTripleClient -----------------------------
(* Model-checking instance of TripleClient: two goroutines make up to      *)
(* three calls between them, so that one of them calls again.              *)
EXTENDS TripleClient

CONSTANTS c1, c2
===============================================================================
