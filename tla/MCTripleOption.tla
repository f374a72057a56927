--------------------------- MODULE MCTripleOption -----------------------------
(* Model-checking instance of TripleOption: lists of up to three option    *)
(* functions, enough for two that set one field and one that could disturb *)
(* it, or for the two keep-alive options and a limit.                      *)
EXTENDS TripleOption
===============================================================================
