--------------------------- MODULE MCTripleServer -----------------------------
(* Model-checking instance of TripleServer: two services generated from    *)
(* one proto file and exposed under two keys (two groups or versions of    *)
(* one interface), a TripleUnaryService and the reflection service.        *)
EXTENDS TripleServer, TLC

CONSTANTS greeterV1, greeterV2, userProvider, reflection,
          greeterDesc, unaryDesc, reflectDesc

MCDescOf == [k \in Keys |-> IF k = userProvider THEN unaryDesc
                            ELSE IF k = reflection THEN reflectDesc
                            ELSE greeterDesc]

(* The two greeters differ in nothing but their key. *)
Greeters == Permutations({greeterV1, greeterV2})
===============================================================================
