--------------------------- MODULE MCClientStream -----------------------------
(* Model-checking instance of ClientStream: one goroutine sends and one    *)
(* receives, the concurrency gRPC allows on a stream. Either may call any  *)
(* method.                                                                 *)
EXTENDS ClientStream

CONSTANTS sender, receiver
===============================================================================
