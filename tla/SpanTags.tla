------------------------------- MODULE SpanTags -------------------------------
(***************************************************************************)
(* How the interceptors of pkg/tracing turn the error of an RPC into the   *)
(* tags of its span (ErrorClass and SetSpanTags of server_interceptor.go). *)
(* An error value is the string "nil", the name of a gRPC status code, or  *)
(* one of the plain Go errors that carry no status.                        *)
(***************************************************************************)

ClientCodes == {"InvalidArgument", "NotFound", "AlreadyExists",
                "PermissionDenied", "Unauthenticated", "FailedPrecondition",
                "OutOfRange"}

ServerCodes == {"DeadlineExceeded", "ResourceExhausted", "Aborted",
                "Unimplemented", "Internal", "Unavailable", "DataLoss"}

SuccessCodes == {"OK", "Canceled"}

(* The status codes of google.golang.org/grpc/codes. *)
Codes == ClientCodes \cup ServerCodes \cup SuccessCodes \cup {"Unknown"}

NoError == "nil"

(* context.Canceled, context.DeadlineExceeded and io.EOF: status.FromError *)
(* does not recognise them, so they have no code of their own.             *)
PlainErrors == {"context.Canceled", "context.DeadlineExceeded", "io.EOF"}

(* A status error never carries OK: status.Err() of OK is nil. *)
StatusErrors == Codes \ {"OK"}

Errors == StatusErrors \cup PlainErrors \cup {NoError}

(* status.FromError(err): the code, and whether err is a status (nil is). *)
IsStatus(err) == err \in Codes \cup {NoError}

CodeOf(err) == CASE err = NoError -> "OK"
                 [] err \in Codes -> err
                 [] OTHER         -> "Unknown"

(* ErrorClass: 2xx, 4xx, 5xx, or 0xx for Unknown and for plain errors. *)
Classes == {"0xx", "2xx", "4xx", "5xx"}

ErrorClass(err) ==
  CASE ~IsStatus(err)               -> "0xx"
    [] CodeOf(err) \in SuccessCodes -> "2xx"
    [] CodeOf(err) \in ClientCodes  -> "4xx"
    [] CodeOf(err) \in ServerCodes  -> "5xx"
    [] OTHER                        -> "0xx"

(* The tags and logs of a span that the interceptors write. "-" is unset.  *)
Untagged == [code |-> "-", class |-> "-", error |-> FALSE, logged |-> FALSE]

Tags == [code: Codes \cup {"-"}, class: Classes \cup {"-"},
         error: BOOLEAN, logged: BOOLEAN]

(* SetSpanTags(span, err, client): code and class always, the error tag    *)
(* only for a failure that is the server's or is seen by a client.         *)
SetSpanTags(tags, err, client) ==
  [tags EXCEPT
     !.code  = CodeOf(err),
     !.class = ErrorClass(err),
     !.error = @ \/ /\ err # NoError
                    /\ ErrorClass(err) # "2xx"
                    /\ client \/ ErrorClass(err) = "5xx"]

(* LogFields("event", "error", "message", err) *)
LogError(tags) == [tags EXCEPT !.logged = TRUE]

===============================================================================
