----------------------------- MODULE TripleClient -----------------------------
(***************************************************************************)
(* A TripleClient and its TripleConn (pkg/triple/dubbo3_client.go and      *)
(* dubbo3_conn.go): NewTripleClient, unary calls of Invoke from several    *)
(* goroutines, and Close, while codecs are registered (common/codec.go),   *)
(* call contexts expire and the server answers late, wrongly or never.     *)
(* The gRPC connection, the generated stub and ReflectResponse are         *)
(* external. Options come from NewTripleOption.                            *)
(***************************************************************************)
EXTENDS Naturals

CONSTANTS
  Calls,     \* goroutines that call Invoke, one call after another
  MaxCalls   \* bound: how many calls of Invoke are made

PBCodecName == "protobuf"
BuiltInCodecs == {"hessian2", "msgpack"}
CustomCodec == "jsonMapStruct"

CodecTypes == BuiltInCodecs \cup {PBCodecName, CustomCodec}

ASSUME ClientAssumption == MaxCalls \in Nat

VARIABLES
  codecType,   \* opt.CodecType
  oldStub,     \* does the stub return a plain error, without attachments?
  client,      \* "none", "error" (NewTripleClient failed) or "ready"
  holder,      \* which field keeps the TripleConn
  grpcConn,    \* "nil", "open" or "closed"
  registered,  \* is there a factory for CustomCodec in codecFactoryMap?
  closed,      \* has Close returned?
  made,        \* how many calls there have been
  pc,          \* per call: where Invoke is
  ctx,         \* per call: the context TripleConn.Invoke makes
  answer,      \* per call: what the server answered, with its trailer
  reply,       \* per call: the caller's reply object
  refl,        \* per call: the goroutine that reflects the response to reply
  result,      \* per call: what Invoke returned, or "panic"
  late         \* per call: did it begin after Close had returned?

given == <<codecType, oldStub>>
fixed == <<given, client, holder, registered, closed>>
invocations == <<made, pc, ctx, answer, reply, refl, result, late>>
vars == <<codecType, oldStub, client, holder, grpcConn, registered, closed,
          made, pc, ctx, answer, reply, refl, result, late>>

Answers == {"none", "OK", "Internal"}
NoAttachment == "empty"
Trailer == "trailer"

(* common.NewErrorWithAttachment *)
ErrorWithAttachment(err, attachments) ==
  [err |-> err, attachments |-> attachments]

Results == [err: {"nil", "Unimplemented", "Internal", "DeadlineExceeded",
                  "Canceled", "reflect", "panic", "pending"},
            attachments: {NoAttachment, Trailer}]

Panics == ErrorWithAttachment("panic", NoAttachment)
Pending == ErrorWithAttachment("pending", NoAttachment)

TypeOK ==
  /\ codecType \in CodecTypes
  /\ oldStub \in BOOLEAN
  /\ client \in {"none", "error", "ready"}
  /\ holder \in {"none", "triplConn", "stubInvoker"}
  /\ grpcConn \in {"nil", "open", "closed"}
  /\ registered \in BOOLEAN
  /\ closed \in BOOLEAN
  /\ made \in 0..MaxCalls
  /\ pc \in [Calls -> {"idle", "rpc", "returned", "wait"}]
  /\ ctx \in [Calls -> {"none", "live", "expired", "cancelled"}]
  /\ answer \in [Calls -> Answers]
  /\ reply \in [Calls -> {"unset", "set"}]
  /\ refl \in [Calls -> {"none", "running", "sendNil", "sendErr"}]
  /\ result \in [Calls -> Results]
  /\ late \in [Calls -> BOOLEAN]

Init ==
  /\ codecType \in CodecTypes
  /\ oldStub \in BOOLEAN
  /\ client = "none" /\ holder = "none" /\ grpcConn = "nil"
  /\ registered \in BOOLEAN
  /\ closed = FALSE
  /\ made = 0
  /\ pc = [c \in Calls |-> "idle"]
  /\ ctx = [c \in Calls |-> "none"]
  /\ answer = [c \in Calls |-> "none"]
  /\ reply = [c \in Calls |-> "unset"]
  /\ refl = [c \in Calls |-> "none"]
  /\ result = [c \in Calls |-> Pending]
  /\ late = [c \in Calls |-> FALSE]

-------------------------------------------------------------------------------
(* newTripleConn: a dial that fails, or outlives its timeout, leaves a nil *)
(* grpcConn unnoticed.                                                     *)
NewTripleConn == grpcConn' \in {"open", "nil"}

(* NewTripleClient. A TLS file that cannot be loaded is an error.          *)
NewTripleClient ==
  /\ client = "none"
  /\ \/ client' = "error" /\ UNCHANGED <<holder, grpcConn>>
     \/ /\ client' = "ready"
        /\ holder' = IF codecType = PBCodecName THEN "stubInvoker"
                     ELSE "triplConn"
        /\ NewTripleConn
  /\ UNCHANGED <<given, registered, closed, invocations>>

(* common.SetTripleCodec, by the application, at any time. *)
SetTripleCodec ==
  /\ ~registered
  /\ registered' = TRUE
  /\ UNCHANGED <<given, client, holder, grpcConn, closed, invocations>>

-------------------------------------------------------------------------------
(* Invoke up to the call of grpcConn.Invoke.                               *)

Begin(c) ==
  /\ client = "ready" /\ pc[c] = "idle" /\ made < MaxCalls
  /\ made' = made + 1
  /\ reply' = [reply EXCEPT ![c] = "unset"]
  /\ answer' = [answer EXCEPT ![c] = "none"]
  /\ late' = [late EXCEPT ![c] = closed]
  /\ UNCHANGED <<grpcConn, refl, fixed>>

ReturnsAtOnce(c, res) ==
  /\ result' = [result EXCEPT ![c] = res]
  /\ ctx' = [ctx EXCEPT ![c] = "none"]
  /\ UNCHANGED pc

(* MethodByName gives the zero Value for a method the stub has not, and    *)
(* IsZero of the zero Value panics.                                        *)
InvokeUnknownMethod(c) ==
  /\ Begin(c)
  /\ codecType = PBCodecName
  /\ ReturnsAtOnce(c, Panics)

GetTripleCodec == codecType \in BuiltInCodecs \/ registered

InvokeWithoutCodec(c) ==
  /\ Begin(c)
  /\ codecType # PBCodecName /\ ~GetTripleCodec
  /\ ReturnsAtOnce(c, ErrorWithAttachment("Unimplemented", NoAttachment))

CallsConn(c, context) ==
  /\ Begin(c)
  /\ codecType = PBCodecName \/ GetTripleCodec
  /\ \/ grpcConn = "nil" /\ ReturnsAtOnce(c, Panics)
     \/ /\ grpcConn # "nil"
        /\ pc' = [pc EXCEPT ![c] = "rpc"]
        /\ ctx' = [ctx EXCEPT ![c] = context]
        /\ result' = [result EXCEPT ![c] = Pending]

InvokeWithoutTimeout(c) == CallsConn(c, "none")

(* TripleConn.Invoke, called by the stub or by Invoke itself: a context    *)
(* with the client's timeout, then grpcConn.Invoke, which panics on a nil  *)
(* connection.                                                             *)
Invoke(c) == CallsConn(c, "live")

-------------------------------------------------------------------------------
(* External: the server, the timer of the context and the caller's own     *)
(* cancellation, until grpcConn.Invoke sees one of them.                   *)

ServerAnswers(c) ==
  /\ pc[c] = "rpc" /\ answer[c] = "none" /\ grpcConn = "open"
  /\ \E a \in Answers \ {"none"} : answer' = [answer EXCEPT ![c] = a]
  /\ UNCHANGED <<fixed, grpcConn, made, pc, ctx, reply, refl, result, late>>

Timeout(c) ==
  /\ ctx[c] = "live"
  /\ ctx' = [ctx EXCEPT ![c] = "expired"]
  /\ UNCHANGED <<fixed, grpcConn, made, pc, answer, reply, refl, result, late>>

CallerCancels(c) ==
  /\ ctx[c] = "live"
  /\ ctx' = [ctx EXCEPT ![c] = "cancelled"]
  /\ UNCHANGED <<fixed, grpcConn, made, pc, answer, reply, refl, result, late>>

(* How grpcConn.Invoke can return: with the server's answer and trailer,   *)
(* or without a trailer because of the context or of a closed connection.  *)
Outcomes(c) ==
  (IF answer[c] = "none" THEN {}
   ELSE {ErrorWithAttachment(IF answer[c] = "OK" THEN "nil" ELSE answer[c],
                             Trailer)})
  \cup (IF ctx[c] = "expired"
        THEN {ErrorWithAttachment("DeadlineExceeded", NoAttachment)} ELSE {})
  \cup (IF ctx[c] = "cancelled" \/ grpcConn = "closed"
        THEN {ErrorWithAttachment("Canceled", NoAttachment)} ELSE {})

(* TripleConn.Invoke returns, its deferred cancel included. The stub has   *)
(* an object of its own for the response; without a stub the reply is the  *)
(* caller's.                                                               *)
ConnInvokeReturns(c) ==
  /\ pc[c] = "rpc"
  /\ \E out \in Outcomes(c) : result' = [result EXCEPT ![c] = out]
  /\ ctx' = [ctx EXCEPT ![c] = "none"]
  /\ pc' = [pc EXCEPT ![c] = IF codecType = PBCodecName THEN "returned"
                             ELSE "idle"]
  /\ reply' = [reply EXCEPT ![c] = IF codecType # PBCodecName
                                      /\ result'[c].err = "nil"
                                   THEN "set" ELSE @]
  /\ UNCHANGED <<fixed, grpcConn, made, answer, refl, late>>

-------------------------------------------------------------------------------
(* The rest of Invoke for a protobuf client.                               *)

(* An error is returned with the attachments left empty. *)
StubFailed(c) ==
  /\ pc[c] = "returned" /\ result[c].err # "nil"
  /\ pc' = [pc EXCEPT ![c] = "idle"]
  /\ result' = [result EXCEPT ![c].attachments = NoAttachment]
  /\ UNCHANGED <<fixed, grpcConn, made, ctx, answer, reply, refl, late>>

ReflectsInBackground(c) ==
  /\ pc[c] = "returned"
  /\ pc' = [pc EXCEPT ![c] = "idle"]
  /\ refl' = [refl EXCEPT ![c] = "running"]
  /\ UNCHANGED <<fixed, grpcConn, made, ctx, answer, reply, result, late>>

ReflectsWhateverTheError(c) ==
  /\ pc[c] = "returned"
  /\ pc' = [pc EXCEPT ![c] = "wait"]
  /\ refl' = [refl EXCEPT ![c] = "running"]
  /\ result' = [result EXCEPT ![c].err = "nil"]
  /\ UNCHANGED <<fixed, grpcConn, made, ctx, answer, reply, late>>

(* The attachments are those of the stub's ErrorWithAttachment, if that is *)
(* what it returns.                                                        *)
SpawnReflect(c) ==
  /\ pc[c] = "returned" /\ result[c].err = "nil"
  /\ pc' = [pc EXCEPT ![c] = "wait"]
  /\ refl' = [refl EXCEPT ![c] = "running"]
  /\ result' = IF oldStub THEN [result EXCEPT ![c].attachments = NoAttachment]
               ELSE result
  /\ UNCHANGED <<fixed, grpcConn, made, ctx, answer, reply, late>>

(* External: ReflectResponse sets the reply, or returns an error that is   *)
(* ignored and leaves it as it is, or panics, which the goroutine recovers *)
(* from.                                                                   *)
ReflectResponse(c) ==
  /\ refl[c] = "running"
  /\ \/ /\ reply' = [reply EXCEPT ![c] = "set"]
        /\ refl' = [refl EXCEPT ![c] = "sendNil"]
     \/ refl' = [refl EXCEPT ![c] = "sendNil"] /\ UNCHANGED reply
     \/ refl' = [refl EXCEPT ![c] = "sendErr"] /\ UNCHANGED reply
  /\ UNCHANGED <<fixed, grpcConn, made, pc, ctx, answer, result, late>>

GivesUpWaiting(c) ==
  /\ pc[c] = "wait" /\ refl[c] # "none"
  /\ pc' = [pc EXCEPT ![c] = "idle"]
  /\ UNCHANGED <<fixed, grpcConn, made, ctx, answer, reply, refl, result, late>>

(* errChan is not buffered: the send and the receive are one step. *)
ErrChan(c) ==
  /\ pc[c] = "wait" /\ refl[c] \in {"sendNil", "sendErr"}
  /\ pc' = [pc EXCEPT ![c] = "idle"]
  /\ result' = IF refl[c] = "sendErr" THEN [result EXCEPT ![c].err = "reflect"]
               ELSE result
  /\ refl' = [refl EXCEPT ![c] = "none"]
  /\ UNCHANGED <<fixed, grpcConn, made, ctx, answer, reply, late>>

-------------------------------------------------------------------------------
Closes(reached) ==
  /\ client = "ready" /\ ~closed
  /\ closed' = TRUE
  /\ grpcConn' = IF reached /\ grpcConn # "nil" THEN "closed" ELSE grpcConn
  /\ UNCHANGED <<given, client, holder, registered, invocations>>

CloseOnlyIdle ==
  Closes(holder = "triplConn" /\ \A c \in Calls : pc[c] = "idle")

(* Close knows the connection only if it is in triplConn. *)
Close == Closes(holder = "triplConn")

-------------------------------------------------------------------------------
CallStep(c) == \/ ConnInvokeReturns(c)
               \/ StubFailed(c) \/ SpawnReflect(c)
               \/ ReflectResponse(c) \/ ErrChan(c)

Next ==
  \/ NewTripleClient \/ SetTripleCodec \/ Close
  \/ \E c \in Calls : \/ Invoke(c)
                      \/ InvokeUnknownMethod(c) \/ InvokeWithoutCodec(c)
                      \/ ServerAnswers(c) \/ Timeout(c) \/ CallerCancels(c)
                      \/ CallStep(c)

Spec == Init /\ [][Next]_vars

(* Goroutines that can run do, and time passes. Nothing is assumed of the  *)
(* server, which may never answer.                                         *)
FairSpec == /\ Spec
            /\ \A c \in Calls : WF_vars(CallStep(c)) /\ WF_vars(Timeout(c))

-------------------------------------------------------------------------------
(* Invoke has returned to the caller. *)
Returned(c) == pc[c] = "idle" /\ result[c].err # "pending"

(* An Invoke without an error means that the server answered this very     *)
(* call with OK, and its attachments are that answer's trailer, unless the *)
(* stub has dropped it: whatever timeouts, cancellation, Close and late    *)
(* answers race with the call                                              *)
(* (dubbo3_client.go:145-158, dubbo3_conn.go:47-53).                       *)
SuccessIsReal ==
  \A c \in Calls : Returned(c) /\ result[c].err = "nil" =>
    /\ answer[c] = "OK"
    /\ result[c].attachments = IF codecType = PBCodecName /\ oldStub
                               THEN NoAttachment ELSE Trailer

(* Once Invoke has returned, the goroutine it started no longer writes to  *)
(* the caller's reply (dubbo3_client.go:163-176).                          *)
ReplyStableAfterReturn ==
  [][\A c \in Calls :
       pc[c] = "idle" /\ made' = made => reply'[c] = reply[c]]_vars

(* A call that begins after Close of a client that keeps its connection in *)
(* triplConn never succeeds (dubbo3_client.go:208-213).                    *)
NoSuccessAfterClose ==
  \A c \in Calls :
    late[c] /\ codecType # PBCodecName => result[c].err # "nil"

(* Every Invoke returns, even if the server never answers: the timeout     *)
(* (dubbo3_conn.go:45) and the unbuffered errChan see to it.               *)
InvokeReturns == \A c \in Calls : (pc[c] # "idle") ~> (pc[c] = "idle")

(* The goroutine that reflects the response always ends: somebody receives *)
(* what it sends on errChan (dubbo3_client.go:164-176).                    *)
ReflectGoroutineEnds ==
  \A c \in Calls : (refl[c] # "none") ~> (refl[c] = "none")

(* What every call leaves true of the client, and of itself. *)
ConnectionPart ==
  /\ closed => client = "ready"
  /\ client = "ready" => (holder = "triplConn" <=> codecType # PBCodecName)
  /\ closed /\ holder = "triplConn" => grpcConn # "open"

CallPart(c) ==
  /\ pc[c] # "rpc" => ctx[c] = "none"
  /\ pc[c] = "rpc" => result[c] = Pending
  /\ pc[c] = "wait" <=> refl[c] # "none"
  /\ pc[c] \in {"returned", "wait"} => codecType = PBCodecName
  /\ pc[c] = "wait" => result[c].err = "nil"
  /\ result[c].err = "nil" =>
       /\ answer[c] = "OK"
       /\ result[c].attachments =
            IF pc[c] # "returned" /\ codecType = PBCodecName /\ oldStub
            THEN NoAttachment ELSE Trailer
  /\ late[c] => closed
  /\ late[c] /\ codecType # PBCodecName => answer[c] = "none"

(* What every step of a call relies on: a context lives only inside        *)
(* TripleConn.Invoke, the goroutine that reflects only while Invoke waits  *)
(* for it, a result without an error stems from the server's OK with its   *)
(* trailer, and a client that Close reaches gets no answers after it       *)
(* (dubbo3_client.go:133-213, dubbo3_conn.go:44-53).                       *)
ClientInvariant == ConnectionPart /\ \A c \in Calls : CallPart(c)

(* The client and each of its calls, well typed and in step, at any point  *)
(* of an Invoke and whatever timeouts, Close and late answers do meanwhile *)
(* (dubbo3_client.go:133-213, dubbo3_conn.go:44-53).                       *)
InductiveInvariant == TypeOK /\ ClientInvariant

(* A statement of the code's comments that the code does not keep.         *)

(* "Close destroy http controller and return" (dubbo3_client.go:207).      *)
CloseDestroysConn == closed => grpcConn # "open"

===============================================================================
