-------------------------- MODULE TripleClientProofs --------------------------
(***************************************************************************)
(* Proofs that, for every set of concurrent callers and however many calls *)
(* they make, a TripleClient reports only real successes, releases every   *)
(* call's context and never writes to a reply it has handed back.          *)
(***************************************************************************)
EXTENDS TripleClient, TLAPS

(* Every error a call can end with makes, with a trailer or without, a     *)
(* well-formed result.                                                     *)
LEMMA ResultTyped ==
  ASSUME NEW err \in {"nil", "Unimplemented", "Internal", "DeadlineExceeded",
                      "Canceled", "reflect", "panic", "pending"},
         NEW attachments \in {NoAttachment, Trailer}
  PROVE  ErrorWithAttachment(err, attachments) \in Results
BY DEF ErrorWithAttachment, Results

(* Whatever makes grpcConn.Invoke return, it returns a well-formed result: *)
(* one without an error is the server's OK, with its trailer.              *)
LEMMA OutcomesTyped ==
  ASSUME TypeOK, NEW c \in Calls, NEW out \in Outcomes(c)
  PROVE  /\ out \in Results
         /\ out.err = "nil" => answer[c] = "OK" /\ out.attachments = Trailer
<1>1. answer[c] \in {"none", "OK", "Internal"}
  BY DEF TypeOK, Answers
<1>2. CASE answer[c] # "none"
           /\ out = ErrorWithAttachment(IF answer[c] = "OK" THEN "nil"
                                        ELSE answer[c], Trailer)
  BY <1>1, <1>2 DEF ErrorWithAttachment, Results
<1>3. CASE \/ out = ErrorWithAttachment("DeadlineExceeded", NoAttachment)
           \/ out = ErrorWithAttachment("Canceled", NoAttachment)
  BY <1>3 DEF ErrorWithAttachment, Results
<1> QED BY <1>2, <1>3 DEF Outcomes

-------------------------------------------------------------------------------
(* Type correctness. *)

LEMMA InitTyped == Init => TypeOK
<1> SUFFICES ASSUME Init PROVE TypeOK
  OBVIOUS
<1>1. Pending \in Results
  BY ResultTyped DEF Pending
<1>2. made \in 0..MaxCalls
  BY ClientAssumption DEF Init
<1>3. result \in [Calls -> Results]
  BY <1>1 DEF Init
<1> QED BY <1>2, <1>3 DEF Init, TypeOK, Answers

LEMMA BeginTyped ==
  ASSUME TypeOK, NEW c \in Calls,
         Invoke(c) \/ InvokeUnknownMethod(c) \/ InvokeWithoutCodec(c)
  PROVE  TypeOK'
<1> USE DEF TypeOK
<1>1. Begin(c)
  BY DEF Invoke, CallsConn, InvokeUnknownMethod, InvokeWithoutCodec
<1>2. made' \in 0..MaxCalls
  BY <1>1, ClientAssumption DEF Begin
<1>3. /\ reply' \in [Calls -> {"unset", "set"}]
      /\ answer' \in [Calls -> Answers]
      /\ late' \in [Calls -> BOOLEAN]
      /\ UNCHANGED <<grpcConn, refl, codecType, oldStub, client, holder,
                     registered, closed>>
  BY <1>1 DEF Begin, Answers, fixed, given
<1>4. ASSUME NEW res \in Results, ReturnsAtOnce(c, res)
      PROVE  TypeOK'
  BY <1>2, <1>3, <1>4 DEF ReturnsAtOnce
<1>5. /\ Panics \in Results
      /\ Pending \in Results
      /\ ErrorWithAttachment("Unimplemented", NoAttachment) \in Results
  BY ResultTyped DEF Panics, Pending
<1>6. CASE /\ pc' = [pc EXCEPT ![c] = "rpc"]
           /\ ctx' = [ctx EXCEPT ![c] = "live"]
           /\ result' = [result EXCEPT ![c] = Pending]
  BY <1>2, <1>3, <1>5, <1>6
<1> QED BY <1>4, <1>5, <1>6 DEF Invoke, CallsConn, InvokeUnknownMethod,
                                InvokeWithoutCodec

LEMMA CallStepTyped ==
  ASSUME TypeOK, NEW c \in Calls, CallStep(c)
  PROVE  TypeOK'
<1> USE DEF TypeOK, fixed, given
<1>0. result[c] \in Results /\ reply[c] \in {"unset", "set"}
  OBVIOUS
<1>1. CASE ConnInvokeReturns(c)
  <2>2. PICK out \in Outcomes(c) : result' = [result EXCEPT ![c] = out]
    BY <1>1 DEF ConnInvokeReturns
  <2>3. result' \in [Calls -> Results]
    BY <2>2, OutcomesTyped
  <2>4. reply' \in [Calls -> {"unset", "set"}]
    BY <1>0, <1>1 DEF ConnInvokeReturns
  <2> QED BY <1>1, <2>3, <2>4 DEF ConnInvokeReturns
<1>2. CASE StubFailed(c)
  <2>1. result' \in [Calls -> Results]
    BY <1>0, <1>2 DEF StubFailed, Results
  <2> QED BY <1>2, <2>1 DEF StubFailed
<1>3. CASE SpawnReflect(c)
  <2>1. result' \in [Calls -> Results]
    BY <1>0, <1>3 DEF SpawnReflect, Results
  <2> QED BY <1>3, <2>1 DEF SpawnReflect
<1>4. CASE ReflectResponse(c)
  BY <1>4 DEF ReflectResponse
<1>5. CASE ErrChan(c)
  <2>1. result' \in [Calls -> Results]
    BY <1>0, <1>5 DEF ErrChan, Results
  <2> QED BY <1>5, <2>1 DEF ErrChan
<1> QED BY <1>1, <1>2, <1>3, <1>4, <1>5 DEF CallStep

LEMMA NextTyped == TypeOK /\ [Next]_vars => TypeOK'
<1> SUFFICES ASSUME TypeOK, [Next]_vars PROVE TypeOK'
  OBVIOUS
<1> USE DEF TypeOK, fixed, given, invocations
<1>1. CASE NewTripleClient
  BY <1>1 DEF NewTripleClient, NewTripleConn
<1>2. CASE SetTripleCodec
  BY <1>2 DEF SetTripleCodec
<1>3. CASE Close
  BY <1>3 DEF Close, Closes
<1>4. ASSUME NEW c \in Calls,
             Invoke(c) \/ InvokeUnknownMethod(c) \/ InvokeWithoutCodec(c)
      PROVE  TypeOK'
  BY <1>4, BeginTyped
<1>5. ASSUME NEW c \in Calls, ServerAnswers(c)
      PROVE  TypeOK'
  BY <1>5 DEF ServerAnswers
<1>6. ASSUME NEW c \in Calls, Timeout(c) \/ CallerCancels(c)
      PROVE  TypeOK'
  BY <1>6 DEF Timeout, CallerCancels
<1>7. ASSUME NEW c \in Calls, CallStep(c)
      PROVE  TypeOK'
  BY <1>7, CallStepTyped
<1>8. CASE UNCHANGED vars
  BY <1>8 DEF vars
<1> QED BY <1>1, <1>2, <1>3, <1>4, <1>5, <1>6, <1>7, <1>8 DEF Next

(* The state of the client and of its calls is well formed at all times.   *)
THEOREM TypeCorrect == Spec => []TypeOK
BY InitTyped, NextTyped, PTL DEF Spec

-------------------------------------------------------------------------------
(* ClientInvariant is inductive. *)

LEMMA InitInvariant == Init => ClientInvariant
BY DEF Init, ClientInvariant, ConnectionPart, CallPart, Pending, ErrorWithAttachment

(* A step of call c, which leaves the client alone, keeps the parts of the *)
(* other calls.                                                            *)
LEMMA OtherCalls ==
  ASSUME TypeOK, ClientInvariant, NEW c \in Calls,
         UNCHANGED fixed, UNCHANGED grpcConn,
         \A d \in Calls \ {c} :
           /\ pc'[d] = pc[d] /\ ctx'[d] = ctx[d] /\ answer'[d] = answer[d]
           /\ refl'[d] = refl[d] /\ result'[d] = result[d]
           /\ late'[d] = late[d],
         CallPart(c)'
  PROVE  ClientInvariant'
<1>1. ConnectionPart /\ ConnectionPart'
  BY DEF ClientInvariant, ConnectionPart, fixed, given
<1>2. ASSUME NEW d \in Calls \ {c}
      PROVE  CallPart(d)'
  <2>1. CallPart(d)
    BY DEF ClientInvariant
  <2> QED BY <2>1 DEF CallPart, fixed, given
<1>3. \A d \in Calls : CallPart(d)'
  BY <1>2
<1> QED BY <1>1, <1>3 DEF ClientInvariant

LEMMA BeginInvariant ==
  ASSUME TypeOK, ClientInvariant, NEW c \in Calls,
         Invoke(c) \/ InvokeUnknownMethod(c) \/ InvokeWithoutCodec(c)
  PROVE  ClientInvariant'
<1>1. Begin(c)
  BY DEF Invoke, CallsConn, InvokeUnknownMethod, InvokeWithoutCodec
<1>2. /\ CallPart(c) /\ pc[c] = "idle" /\ answer'[c] = "none"
      /\ UNCHANGED <<refl, codecType, oldStub>>
  BY <1>1 DEF ClientInvariant, Begin, TypeOK, fixed, given
<1>3. late'[c] => closed'
  BY <1>1 DEF Begin, TypeOK, fixed
<1>4. ASSUME NEW res, res.err \in {"panic", "Unimplemented"},
             ReturnsAtOnce(c, res)
      PROVE  CallPart(c)'
  <2>1. pc'[c] = "idle" /\ ctx'[c] = "none" /\ result'[c].err # "nil"
    BY <1>2, <1>4 DEF ReturnsAtOnce, TypeOK
  <2> QED BY <1>2, <1>3, <2>1 DEF CallPart
<1>5. ASSUME pc' = [pc EXCEPT ![c] = "rpc"],
             result' = [result EXCEPT ![c] = Pending]
      PROVE  CallPart(c)'
  <2>1. pc'[c] = "rpc" /\ result'[c] = Pending
    BY <1>5 DEF TypeOK
  <2>2. result'[c].err # "nil"
    BY <2>1 DEF Pending, ErrorWithAttachment
  <2> QED BY <1>2, <1>3, <2>1, <2>2 DEF CallPart
<1>6. CallPart(c)'
  <2>1. /\ Panics.err = "panic"
        /\ ErrorWithAttachment("Unimplemented", NoAttachment).err = "Unimplemented"
    BY DEF Panics, ErrorWithAttachment
  <2>2. CASE InvokeUnknownMethod(c)
    BY <1>4, <2>1, <2>2 DEF InvokeUnknownMethod
  <2>3. CASE InvokeWithoutCodec(c)
    BY <1>4, <2>1, <2>3 DEF InvokeWithoutCodec
  <2>4. CASE Invoke(c)
    BY <1>4, <1>5, <2>1, <2>4 DEF Invoke, CallsConn
  <2> QED BY <2>2, <2>3, <2>4
<1> QED BY <1>1, <1>6, OtherCalls
        DEF Begin, Invoke, CallsConn, InvokeUnknownMethod, InvokeWithoutCodec,
            ReturnsAtOnce, TypeOK

LEMMA CallStepInvariant ==
  ASSUME TypeOK, ClientInvariant, NEW c \in Calls, CallStep(c)
  PROVE  ClientInvariant'
<1>0. CallPart(c) /\ result[c] \in Results
  BY DEF ClientInvariant, TypeOK
<1>1. CASE ConnInvokeReturns(c)
  <2>2. PICK out \in Outcomes(c) : result' = [result EXCEPT ![c] = out]
    BY <1>1 DEF ConnInvokeReturns
  <2>3. out.err = "nil" => answer[c] = "OK" /\ out.attachments = Trailer
    BY OutcomesTyped
  <2>4. CallPart(c)'
    BY <1>0, <1>1, <2>2, <2>3 DEF ConnInvokeReturns, CallPart, TypeOK, fixed, given
  <2> QED BY <1>1, <2>2, <2>4, OtherCalls DEF ConnInvokeReturns, TypeOK
<1>2. CASE StubFailed(c)
  <2>1. CallPart(c)'
    BY <1>0, <1>2 DEF StubFailed, CallPart, TypeOK, Results, fixed, given
  <2> QED BY <1>2, <2>1, OtherCalls DEF StubFailed, TypeOK
<1>3. CASE SpawnReflect(c)
  <2>1. CallPart(c)'
    BY <1>0, <1>3 DEF SpawnReflect, CallPart, TypeOK, Results, fixed, given
  <2> QED BY <1>3, <2>1, OtherCalls DEF SpawnReflect, TypeOK
<1>4. CASE ReflectResponse(c)
  <2>1. CallPart(c)'
    BY <1>0, <1>4 DEF ReflectResponse, CallPart, TypeOK, fixed, given
  <2> QED BY <1>4, <2>1, OtherCalls DEF ReflectResponse, TypeOK
<1>5. CASE ErrChan(c)
  <2>1. CallPart(c)'
    BY <1>0, <1>5 DEF ErrChan, CallPart, TypeOK, Results, fixed, given
  <2> QED BY <1>5, <2>1, OtherCalls DEF ErrChan, TypeOK
<1> QED BY <1>1, <1>2, <1>3, <1>4, <1>5 DEF CallStep

LEMMA NextInvariant == TypeOK /\ ClientInvariant /\ [Next]_vars => ClientInvariant'
<1> SUFFICES ASSUME TypeOK, ClientInvariant, [Next]_vars PROVE ClientInvariant'
  OBVIOUS
<1>1. CASE NewTripleClient
  BY <1>1 DEF NewTripleClient, NewTripleConn, ClientInvariant, ConnectionPart, CallPart, TypeOK, given,
              invocations, PBCodecName
<1>2. CASE SetTripleCodec
  BY <1>2 DEF SetTripleCodec, ClientInvariant, ConnectionPart, CallPart, given, invocations
<1>3. CASE Close
  BY <1>3 DEF Close, Closes, ClientInvariant, ConnectionPart, CallPart, TypeOK, given, invocations
<1>4. ASSUME NEW c \in Calls,
             Invoke(c) \/ InvokeUnknownMethod(c) \/ InvokeWithoutCodec(c)
      PROVE  ClientInvariant'
  BY <1>4, BeginInvariant
<1>5. ASSUME NEW c \in Calls, ServerAnswers(c)
      PROVE  ClientInvariant'
  <2>1. CallPart(c) /\ ConnectionPart
    BY DEF ClientInvariant
  <2>2. CallPart(c)'
    BY <1>5, <2>1 DEF ServerAnswers, CallPart, ConnectionPart, TypeOK, fixed,
                      given, Pending, ErrorWithAttachment
  <2> QED BY <1>5, <2>2, OtherCalls DEF ServerAnswers, TypeOK
<1>6. ASSUME NEW c \in Calls, Timeout(c) \/ CallerCancels(c)
      PROVE  ClientInvariant'
  <2>1. CallPart(c)
    BY DEF ClientInvariant
  <2>2. CallPart(c)'
    BY <1>6, <2>1 DEF Timeout, CallerCancels, CallPart, TypeOK, fixed, given
  <2> QED BY <1>6, <2>2, OtherCalls DEF Timeout, CallerCancels, TypeOK
<1>7. ASSUME NEW c \in Calls, CallStep(c)
      PROVE  ClientInvariant'
  BY <1>7, CallStepInvariant
<1>8. CASE UNCHANGED vars
  BY <1>8 DEF vars, ClientInvariant, ConnectionPart, CallPart
<1> QED BY <1>1, <1>2, <1>3, <1>4, <1>5, <1>6, <1>7, <1>8 DEF Next

(* ClientInvariant holds at all times, whatever timeouts, cancellations,   *)
(* Close and late answers race with the calls (dubbo3_client.go:133-213).  *)
THEOREM ClientCorrect == Spec => []InductiveInvariant
<1>1. Init => InductiveInvariant
  BY InitTyped, InitInvariant DEF InductiveInvariant
<1>2. InductiveInvariant /\ [Next]_vars => InductiveInvariant'
  BY NextTyped, NextInvariant DEF InductiveInvariant
<1> QED BY <1>1, <1>2, PTL DEF Spec

-------------------------------------------------------------------------------
(* An Invoke without an error means that the server answered this very     *)
(* call with OK (dubbo3_client.go:145-158).                                *)
THEOREM SuccessReal == Spec => []SuccessIsReal
<1>1. ClientInvariant => SuccessIsReal
  BY DEF ClientInvariant, CallPart, SuccessIsReal, Returned
<1> QED BY <1>1, ClientCorrect, PTL DEF InductiveInvariant

(* A call that begins after a Close that reaches the connection never      *)
(* succeeds (dubbo3_client.go:208-213).                                    *)
THEOREM ClosedMeansNoSuccess == Spec => []NoSuccessAfterClose
<1>1. ClientInvariant => NoSuccessAfterClose
  BY DEF ClientInvariant, CallPart, NoSuccessAfterClose
<1> QED BY <1>1, ClientCorrect, PTL DEF InductiveInvariant

(* The reply of a call that has returned changes only when the caller      *)
(* makes another call: no goroutine is left that could write to it         *)
(* (dubbo3_client.go:163-176).                                             *)
THEOREM ReplyStable == Spec => ReplyStableAfterReturn
<1>1. TypeOK /\ ClientInvariant /\ [Next]_vars =>
        [\A c \in Calls : pc[c] = "idle" /\ made' = made
                            => reply'[c] = reply[c]]_vars
  <2> SUFFICES ASSUME TypeOK, ClientInvariant, Next, NEW d \in Calls,
                      pc[d] = "idle", made' = made
               PROVE  reply'[d] = reply[d]
    OBVIOUS
  <2>1. CASE NewTripleClient \/ SetTripleCodec \/ Close
    BY <2>1 DEF NewTripleClient, SetTripleCodec, Close, Closes, invocations
  <2>2. ASSUME NEW c \in Calls,
               Invoke(c) \/ InvokeUnknownMethod(c) \/ InvokeWithoutCodec(c)
        PROVE  FALSE
    BY <2>2 DEF Invoke, CallsConn, InvokeUnknownMethod, InvokeWithoutCodec,
                Begin, TypeOK
  <2>3. ASSUME NEW c \in Calls,
               ServerAnswers(c) \/ Timeout(c) \/ CallerCancels(c)
        PROVE  reply' = reply
    BY <2>3 DEF ServerAnswers, Timeout, CallerCancels
  <2>4. ASSUME NEW c \in Calls, CallStep(c)
        PROVE  reply'[d] = reply[d]
    BY <2>4 DEF CallStep, ConnInvokeReturns, StubFailed,
                SpawnReflect, ReflectResponse, ErrChan, TypeOK,
                ClientInvariant, CallPart
  <2> QED BY <2>1, <2>2, <2>3, <2>4 DEF Next
<1> QED BY <1>1, ClientCorrect, PTL
        DEF InductiveInvariant, Spec, ReplyStableAfterReturn

===============================================================================
