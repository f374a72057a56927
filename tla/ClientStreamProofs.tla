-------------------------- MODULE ClientStreamProofs --------------------------
(***************************************************************************)
(* Proofs that, for every set of callers, a traced client stream finishes  *)
(* its span once, leaves it alone afterwards and implements SpanLifecycle. *)
(***************************************************************************)
EXTENDS ClientStream, TLAPS

(* SetSpanTags of any error keeps the tags of a span well formed, and what *)
(* has been logged to is no longer untagged.                               *)
LEMMA TagsTyped ==
  ASSUME NEW tags \in Tags, NEW err \in Errors, NEW client \in BOOLEAN
  PROVE  /\ SetSpanTags(LogError(tags), err, client) \in Tags
         /\ SetSpanTags(LogError(tags), err, client) # Untagged
<1>1. CodeOf(err) \in Codes
  BY DEF CodeOf, Codes, SuccessCodes, Errors, StatusErrors
<1>2. ErrorClass(err) \in Classes
  BY DEF ErrorClass, Classes
<1>3. LogError(tags) \in Tags /\ LogError(tags).logged = TRUE
  BY DEF LogError, Tags
<1>4. SetSpanTags(LogError(tags), err, client) \in Tags
  BY <1>1, <1>2, <1>3 DEF SetSpanTags, Tags
<1>5. SetSpanTags(LogError(tags), err, client).logged = TRUE
  BY <1>3 DEF SetSpanTags, Tags
<1>6. Untagged.logged = FALSE
  BY DEF Untagged
<1> QED BY <1>4, <1>5, <1>6

-------------------------------------------------------------------------------
(* Type correctness. *)

LEMMA InitTyped == Init => TypeOK
BY DEF Init, TypeOK, Phases, Labels, Methods, FinishSteps, Untagged, Tags,
       Errors, Codes, NoError

LEMMA FinishStepTyped ==
  ASSUME TypeOK, NEW t \in Threads, FinishStep(t)
  PROVE  TypeOK'
<1> USE DEF TypeOK
<1>0. pc \in [Threads -> Labels] /\ arg[t] \in Errors /\ span.tags \in Tags
  OBVIOUS
<1>1. CASE CompareAndSwap(t)
  BY <1>1 DEF CompareAndSwap, Goto, Return, Labels, FinishSteps, streamVars,
              Errors, NoError
<1>2. CASE CloseFinishChan(t)
  BY <1>2 DEF CloseFinishChan, Goto, Labels, FinishSteps, streamVars
<1>3. CASE RecordError(t)
  <2>1. SetSpanTags(LogError(span.tags), arg[t], TRUE) \in Tags
    BY <1>0, TagsTyped
  <2> QED BY <1>3, <2>1 DEF RecordError, Goto, Labels, FinishSteps, streamVars
<1>4. CASE Decorate(t)
  BY <1>4 DEF Decorate, Goto, Labels, FinishSteps, streamVars
<1>5. CASE FinishSpan(t)
  BY <1>5 DEF FinishSpan, Return, Labels, FinishSteps, streamVars, Errors,
              NoError
<1> QED BY <1>1, <1>2, <1>3, <1>4, <1>5 DEF FinishStep

LEMMA CallerStepTyped ==
  ASSUME TypeOK, NEW c \in Callers, CallerStep(c)
  PROVE  TypeOK'
<1> USE DEF TypeOK
<1>0. c \in Threads /\ Methods \subseteq Labels /\ {"idle", "cas"} \subseteq Labels
  BY DEF Threads, Labels, FinishSteps
<1>a. Errors = Errors \cup {NoError, "io.EOF", SendFault, CloseFault}
  BY DEF Errors, StatusErrors, Codes, ServerCodes, PlainErrors, SendFault,
         CloseFault, NoError
<1>b. Codes \ {"OK"} \subseteq Errors /\ SendFault \in Codes
  BY DEF Errors, StatusErrors, Codes, ServerCodes, SendFault
<1>c. ASSUME NEW code \in Codes \cup {"running"}, StreamEnds(code), rpc = "running" => code \in Codes
      PROVE  /\ rpc' \in Codes \cup {"running"}
             /\ ctxErr' \in {NoError, "context.Canceled", "context.DeadlineExceeded"}
  BY <1>c DEF StreamEnds
<1>d. ASSUME NEW e \in Errors, FinishOrReturn(c, e)
      PROVE  pc' \in [Threads -> Labels] /\ arg' \in [Threads -> Errors]
  BY <1>0, <1>d DEF FinishOrReturn, FinishFunc
<1>e. ASSUME NEW e \in Errors, FinishFunc(c, e)
      PROVE  pc' \in [Threads -> Labels] /\ arg' \in [Threads -> Errors]
  BY <1>0, <1>e DEF FinishFunc
<1>1. ASSUME NEW method \in Methods, Call(c, method)
      PROVE  TypeOK'
  BY <1>0, <1>1 DEF Call, Goto, finishVars, streamVars
<1>2. CASE Header(c)
  <2>1. UNCHANGED <<cfg, phase, finishVars, reachable>>
    BY <1>2 DEF Header
  <2>2. CASE UNCHANGED streamVars /\ FinishOrReturn(c, NoError)
    BY <1>a, <1>d, <2>1, <2>2 DEF finishVars, streamVars
  <2>3. CASE rpc \notin {"running", "OK"} /\ StreamEnds(rpc) /\ FinishOrReturn(c, rpc)
    <3>1. rpc \in Errors
      BY <1>b, <2>3
    <3> QED BY <1>c, <1>d, <2>1, <2>3, <3>1 DEF finishVars
  <2> QED BY <1>2, <2>2, <2>3 DEF Header
<1>3. CASE SendMsg(c)
  <2>1. UNCHANGED <<cfg, phase, finishVars, reachable>>
    BY <1>3 DEF SendMsg
  <2>2. CASE UNCHANGED streamVars /\ FinishOrReturn(c, NoError)
    BY <1>a, <1>d, <2>1, <2>2 DEF finishVars, streamVars
  <2>3. CASE UNCHANGED streamVars /\ FinishOrReturn(c, "io.EOF")
    BY <1>a, <1>d, <2>1, <2>3 DEF finishVars, streamVars
  <2>4. CASE StreamEnds(SendFault) /\ FinishOrReturn(c, SendFault)
    BY <1>a, <1>b, <1>c, <1>d, <2>1, <2>4 DEF finishVars
  <2> QED BY <1>3, <2>2, <2>3, <2>4 DEF SendMsg
<1>4. CASE RecvMsg(c)
  <2>1. UNCHANGED <<cfg, phase, finishVars, reachable>>
    BY <1>4 DEF RecvMsg
  <2>2. CASE UNCHANGED streamVars /\ FinishOrReturn(c, NoError)
    BY <1>a, <1>d, <2>1, <2>2 DEF finishVars, streamVars
  <2>3. CASE rpc = "OK" /\ StreamEnds(rpc) /\ FinishFunc(c, NoError)
    BY <1>a, <1>c, <1>e, <2>1, <2>3 DEF finishVars
  <2>4. CASE /\ rpc # "running" /\ StreamEnds(rpc)
             /\ FinishFunc(c, IF EndError = "io.EOF" THEN NoError ELSE EndError)
    <3>1. (IF EndError = "io.EOF" THEN NoError ELSE EndError) \in Errors
      BY <1>a, <1>b, <2>4 DEF EndError
    <3> QED BY <1>c, <1>e, <2>1, <2>4, <3>1 DEF finishVars
  <2> QED BY <1>4, <2>2, <2>3, <2>4 DEF RecvMsg
<1>5. CASE CloseSend(c)
  <2>1. PICK e \in {NoError, CloseFault} : FinishOrReturn(c, e)
    BY <1>5 DEF CloseSend
  <2>2. UNCHANGED <<cfg, phase, finishVars, streamVars, reachable>>
    BY <1>5 DEF CloseSend
  <2> QED BY <1>a, <1>d, <2>1, <2>2 DEF finishVars, streamVars
<1> QED BY <1>1, <1>2, <1>3, <1>4, <1>5 DEF CallerStep

LEMMA NextTyped == TypeOK /\ [Next]_vars => TypeOK'
<1> SUFFICES ASSUME TypeOK, [Next]_vars PROVE TypeOK'
  OBVIOUS
<1>0. Watcher \in Threads /\ Finalizer \in Threads
  BY DEF Threads
<1>1. CASE Interceptor
  <2>1. CASE StreamerFails
    <3>1. PICK code \in EndCodes \ {"OK"} :
             /\ rpc' = code
             /\ span' = [span EXCEPT !.tags = SetSpanTags(LogError(@), code, TRUE)]
      BY <2>1 DEF StreamerFails
    <3>2. code \in Errors /\ code \in Codes
      BY DEF EndCodes, Errors, StatusErrors, Codes, SuccessCodes, ServerCodes
    <3>3. SetSpanTags(LogError(span.tags), code, TRUE) \in Tags
      BY <3>2, TagsTyped DEF TypeOK
    <3> QED BY <2>1, <3>1, <3>2, <3>3 DEF StreamerFails, TypeOK, Phases
  <2>2. CASE Exclude
    BY <2>2 DEF Exclude, TypeOK, Phases, finishVars, streamVars
  <2>3. CASE StartSpan
    BY <2>3 DEF StartSpan, TypeOK, Phases, streamVars
  <2>4. CASE FinishFailed
    BY <2>4 DEF FinishFailed, TypeOK, Phases, streamVars
  <2>5. CASE OpenStream
    BY <1>0, <2>5 DEF OpenStream, TypeOK, Phases, Labels, finishVars, streamVars
  <2> QED BY <1>1, <2>1, <2>2, <2>3, <2>4, <2>5 DEF Interceptor
<1>2. CASE Environment
  BY <1>2 DEF Environment, PeerEnds, ContextDone, DropStream, TypeOK, EndCodes,
              Codes, SuccessCodes, ServerCodes, finishVars, streamVars
<1>3. CASE WatchFinished \/ WatchContext \/ RunFinalizer
  BY <1>0, <1>3 DEF WatchFinished, WatchContext, RunFinalizer, FinishFunc, Goto,
              TypeOK, Labels, FinishSteps, Errors, PlainErrors, finishVars,
              streamVars
<1>4. CASE \E c \in Callers : CallerStep(c)
  BY <1>4, CallerStepTyped
<1>5. CASE \E t \in Threads : FinishStep(t)
  BY <1>5, FinishStepTyped
<1>6. CASE UNCHANGED vars
  BY <1>6 DEF vars, TypeOK
<1> QED BY <1>1, <1>2, <1>3, <1>4, <1>5, <1>6 DEF Next

(* Every variable keeps its type, whatever the callers do: in particular a *)
(* goroutine passes only errors to finishFunc, and tags come from them.    *)
THEOREM TypeCorrect == Spec => []TypeOK
<1>1. Init => TypeOK
  BY InitTyped
<1>2. TypeOK /\ [Next]_vars => TypeOK'
  BY NextTyped
<1> QED BY <1>1, <1>2, PTL DEF Spec

-------------------------------------------------------------------------------
(* The invariant behind SpanFinishedOnce. *)

LEMMA InitProtocol == Init => FinishProtocol
BY DEF Init, FinishProtocol, Unopened

(* A step that moves no goroutine into or inside finishFunc, and touches   *)
(* neither the span nor what finishFunc synchronises with.                 *)
LEMMA OutsideFinish ==
  ASSUME FinishProtocol, phase = "open", UNCHANGED <<phase, finishVars>>,
         \A t \in Threads : \/ pc'[t] = pc[t] /\ arg'[t] = arg[t]
                            \/ pc'[t] \notin {"close", "record", "decorate",
                                              "finish", "panicked"}
  PROVE  FinishProtocol'
<1>1. WinnerAlone
  BY DEF FinishProtocol
<1>2. \A t \in Threads : InsideFinish(t)' => InsideFinish(t)
  BY DEF InsideFinish, FinishSteps
<1>3. Untouched' = Untouched
  BY DEF Untouched, finishVars
<1>4. WinnerAlone'
  BY <1>1, <1>2, <1>3 DEF WinnerAlone, finishVars
<1> QED BY <1>4 DEF FinishProtocol

LEMMA FinishStepProtocol ==
  ASSUME TypeOK, FinishProtocol, NEW t \in Threads, FinishStep(t)
  PROVE  FinishProtocol'
<1>0. phase = "open" /\ WinnerAlone /\ phase' = phase
  <2>1. pc[t] \in FinishSteps /\ phase' = phase
    BY DEF FinishStep, CompareAndSwap, CloseFinishChan, RecordError, Decorate,
           FinishSpan, Goto, Return, FinishSteps
  <2>2. pc[t] # "idle"
    BY <2>1 DEF FinishSteps
  <2> QED BY <2>1, <2>2 DEF FinishProtocol, Unopened
<1>t. pc \in [Threads -> Labels] /\ arg \in [Threads -> Errors]
  BY DEF TypeOK
<1>s. span \in [started: BOOLEAN, tags: Tags, decorations: Nat, finishes: Nat]
  BY DEF TypeOK
<1>1. CASE CompareAndSwap(t)
  <2>1. CASE isFinished = 0
    <3>1. /\ pc' = [pc EXCEPT ![t] = "close"] /\ isFinished' = 1
          /\ UNCHANGED <<arg, finishChan, span>>
      BY <1>1, <2>1 DEF CompareAndSwap, Goto
    <3>2. \A u \in Threads : InsideFinish(u)' => u = t
      BY <1>0, <1>t, <2>1, <3>1 DEF WinnerAlone, InsideFinish, FinishSteps
    <3>3. Untouched /\ Untouched'
      BY <1>0, <2>1, <3>1 DEF WinnerAlone, Untouched
    <3> QED
      BY <1>0, <1>t, <3>1, <3>2, <3>3 DEF FinishProtocol, WinnerAlone, Untouched,
                                         InsideFinish, FinishSteps
  <2>2. CASE isFinished # 0
    <3>1. isFinished = 1
      BY <2>2 DEF TypeOK
    <3>2. /\ UNCHANGED <<phase, finishVars>>
          /\ pc' = [pc EXCEPT ![t] = IF t \in Callers THEN "idle" ELSE "done"]
          /\ arg' = [arg EXCEPT ![t] = NoError]
      BY <1>1, <3>1 DEF CompareAndSwap, Return, finishVars
    <3> QED BY <1>0, <1>t, <3>2, OutsideFinish
  <2> QED BY <2>1, <2>2
<1>2. CASE CloseFinishChan(t)
  <2>1. pc[t] = "close" /\ Untouched /\ InsideFinish(t)
    BY <1>0, <1>2 DEF CloseFinishChan, Goto, WinnerAlone, InsideFinish,
                      FinishSteps
  <2>2. /\ pc' = [pc EXCEPT ![t] = IF arg[t] # NoError THEN "record"
                                   ELSE IF cfg.decorator THEN "decorate"
                                   ELSE "finish"]
        /\ UNCHANGED <<arg, isFinished, span>>
    BY <1>2, <2>1 DEF CloseFinishChan, Goto, Untouched
  <2>3. \A u \in Threads : InsideFinish(u)' => u = t
    BY <1>0, <1>t, <2>1, <2>2 DEF WinnerAlone, InsideFinish, FinishSteps
  <2> QED
    BY <1>0, <1>t, <2>1, <2>2, <2>3 DEF FinishProtocol, WinnerAlone, Untouched,
                                       InsideFinish, FinishSteps
<1>3. CASE RecordError(t)
  <2>1. pc[t] = "record" /\ InsideFinish(t)
    BY <1>3 DEF RecordError, Goto, InsideFinish, FinishSteps
  <2>2. /\ pc' = [pc EXCEPT ![t] = IF cfg.decorator THEN "decorate" ELSE "finish"]
        /\ UNCHANGED <<arg, isFinished, finishChan>>
        /\ span'.started = span.started /\ span'.finishes = span.finishes
        /\ span'.decorations = span.decorations
    BY <1>3, <1>s DEF RecordError, Goto
  <2>3. \A u \in Threads : InsideFinish(u)' => u = t
    BY <1>0, <1>t, <2>1, <2>2 DEF WinnerAlone, InsideFinish, FinishSteps
  <2> QED
    BY <1>0, <1>t, <2>1, <2>2, <2>3 DEF FinishProtocol, WinnerAlone,
                                       InsideFinish, FinishSteps
<1>4. CASE Decorate(t)
  <2>1. pc[t] = "decorate" /\ InsideFinish(t)
    BY <1>4 DEF Decorate, Goto, InsideFinish, FinishSteps
  <2>2. /\ pc' = [pc EXCEPT ![t] = "finish"]
        /\ UNCHANGED <<arg, isFinished, finishChan>>
        /\ span'.started = span.started /\ span'.finishes = span.finishes
        /\ span'.decorations = span.decorations + 1
    BY <1>4, <1>s DEF Decorate, Goto
  <2>3. \A u \in Threads : InsideFinish(u)' => u = t
    BY <1>0, <1>t, <2>1, <2>2 DEF WinnerAlone, InsideFinish, FinishSteps
  <2> QED
    BY <1>0, <1>t, <2>1, <2>2, <2>3 DEF FinishProtocol, WinnerAlone,
                                       InsideFinish, FinishSteps
<1>5. CASE FinishSpan(t)
  <2>1. pc[t] = "finish" /\ InsideFinish(t)
    BY <1>5 DEF FinishSpan, Return, InsideFinish, FinishSteps
  <2>2. /\ pc' = [pc EXCEPT ![t] = IF t \in Callers THEN "idle" ELSE "done"]
        /\ UNCHANGED <<isFinished, finishChan>>
        /\ span'.started = span.started /\ span'.finishes = span.finishes + 1
        /\ span'.decorations = span.decorations
    BY <1>5, <1>s DEF FinishSpan, Return
  <2>3. \A u \in Threads : ~InsideFinish(u)'
    BY <1>0, <1>t, <2>1, <2>2 DEF WinnerAlone, InsideFinish, FinishSteps
  <2>4. \A u \in Threads : pc'[u] # "panicked"
    BY <1>0, <1>t, <2>2 DEF WinnerAlone
  <2> QED
    BY <1>0, <1>t, <2>1, <2>2, <2>3, <2>4 DEF FinishProtocol, WinnerAlone,
                                             InsideFinish, FinishSteps
<1> QED BY <1>1, <1>2, <1>3, <1>4, <1>5 DEF FinishStep

LEMMA CallerStepProtocol ==
  ASSUME TypeOK, FinishProtocol, NEW c \in Callers, CallerStep(c)
  PROVE  FinishProtocol'
<1>0. c \in Threads
  BY DEF Threads
<1>1. phase = "open"
  <2>1. pc[c] \in Methods \/ phase = "open"
    BY DEF CallerStep, Call, Header, SendMsg, RecvMsg, CloseSend, Methods
  <2>2. \A m \in Methods : m # "idle"
    BY DEF Methods
  <2> QED BY <1>0, <2>1, <2>2 DEF FinishProtocol, Unopened
<1>2. UNCHANGED <<phase, finishVars>>
  BY DEF CallerStep, Call, Header, SendMsg, RecvMsg, CloseSend, finishVars
<1>3. \E next \in Methods \cup {"idle", "cas"} :
        pc' = [pc EXCEPT ![c] = next] /\ (arg' = arg \/ next = "cas")
  BY DEF CallerStep, Call, Goto, Header, SendMsg, RecvMsg, CloseSend,
         FinishOrReturn, FinishFunc
<1>4. \A e : FinishFunc(c, e) \/ arg' = arg =>
        \A t \in Threads \ {c} : arg'[t] = arg[t]
  BY DEF FinishFunc, TypeOK
<1>5. \A t \in Threads \ {c} : arg'[t] = arg[t]
  BY <1>4 DEF CallerStep, Call, Goto, Header, SendMsg, RecvMsg, CloseSend,
              FinishOrReturn
<1>6. \A t \in Threads : \/ pc'[t] = pc[t] /\ arg'[t] = arg[t]
                         \/ pc'[t] \notin {"close", "record", "decorate",
                                           "finish", "panicked"}
  BY <1>0, <1>3, <1>5 DEF TypeOK, Methods
<1> QED BY <1>1, <1>2, <1>6, OutsideFinish

LEMMA NextProtocol == TypeOK /\ FinishProtocol /\ [Next]_vars => FinishProtocol'
<1> SUFFICES ASSUME TypeOK, FinishProtocol, [Next]_vars PROVE FinishProtocol'
  OBVIOUS
<1>0. Watcher \in Threads /\ Finalizer \in Threads /\ Watcher # Finalizer
  BY DEF Threads, Watcher, Finalizer
<1>t. pc \in [Threads -> Labels] /\ arg \in [Threads -> Errors]
  BY DEF TypeOK
<1>s. span \in [started: BOOLEAN, tags: Tags, decorations: Nat, finishes: Nat]
  BY DEF TypeOK
<1>1. CASE Interceptor
  <2>0. Unopened
    BY <1>1 DEF Interceptor, Exclude, StartSpan, StreamerFails, FinishFailed,
                OpenStream, FinishProtocol
  <2>1. CASE Exclude
    BY <2>0, <2>1 DEF Exclude, FinishProtocol, Unopened, finishVars
  <2>2. CASE StartSpan
    BY <1>s, <2>0, <2>2 DEF StartSpan, FinishProtocol, Unopened
  <2>3. CASE StreamerFails
    <3>1. PICK code \in EndCodes \ {"OK"} :
             span' = [span EXCEPT !.tags = SetSpanTags(LogError(@), code, TRUE)]
      BY <2>3 DEF StreamerFails
    <3>2. SetSpanTags(LogError(span.tags), code, TRUE) # Untagged
      BY TagsTyped DEF TypeOK, EndCodes, Errors, StatusErrors, Codes,
                       SuccessCodes, ServerCodes
    <3> QED BY <1>s, <2>0, <2>3, <3>1, <3>2 DEF StreamerFails, FinishProtocol,
                                              Unopened
  <2>4. CASE FinishFailed
    BY <1>s, <2>0, <2>4 DEF FinishFailed, FinishProtocol, Unopened
  <2>5. CASE OpenStream
    <3>1. \A t \in Threads : pc'[t] \in {"idle", "wait", "armed"}
      BY <1>t, <2>0, <2>5 DEF OpenStream, Unopened
    <3>2. phase = "dialing" /\ phase' = "open" /\ UNCHANGED finishVars
      BY <2>5 DEF OpenStream
    <3>3. /\ span.started /\ span.finishes = 0 /\ span.decorations = 0
          /\ span.tags = Untagged /\ finishChan = "open"
      BY <2>0, <3>2 DEF Unopened
    <3>4. \A t \in Threads : ~InsideFinish(t)' /\ pc'[t] # "panicked"
      BY <3>1 DEF InsideFinish, FinishSteps
    <3>5. Untouched'
      BY <3>2, <3>3 DEF Untouched, finishVars
    <3>6. WinnerAlone'
      BY <3>1, <3>2, <3>3, <3>4, <3>5 DEF WinnerAlone, finishVars
    <3> QED BY <3>2, <3>6 DEF FinishProtocol
  <2> QED BY <1>1, <2>1, <2>2, <2>3, <2>4, <2>5 DEF Interceptor
<1>2. CASE Environment
  BY <1>2, OutsideFinish DEF Environment, PeerEnds, ContextDone, DropStream
<1>3. CASE WatchFinished \/ WatchContext \/ RunFinalizer
  <2>1. phase = "open"
    BY <1>0, <1>3 DEF WatchFinished, WatchContext, RunFinalizer, Goto,
                      FinishProtocol, Unopened
  <2>2. UNCHANGED <<phase, finishVars>>
    BY <1>3 DEF WatchFinished, WatchContext, RunFinalizer
  <2>3. \A t \in Threads : \/ pc'[t] = pc[t] /\ arg'[t] = arg[t]
                           \/ pc'[t] \in {"done", "cas"}
    BY <1>0, <1>3, <1>t DEF WatchFinished, WatchContext, RunFinalizer, Goto,
                            FinishFunc
  <2> QED BY <2>1, <2>2, <2>3, OutsideFinish
<1>4. CASE \E c \in Callers : CallerStep(c)
  BY <1>4, CallerStepProtocol
<1>5. CASE \E t \in Threads : FinishStep(t)
  BY <1>5, FinishStepProtocol
<1>6. CASE UNCHANGED vars
  BY <1>6 DEF vars, FinishProtocol, Unopened, WinnerAlone, Untouched,
              InsideFinish
<1> QED BY <1>1, <1>2, <1>3, <1>4, <1>5, <1>6 DEF Next

(* However many goroutines use the stream, the winner of the swap is alone *)
(* in finishFunc.                                                          *)
THEOREM ProtocolInvariant == Spec => []FinishProtocol
<1>1. Init => FinishProtocol
  BY InitProtocol
<1>2. TypeOK /\ FinishProtocol /\ [Next]_vars => FinishProtocol'
  BY NextProtocol
<1> QED BY <1>1, <1>2, TypeCorrect, PTL DEF Spec

(* The span is finished and decorated at most once and finishChan is never *)
(* closed twice, for any number of goroutines.                             *)
THEOREM FinishedOnce == Spec => []SpanFinishedOnce
<1>1. FinishProtocol => SpanFinishedOnce
  BY DEF FinishProtocol, WinnerAlone, Unopened, SpanFinishedOnce
<1> QED BY <1>1, ProtocolInvariant, PTL

(* Nothing touches a span once it is finished. *)
THEOREM FinishedFrozen == Spec => FinishedSpanFrozen
<1>1. TypeOK /\ FinishProtocol /\ [Next]_vars => [Finished => UNCHANGED span]_vars
  <2> SUFFICES ASSUME TypeOK, FinishProtocol, Next, Finished
               PROVE  UNCHANGED span
    OBVIOUS
  <2>1. CASE Interceptor
    <3>1. phase \in {"new", "dialing", "failing"}
      BY <2>1 DEF Interceptor, Exclude, StartSpan, StreamerFails, FinishFailed,
                  OpenStream
    <3>2. span.finishes = 0
      BY <3>1 DEF FinishProtocol, Unopened
    <3> QED BY <3>2 DEF Finished
  <2>2. ASSUME NEW t \in Threads, FinishStep(t)
        PROVE  UNCHANGED span
    <3>1. ~InsideFinish(t)
      BY DEF FinishProtocol, WinnerAlone, Unopened, Finished, InsideFinish,
             FinishSteps
    <3>2. CompareAndSwap(t)
      BY <2>2, <3>1 DEF FinishStep, CloseFinishChan, RecordError, Decorate,
               FinishSpan, Goto, Return, InsideFinish, FinishSteps
    <3> QED BY <3>2 DEF CompareAndSwap
  <2>3. CASE Environment \/ WatchFinished \/ WatchContext \/ RunFinalizer
    BY <2>3 DEF Environment, PeerEnds, ContextDone, DropStream, WatchFinished,
                WatchContext, RunFinalizer, finishVars
  <2>4. CASE \E c \in Callers : CallerStep(c)
    BY <2>4 DEF CallerStep, Call, Header, SendMsg, RecvMsg, CloseSend, finishVars
  <2> QED BY <2>1, <2>2, <2>3, <2>4 DEF Next
<1> QED BY <1>1, TypeCorrect, ProtocolInvariant, PTL DEF Spec, FinishedSpanFrozen

-------------------------------------------------------------------------------
(* The stream implements SpanLifecycle. *)

LEMMA StageUnchanged ==
  ASSUME UNCHANGED span
  PROVE  UNCHANGED <<Stage, span.tags>>
BY DEF Stage, Finished

(* SpanLifecycle means the same by SetSpanTags and LogError. *)
LEMMA SameTags ==
  /\ Lifecycle!Errors = Errors /\ Lifecycle!NoError = NoError
  /\ \A t, e : Lifecycle!SetSpanTags(Lifecycle!LogError(t), e, TRUE)
               = SetSpanTags(LogError(t), e, TRUE)
<1>1. /\ Lifecycle!Codes = Codes /\ Lifecycle!NoError = NoError
      /\ Lifecycle!SuccessCodes = SuccessCodes
      /\ Lifecycle!ClientCodes = ClientCodes
      /\ Lifecycle!ServerCodes = ServerCodes
  BY DEF Lifecycle!Codes, Lifecycle!ClientCodes, Lifecycle!ServerCodes,
         Lifecycle!SuccessCodes, Lifecycle!NoError, Codes, ClientCodes,
         ServerCodes, SuccessCodes, NoError
<1>2. Lifecycle!Errors = Errors
  BY <1>1 DEF Lifecycle!Errors, Lifecycle!StatusErrors, Lifecycle!PlainErrors,
              Errors, StatusErrors, PlainErrors
<1>3. \A e : Lifecycle!CodeOf(e) = CodeOf(e)
  BY <1>1 DEF Lifecycle!CodeOf, CodeOf
<1>4. \A e : Lifecycle!ErrorClass(e) = ErrorClass(e)
  BY <1>1, <1>3 DEF Lifecycle!ErrorClass, ErrorClass, Lifecycle!IsStatus, IsStatus
<1>5. \A t : Lifecycle!LogError(t) = LogError(t)
  BY DEF Lifecycle!LogError, LogError
<1> QED
  BY <1>1, <1>2, <1>3, <1>4, <1>5 DEF Lifecycle!SetSpanTags, SetSpanTags

LEMMA StepImplements ==
  ASSUME TypeOK, FinishProtocol, Next
  PROVE  Lifecycle!Next \/ UNCHANGED <<Stage, span.tags>>
<1>s. span \in [started: BOOLEAN, tags: Tags, decorations: Nat, finishes: Nat]
  BY DEF TypeOK
<1>1. CASE Interceptor
  <2>1. CASE StartSpan
    <3>1. ~span.started /\ span.finishes = 0 /\ span.tags = Untagged
      BY <2>1 DEF StartSpan, FinishProtocol, Unopened
    <3>2. /\ span'.started /\ span'.finishes = span.finishes
          /\ span'.tags = span.tags
      BY <1>s, <2>1 DEF StartSpan
    <3>3. Stage = "none" /\ Stage' = "live"
      BY <3>1, <3>2 DEF Stage, Finished
    <3> QED BY <3>2, <3>3 DEF Lifecycle!Next, Lifecycle!Start
  <2>2. CASE StreamerFails
    <3>1. span.started /\ span.finishes = 0 /\ span.tags = Untagged
      BY <2>2 DEF StreamerFails, FinishProtocol, Unopened
    <3>2. PICK code \in EndCodes \ {"OK"} :
            span' = [span EXCEPT !.tags = SetSpanTags(LogError(@), code, TRUE)]
      BY <2>2 DEF StreamerFails
    <3>3. code \in Errors \ {NoError}
      BY DEF EndCodes, Errors, StatusErrors, Codes, SuccessCodes, ServerCodes,
             NoError
    <3>4. SetSpanTags(LogError(span.tags), code, TRUE) # Untagged
      BY <1>s, <3>3, TagsTyped
    <3>5. /\ span'.started = span.started /\ span'.finishes = span.finishes
          /\ span'.tags = SetSpanTags(LogError(span.tags), code, TRUE)
      BY <1>s, <3>2
    <3>6. Stage = "live" /\ Stage' = "annotated"
      BY <3>1, <3>4, <3>5 DEF Stage, Finished
    <3>7. Lifecycle!Annotate(code)
      BY <3>5, <3>6, SameTags DEF Lifecycle!Annotate
    <3> QED BY <3>3, <3>7, SameTags DEF Lifecycle!Next
  <2>3. CASE FinishFailed
    <3>1. span.started /\ span.finishes = 0
      BY <2>3 DEF FinishFailed, FinishProtocol, Unopened
    <3>2. /\ span'.started = span.started
          /\ span'.finishes = span.finishes + 1
          /\ span'.tags = span.tags
      BY <1>s, <2>3 DEF FinishFailed
    <3>3. ~Finished /\ Finished'
      BY <3>1, <3>2 DEF Finished
    <3>4. Stage \in {"live", "annotated"} /\ Stage' = "finished"
      BY <3>1, <3>2, <3>3 DEF Stage
    <3> QED BY <3>2, <3>4 DEF Lifecycle!Next, Lifecycle!Finish
  <2>4. CASE Exclude \/ OpenStream
    BY <2>4, StageUnchanged DEF Exclude, OpenStream, finishVars
  <2> QED BY <1>1, <2>1, <2>2, <2>3, <2>4 DEF Interceptor
<1>2. ASSUME NEW t \in Threads, FinishStep(t)
      PROVE  Lifecycle!Next \/ UNCHANGED <<Stage, span.tags>>
  <2>1. CASE RecordError(t)
    <3>0. pc[t] = "record" /\ arg[t] \in Errors
      BY <2>1 DEF RecordError, Goto, TypeOK
    <3>1. /\ span.started /\ span.finishes = 0 /\ span.tags = Untagged
          /\ arg[t] # NoError
      BY <3>0 DEF FinishProtocol, WinnerAlone, Unopened, InsideFinish,
                  FinishSteps
    <3>2. /\ span'.started = span.started /\ span'.finishes = span.finishes
          /\ span'.tags = SetSpanTags(LogError(span.tags), arg[t], TRUE)
      BY <1>s, <2>1 DEF RecordError
    <3>3. SetSpanTags(LogError(span.tags), arg[t], TRUE) # Untagged
      BY <1>s, <3>0, TagsTyped
    <3>4. Stage = "live" /\ Stage' = "annotated"
      BY <3>1, <3>2, <3>3 DEF Stage, Finished
    <3>5. Lifecycle!Annotate(arg[t])
      BY <3>2, <3>4, SameTags DEF Lifecycle!Annotate
    <3> QED BY <3>0, <3>1, <3>5, SameTags DEF Lifecycle!Next
  <2>2. CASE FinishSpan(t)
    <3>0. pc[t] = "finish"
      BY <2>2 DEF FinishSpan, Return
    <3>1. span.started /\ span.finishes = 0
      BY <3>0 DEF FinishProtocol, WinnerAlone, Unopened, InsideFinish,
                  FinishSteps
    <3>2. /\ span'.started = span.started
          /\ span'.finishes = span.finishes + 1
          /\ span'.tags = span.tags
      BY <1>s, <2>2 DEF FinishSpan
    <3>3. ~Finished /\ Finished'
      BY <3>1, <3>2 DEF Finished
    <3>4. Stage \in {"live", "annotated"} /\ Stage' = "finished"
      BY <3>1, <3>2, <3>3 DEF Stage
    <3> QED BY <3>2, <3>4 DEF Lifecycle!Next, Lifecycle!Finish
  <2>3. CASE Decorate(t)
    <3>1. /\ span'.started = span.started /\ span'.finishes = span.finishes
          /\ span'.tags = span.tags
      BY <1>s, <2>3 DEF Decorate
    <3> QED BY <3>1 DEF Stage, Finished
  <2>4. CASE CompareAndSwap(t) \/ CloseFinishChan(t)
    BY <2>4, StageUnchanged DEF CompareAndSwap, CloseFinishChan
  <2> QED BY <1>2, <2>1, <2>2, <2>3, <2>4 DEF FinishStep
<1>3. CASE Environment \/ WatchFinished \/ WatchContext \/ RunFinalizer
  BY <1>3, StageUnchanged DEF Environment, PeerEnds, ContextDone, DropStream,
           WatchFinished, WatchContext, RunFinalizer, finishVars
<1>4. CASE \E c \in Callers : CallerStep(c)
  BY <1>4, StageUnchanged DEF CallerStep, Call, Header, SendMsg, RecvMsg,
           CloseSend, finishVars
<1> QED BY <1>1, <1>2, <1>3, <1>4 DEF Next

(* Every behaviour of the stream, for any number of goroutines, is one of  *)
(* the span lifecycle: the span starts, is annotated with one error at     *)
(* most, finishes, and is left alone.                                      *)
THEOREM Implements == Spec => ImplementsLifecycle
<1>1. Init => Lifecycle!Init
  BY DEF Init, Lifecycle!Init, Stage, Lifecycle!Untagged, Untagged
<1>2. TypeOK /\ FinishProtocol /\ [Next]_vars
        => [Lifecycle!Next]_<<Stage, span.tags>>
  <2>1. CASE Next
    BY <2>1, StepImplements
  <2>2. CASE UNCHANGED vars
    BY <2>2, StageUnchanged DEF vars
  <2> QED BY <2>1, <2>2
<1> QED
  BY <1>1, <1>2, TypeCorrect, ProtocolInvariant, PTL
  DEF Spec, ImplementsLifecycle, Lifecycle!Spec

-------------------------------------------------------------------------------
(* No failure is lost. *)

(* What a step leaves of a clean end, and of goroutines it does not move.  *)
LEMMA CleanKept ==
  ASSUME TypeOK, FinishProtocol, CleanEndProtocol, phase = "open",
         UNCHANGED <<phase, finishVars>>, CleanEnd => CleanEnd',
         \A t \in Threads :
           \/ pc'[t] = pc[t] /\ arg'[t] = arg[t]
           \/ pc'[t] \notin {"cas", "close", "decorate", "finish"}
           \/ pc'[t] = "cas" /\ (arg'[t] # NoError \/ CleanEnd')
  PROVE  CleanEndProtocol'
BY DEF CleanEndProtocol, CleanSpanMeansCleanEnd, Finished, CleanEnd, finishVars

LEMMA FinishStepClean ==
  ASSUME TypeOK, FinishProtocol, CleanEndProtocol, NEW t \in Threads,
         FinishStep(t)
  PROVE  CleanEndProtocol'
<1>t. /\ pc \in [Threads -> Labels] /\ arg \in [Threads -> Errors]
      /\ arg[t] \in Errors
  BY DEF TypeOK
<1>s. /\ span \in [started: BOOLEAN, tags: Tags, decorations: Nat,
                   finishes: Nat]
      /\ span.tags \in Tags
  BY DEF TypeOK
<1>0. phase = "open" /\ phase' = phase /\ WinnerAlone
  <2>1. pc[t] \in FinishSteps /\ phase' = phase
    BY DEF FinishStep, CompareAndSwap, CloseFinishChan, RecordError, Decorate,
           FinishSpan, Goto, Return, FinishSteps
  <2>2. pc[t] # "idle"
    BY <2>1 DEF FinishSteps
  <2> QED BY <2>1, <2>2 DEF FinishProtocol, Unopened
<1>e. rpc' = rpc /\ reachable' = reachable
  BY DEF FinishStep, CompareAndSwap, CloseFinishChan, RecordError, Decorate,
         FinishSpan, streamVars
<1>i. /\ \A u \in Threads :
           /\ pc[u] \in {"cas", "close"} /\ arg[u] = NoError => CleanEnd
           /\ pc[u] \in {"decorate", "finish"} /\ ~span.tags.logged => CleanEnd
      /\ Finished /\ ~span.tags.logged => CleanEnd
  BY DEF CleanEndProtocol, CleanSpanMeansCleanEnd, CleanEnd
<1>g. SUFFICES
        /\ \A u \in Threads :
             /\ pc'[u] \in {"cas", "close"} /\ arg'[u] = NoError => CleanEnd
             /\ pc'[u] \in {"decorate", "finish"} /\ ~span'.tags.logged
                  => CleanEnd
        /\ Finished' /\ ~span'.tags.logged => CleanEnd
  BY <1>0, <1>e DEF CleanEndProtocol, CleanSpanMeansCleanEnd, CleanEnd
<1>1. CASE CompareAndSwap(t)
  <2>1. /\ pc[t] = "cas" /\ span' = span
        /\ \A u \in Threads \ {t} : pc'[u] = pc[u] /\ arg'[u] = arg[u]
        /\ \/ pc'[t] = "close" /\ arg'[t] = arg[t]
           \/ pc'[t] \in {"idle", "done"}
    BY <1>1, <1>t DEF CompareAndSwap, Goto, Return
  <2> QED BY <1>i, <2>1 DEF Finished
<1>2. CASE CloseFinishChan(t)
  <2>1. /\ pc[t] = "close" /\ span' = span /\ arg' = arg
        /\ \A u \in Threads \ {t} : pc'[u] = pc[u]
        /\ \/ pc'[t] \in {"record", "panicked"}
           \/ pc'[t] \in {"decorate", "finish"} /\ arg[t] = NoError
    BY <1>2, <1>t DEF CloseFinishChan, Goto
  <2> QED BY <1>i, <2>1 DEF Finished
<1>3. CASE RecordError(t)
  <2>1. /\ span'.tags = SetSpanTags(LogError(span.tags), arg[t], TRUE)
        /\ arg' = arg /\ pc'[t] \in {"decorate", "finish"}
        /\ \A u \in Threads \ {t} : pc'[u] = pc[u]
    BY <1>3, <1>t, <1>s DEF RecordError, Goto
  <2>2. span'.tags.logged
    <3>1. LogError(span.tags) \in Tags /\ LogError(span.tags).logged = TRUE
      BY <1>s DEF LogError, Tags
    <3> QED BY <2>1, <3>1 DEF SetSpanTags, Tags
  <2> QED BY <1>i, <2>1, <2>2
<1>4. CASE Decorate(t)
  <2>1. /\ pc[t] = "decorate" /\ pc'[t] = "finish" /\ arg' = arg
        /\ \A u \in Threads \ {t} : pc'[u] = pc[u]
    BY <1>4, <1>t DEF Decorate, Goto
  <2>2. span'.tags = span.tags /\ span'.finishes = span.finishes
    BY <1>4, <1>s DEF Decorate
  <2> QED BY <1>i, <2>1, <2>2 DEF Finished
<1>5. CASE FinishSpan(t)
  <2>1. /\ pc[t] = "finish" /\ pc'[t] \in {"idle", "done"}
        /\ \A u \in Threads \ {t} : pc'[u] = pc[u] /\ arg'[u] = arg[u]
    BY <1>5, <1>t DEF FinishSpan, Return
  <2>2. span'.tags = span.tags
    BY <1>5, <1>s DEF FinishSpan
  <2> QED BY <1>i, <2>1, <2>2
<1> QED BY <1>1, <1>2, <1>3, <1>4, <1>5 DEF FinishStep

(* An RPC that ended stays as it ended. *)
LEMMA EndIsFinal ==
  ASSUME NEW code, StreamEnds(code), reachable' = reachable
  PROVE  (CleanEnd => CleanEnd') /\ (rpc # "running" => rpc' = rpc)
BY DEF StreamEnds, CleanEnd

LEMMA CallerStepClean ==
  ASSUME TypeOK, FinishProtocol, CleanEndProtocol, NEW c \in Callers,
         CallerStep(c)
  PROVE  CleanEndProtocol'
<1>0. c \in Threads
  BY DEF Threads
<1>t. pc \in [Threads -> Labels] /\ arg \in [Threads -> Errors]
  BY DEF TypeOK
<1>1. phase = "open"
  <2>1. pc[c] \in Methods \/ phase = "open"
    BY DEF CallerStep, Call, Header, SendMsg, RecvMsg, CloseSend, Methods
  <2>2. \A m \in Methods : m # "idle"
    BY DEF Methods
  <2> QED BY <1>0, <2>1, <2>2 DEF FinishProtocol, Unopened
<1>2. UNCHANGED <<phase, finishVars>> /\ reachable' = reachable
  BY DEF CallerStep, Call, Header, SendMsg, RecvMsg, CloseSend, finishVars
<1>3. ASSUME NEW e, FinishFunc(c, e), e # NoError \/ CleanEnd',
             CleanEnd => CleanEnd'
      PROVE  CleanEndProtocol'
  <2>1. /\ pc'[c] = "cas" /\ arg'[c] = e
        /\ \A u \in Threads : u # c => pc'[u] = pc[u] /\ arg'[u] = arg[u]
    BY <1>0, <1>3, <1>t DEF FinishFunc
  <2> QED BY <1>1, <1>2, <1>3, <2>1, CleanKept
<1>4. ASSUME NEW m \in Methods \cup {"idle"}, pc' = [pc EXCEPT ![c] = m],
             arg' = arg, CleanEnd => CleanEnd'
      PROVE  CleanEndProtocol'
  <2>1. /\ pc'[c] \notin {"cas", "close", "decorate", "finish"}
        /\ \A u \in Threads : u # c => pc'[u] = pc[u] /\ arg'[u] = arg[u]
    BY <1>0, <1>4, <1>t DEF Methods
  <2> QED BY <1>1, <1>2, <1>4, <2>1, CleanKept
<1>5. ASSUME NEW e, FinishOrReturn(c, e), CleanEnd => CleanEnd'
      PROVE  CleanEndProtocol'
  BY <1>3, <1>4, <1>5 DEF FinishOrReturn
<1>6. UNCHANGED streamVars => (CleanEnd <=> CleanEnd')
  BY <1>2 DEF streamVars, CleanEnd
<1>7. ASSUME NEW method \in Methods, Call(c, method)
      PROVE  CleanEndProtocol'
  BY <1>4, <1>6, <1>7 DEF Call, Goto
<1>8. CASE Header(c)
  BY <1>2, <1>5, <1>6, <1>8, EndIsFinal DEF Header
<1>9. CASE SendMsg(c)
  BY <1>2, <1>5, <1>6, <1>9, EndIsFinal DEF SendMsg
<1>10. CASE RecvMsg(c)
  <2>1. CASE UNCHANGED streamVars /\ FinishOrReturn(c, NoError)
    BY <1>5, <1>6, <2>1
  <2>2. CASE rpc = "OK" /\ StreamEnds(rpc) /\ FinishFunc(c, NoError)
    <3>1. CleanEnd'
      BY <1>2, <2>2, EndIsFinal DEF CleanEnd
    <3> QED BY <1>3, <2>2, <3>1
  <2>3. CASE /\ rpc # "running" /\ StreamEnds(rpc)
             /\ FinishFunc(c, IF EndError = "io.EOF" THEN NoError ELSE EndError)
    <3>1. rpc \in Codes /\ "io.EOF" \notin Codes /\ NoError \notin Codes
      BY <2>3 DEF TypeOK, Codes, ClientCodes, ServerCodes, SuccessCodes, NoError
    <3>2. rpc' = rpc /\ (CleanEnd => CleanEnd')
      BY <1>2, <2>3, EndIsFinal
    <3>3. CASE rpc = "OK"
      <4>1. CleanEnd'
        BY <3>2, <3>3 DEF CleanEnd
      <4> QED BY <1>3, <2>3, <4>1
    <3>4. CASE rpc # "OK"
      <4>1. EndError = rpc /\ EndError # "io.EOF" /\ EndError # NoError
        BY <3>1, <3>4 DEF EndError
      <4>2. FinishFunc(c, EndError)
        BY <2>3, <4>1
      <4> QED BY <1>3, <3>2, <4>1, <4>2
    <3> QED BY <3>3, <3>4
  <2> QED BY <1>10, <2>1, <2>2, <2>3 DEF RecvMsg
<1>11. CASE CloseSend(c)
  BY <1>5, <1>6, <1>11 DEF CloseSend
<1> QED BY <1>7, <1>8, <1>9, <1>10, <1>11 DEF CallerStep

LEMMA NextClean ==
  TypeOK /\ FinishProtocol /\ CleanEndProtocol /\ [Next]_vars => CleanEndProtocol'
<1> SUFFICES ASSUME TypeOK, FinishProtocol, CleanEndProtocol, [Next]_vars
             PROVE  CleanEndProtocol'
  OBVIOUS
<1>0. Watcher \in Threads /\ Finalizer \in Threads
  BY DEF Threads
<1>t. pc \in [Threads -> Labels] /\ arg \in [Threads -> Errors]
  BY DEF TypeOK
<1>s. /\ span \in [started: BOOLEAN, tags: Tags, decorations: Nat,
                   finishes: Nat]
      /\ span.tags \in Tags
  BY DEF TypeOK
<1>1. CASE Interceptor
  <2>0. Unopened
    BY <1>1 DEF Interceptor, Exclude, StartSpan, StreamerFails, FinishFailed,
                OpenStream, FinishProtocol
  <2>1. \A t \in Threads :
          pc'[t] \notin {"cas", "close", "decorate", "finish"}
    <3>1. \A t \in Threads : pc[t] = "idle"
      BY <2>0 DEF Unopened
    <3>2. \/ pc' = pc
          \/ pc' = [pc EXCEPT ![Watcher] = "wait", ![Finalizer] = "armed"]
      BY <1>1 DEF Interceptor, Exclude, StartSpan, StreamerFails, FinishFailed,
                  OpenStream
    <3> QED BY <1>t, <3>1, <3>2
  <2>2. SUFFICES /\ phase' \in {"failing", "failed"} => span'.tags.logged
                 /\ Finished' => span'.tags.logged
    BY <2>1 DEF CleanEndProtocol, CleanSpanMeansCleanEnd
  <2>3. CASE StreamerFails
    <3>1. PICK code \in EndCodes \ {"OK"} :
             span' = [span EXCEPT !.tags = SetSpanTags(LogError(@), code, TRUE)]
      BY <2>3 DEF StreamerFails
    <3>2. LogError(span.tags) \in Tags /\ LogError(span.tags).logged = TRUE
      BY <1>s DEF LogError, Tags
    <3>3. span'.tags = SetSpanTags(LogError(span.tags), code, TRUE)
      BY <1>s, <3>1
    <3>4. span'.tags.logged
      BY <3>2, <3>3 DEF SetSpanTags, Tags
    <3> QED BY <3>4
  <2>4. CASE FinishFailed
    <3>1. span'.tags = span.tags /\ phase = "failing"
      BY <1>s, <2>4 DEF FinishFailed
    <3> QED BY <3>1 DEF CleanEndProtocol
  <2>5. CASE Exclude \/ StartSpan \/ OpenStream
    <3>1. /\ span'.finishes = span.finishes /\ phase \in {"new", "dialing"}
          /\ phase' \notin {"failing", "failed"}
      BY <1>s, <2>5 DEF Exclude, StartSpan, OpenStream, finishVars
    <3>2. ~Finished'
      BY <2>0, <3>1 DEF Unopened, Finished
    <3> QED BY <3>1, <3>2
  <2> QED BY <1>1, <2>3, <2>4, <2>5 DEF Interceptor
<1>2. CASE Environment
  <2>1. /\ phase = "open" /\ UNCHANGED <<phase, finishVars, pc, arg>>
        /\ CleanEnd => CleanEnd'
    BY <1>2 DEF Environment, PeerEnds, ContextDone, DropStream, CleanEnd,
                streamVars
  <2> QED BY <2>1, CleanKept
<1>3. CASE WatchFinished \/ WatchContext \/ RunFinalizer
  <2>1. phase = "open"
    BY <1>0, <1>3 DEF WatchFinished, WatchContext, RunFinalizer, Goto,
                      FinishProtocol, Unopened
  <2>2. UNCHANGED <<phase, finishVars>> /\ (CleanEnd <=> CleanEnd')
    BY <1>3 DEF WatchFinished, WatchContext, RunFinalizer, CleanEnd, streamVars
  <2>3. \A t \in Threads :
           \/ pc'[t] = pc[t] /\ arg'[t] = arg[t]
           \/ pc'[t] = "done"
           \/ pc'[t] = "cas" /\ (arg'[t] # NoError \/ CleanEnd')
    <3>1. CASE WatchFinished
      BY <1>0, <1>t, <3>1 DEF WatchFinished, Goto
    <3>2. CASE WatchContext
      BY <1>0, <1>t, <3>2 DEF WatchContext, FinishFunc
    <3>3. CASE RunFinalizer
      BY <1>0, <1>t, <2>2, <3>3 DEF RunFinalizer, FinishFunc, Collectable,
                                    CleanEnd
    <3> QED BY <1>3, <3>1, <3>2, <3>3
  <2> QED BY <2>1, <2>2, <2>3, CleanKept
<1>4. CASE \E c \in Callers : CallerStep(c)
  BY <1>4, CallerStepClean
<1>5. CASE \E t \in Threads : FinishStep(t)
  BY <1>5, FinishStepClean
<1>6. CASE UNCHANGED vars
  BY <1>6 DEF vars, CleanEndProtocol, CleanSpanMeansCleanEnd, Finished, CleanEnd
<1> QED BY <1>1, <1>2, <1>3, <1>4, <1>5, <1>6 DEF Next

(* However many goroutines use the stream, finishFunc is called without an *)
(* error only once the RPC has ended OK or the wrapper is garbage.         *)
THEOREM CleanProtocol == Spec => []CleanEndProtocol
<1>1. Init => CleanEndProtocol
  BY DEF Init, CleanEndProtocol, CleanSpanMeansCleanEnd, Finished
<1>2. TypeOK /\ FinishProtocol /\ CleanEndProtocol /\ [Next]_vars
        => CleanEndProtocol'
  BY NextClean
<1> QED BY <1>1, <1>2, TypeCorrect, ProtocolInvariant, PTL DEF Spec

(* Types and both protocols hold at all times, for any number of           *)
(* goroutines that call the stream's methods (client_interceptor.go:85-    *)
(* 225).                                                                   *)
THEOREM StreamCorrect == Spec => []InductiveInvariant
BY TypeCorrect, ProtocolInvariant, CleanProtocol, PTL DEF InductiveInvariant

(* A span that ends without an error on it is that of an RPC that ended OK *)
(* or of a stream the application dropped: RecvMsg and the finalizer are   *)
(* the only ones to call finishFunc(nil).                                  *)
THEOREM CleanMeansClean == Spec => []CleanSpanMeansCleanEnd
<1>1. CleanEndProtocol => CleanSpanMeansCleanEnd
  BY DEF CleanEndProtocol
<1> QED BY <1>1, CleanProtocol, PTL

===============================================================================
