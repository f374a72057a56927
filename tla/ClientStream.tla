----------------------------- MODULE ClientStream -----------------------------
(***************************************************************************)
(* A traced client stream: OpenTracingStreamClientInterceptor and the      *)
(* openTracingClientStream it returns (pkg/tracing/client_interceptor.go). *)
(*                                                                         *)
(* Four kinds of goroutine can end the one span of the stream: the         *)
(* application's, inside a method of the wrapper, the watcher that waits   *)
(* for the stream's context, and the garbage collector's, which runs the   *)
(* wrapper's finalizer. All of them go through finishFunc, whose steps are *)
(* interleaved here; isFinished and finishChan are what it synchronises    *)
(* with. The gRPC stream underneath and its context are external.          *)
(***************************************************************************)
EXTENDS SpanTags, Naturals

CONSTANT Callers   \* goroutines of the application that use the stream

Watcher == "watcher"
Finalizer == "finalizer"
Threads == Callers \cup {Watcher, Finalizer}

ASSUME CallersAssumption == Watcher \notin Callers /\ Finalizer \notin Callers

VARIABLES
  cfg,         \* options of the interceptor and the stream's description
  phase,       \* progress of the interceptor that opens the stream
  span,        \* clientSpan: its tags and how often it was decorated, finished
  isFinished,  \* the int32 that finishFunc swaps
  finishChan,  \* "open" or "closed"
  pc,          \* where each goroutine is
  arg,         \* the error each goroutine calls finishFunc with
  rpc,         \* external: "running", or the final status code of the RPC
  ctxErr,      \* external: Err() of the stream's context
  reachable    \* does the application still hold the wrapper?

streamVars == <<rpc, ctxErr>>
finishVars == <<isFinished, finishChan, span>>
vars == <<cfg, phase, span, isFinished, finishChan, pc, arg, rpc, ctxErr,
          reachable>>

Phases == {"new", "dialing", "failing", "failed", "open", "untraced"}
Methods == {"Header", "SendMsg", "RecvMsg", "CloseSend"}
FinishSteps == {"cas", "close", "record", "decorate", "finish"}
Labels == {"idle", "wait", "armed", "done", "panicked"} \cup Methods
            \cup FinishSteps

(* Status codes the peer may end the RPC with: the two that ErrorClass     *)
(* counts as a success and a failure, as a client's span tells no others   *)
(* apart (SetSpanTags with client = true).                                 *)
EndCodes == {"OK", "Canceled", "Unavailable"}

(* What the library refuses to send (a message over the size limit), and   *)
(* the error a CloseSend may return.                                       *)
SendFault == "ResourceExhausted"
CloseFault == "Internal"

TypeOK ==
  /\ cfg \in [included: BOOLEAN, decorator: BOOLEAN, serverStreams: BOOLEAN]
  /\ phase \in Phases
  /\ span \in [started: BOOLEAN, tags: Tags, decorations: Nat, finishes: Nat]
  /\ isFinished \in {0, 1}
  /\ finishChan \in {"open", "closed"}
  /\ pc \in [Threads -> Labels]
  /\ arg \in [Threads -> Errors]
  /\ rpc \in Codes \cup {"running"}
  /\ ctxErr \in {NoError, "context.Canceled", "context.DeadlineExceeded"}
  /\ reachable \in BOOLEAN

Init ==
  /\ cfg \in [included: BOOLEAN, decorator: BOOLEAN, serverStreams: BOOLEAN]
  /\ phase = "new"
  /\ span = [started |-> FALSE, tags |-> Untagged, decorations |-> 0,
             finishes |-> 0]
  /\ isFinished = 0
  /\ finishChan = "open"
  /\ pc = [t \in Threads |-> "idle"]
  /\ arg = [t \in Threads |-> NoError]
  /\ rpc = "running"
  /\ ctxErr = NoError
  /\ reachable = TRUE

-------------------------------------------------------------------------------
(* The interceptor: start a span, inject it, open the stream underneath.   *)

Exclude ==
  /\ phase = "new" /\ ~cfg.included
  /\ phase' = "untraced"
  /\ UNCHANGED <<cfg, finishVars, pc, arg, streamVars, reachable>>

StartSpan ==
  /\ phase = "new" /\ cfg.included
  /\ phase' = "dialing"
  /\ span' = [span EXCEPT !.started = TRUE]
  /\ UNCHANGED <<cfg, isFinished, finishChan, pc, arg, streamVars, reachable>>

StreamerFails ==
  /\ phase = "dialing"
  /\ \E code \in EndCodes \ {"OK"} :
       /\ rpc' = code
       /\ span' = [span EXCEPT !.tags = SetSpanTags(LogError(@), code, TRUE)]
  /\ phase' = "failing"
  /\ UNCHANGED <<cfg, isFinished, finishChan, pc, arg, ctxErr, reachable>>

FinishFailed ==
  /\ phase = "failing"
  /\ span' = [span EXCEPT !.finishes = @ + 1]
  /\ phase' = "failed"
  /\ UNCHANGED <<cfg, isFinished, finishChan, pc, arg, streamVars, reachable>>

(* newOpenTracingClientStream: the watcher goroutine is started and the    *)
(* finalizer set before the wrapper is returned.                           *)
OpenStream ==
  /\ phase = "dialing"
  /\ phase' = "open"
  /\ pc' = [pc EXCEPT ![Watcher] = "wait", ![Finalizer] = "armed"]
  /\ UNCHANGED <<cfg, finishVars, arg, streamVars, reachable>>

-------------------------------------------------------------------------------
(* finishFunc(err), one step for each thing another goroutine could see.   *)

FinishFunc(t, err) ==
  /\ pc' = [pc EXCEPT ![t] = "cas"]
  /\ arg' = [arg EXCEPT ![t] = err]

Goto(t, from, to) == /\ pc[t] = from
                     /\ pc' = [pc EXCEPT ![t] = to]
                     /\ UNCHANGED arg

(* finishFunc returns: to the application, or to the end of the goroutine. *)
Return(t, from) == /\ pc[t] = from
                   /\ pc' = [pc EXCEPT ![t] = IF t \in Callers THEN "idle"
                                              ELSE "done"]
                   /\ arg' = [arg EXCEPT ![t] = NoError]

SwapUnconditionally(t) ==
  /\ Goto(t, "cas", "close")
  /\ isFinished' = 1
  /\ UNCHANGED <<cfg, phase, finishChan, span, streamVars, reachable>>

SwapLoserStillRecords(t) ==
  /\ Goto(t, "cas", IF isFinished = 0 THEN "close" ELSE "record")
  /\ isFinished' = 1
  /\ UNCHANGED <<cfg, phase, finishChan, span, streamVars, reachable>>

CompareAndSwap(t) ==
  /\ IF isFinished = 0 THEN Goto(t, "cas", "close") ELSE Return(t, "cas")
  /\ isFinished' = 1
  /\ UNCHANGED <<cfg, phase, finishChan, span, streamVars, reachable>>

FinishChanLeftOpen(t) ==
  /\ Goto(t, "close", IF arg[t] # NoError THEN "record"
                      ELSE IF cfg.decorator THEN "decorate" ELSE "finish")
  /\ UNCHANGED <<cfg, phase, finishVars, streamVars, reachable>>

(* Closing a closed channel panics. *)
CloseFinishChan(t) ==
  /\ Goto(t, "close", IF finishChan = "closed" THEN "panicked"
                      ELSE IF arg[t] # NoError THEN "record"
                      ELSE IF cfg.decorator THEN "decorate" ELSE "finish")
  /\ finishChan' = "closed"
  /\ UNCHANGED <<cfg, phase, isFinished, span, streamVars, reachable>>

RecordError(t) ==
  /\ Goto(t, "record", IF cfg.decorator THEN "decorate" ELSE "finish")
  /\ span' = [span EXCEPT !.tags = SetSpanTags(LogError(@), arg[t], TRUE)]
  /\ UNCHANGED <<cfg, phase, isFinished, finishChan, streamVars, reachable>>

Decorate(t) ==
  /\ Goto(t, "decorate", "finish")
  /\ span' = [span EXCEPT !.decorations = @ + 1]
  /\ UNCHANGED <<cfg, phase, isFinished, finishChan, streamVars, reachable>>

(* The deferred clientSpan.Finish(). *)
FinishSpan(t) ==
  /\ Return(t, "finish")
  /\ span' = [span EXCEPT !.finishes = @ + 1]
  /\ UNCHANGED <<cfg, phase, isFinished, finishChan, streamVars, reachable>>

FinishStep(t) == \/ CompareAndSwap(t)
                 \/ CloseFinishChan(t)
                 \/ RecordError(t)
                 \/ Decorate(t)
                 \/ FinishSpan(t)

-------------------------------------------------------------------------------
(* The watcher: select on finishChan and on the context of the stream.     *)

WatchFinished ==
  /\ finishChan = "closed"
  /\ Goto(Watcher, "wait", "done")
  /\ UNCHANGED <<cfg, phase, finishVars, streamVars, reachable>>

WatcherIgnoresDeadline ==
  /\ pc[Watcher] = "wait"
  /\ ctxErr = "context.Canceled"
  /\ FinishFunc(Watcher, ctxErr)
  /\ UNCHANGED <<cfg, phase, finishVars, streamVars, reachable>>

WatchContext ==
  /\ pc[Watcher] = "wait"
  /\ ctxErr # NoError
  /\ FinishFunc(Watcher, ctxErr)
  /\ UNCHANGED <<cfg, phase, finishVars, streamVars, reachable>>

(* The wrapper can be collected once the application has dropped it and no *)
(* goroutine is in a call of the stream underneath. finishFunc itself does *)
(* not keep the wrapper alive, nor does the watcher.                       *)
Collectable == /\ phase = "open"
               /\ ~reachable
               /\ \A c \in Callers : pc[c] \notin Methods

RunFinalizer ==
  /\ Collectable
  /\ pc[Finalizer] = "armed"
  /\ FinishFunc(Finalizer, NoError)
  /\ UNCHANGED <<cfg, phase, finishVars, streamVars, reachable>>

-------------------------------------------------------------------------------
(* The methods of the wrapper. A caller is inside the method of the gRPC   *)
(* stream between Call and the method's own action.                        *)

Call(c, method) ==
  /\ phase = "open" /\ reachable
  /\ Goto(c, "idle", method)
  /\ UNCHANGED <<cfg, phase, finishVars, streamVars, reachable>>

(* External: an RPC that a method saw end has its context cancelled before *)
(* that method returns.                                                    *)
StreamEnds(code) ==
  /\ rpc' = IF rpc = "running" THEN code ELSE rpc
  /\ ctxErr' = IF ctxErr = NoError THEN "context.Canceled" ELSE ctxErr

(* External: the error RecvMsg reports once the RPC has ended. *)
EndError == IF rpc = "OK" THEN "io.EOF" ELSE rpc

FinishOrReturn(c, err) ==
  IF err # NoError THEN FinishFunc(c, err)
  ELSE pc' = [pc EXCEPT ![c] = "idle"] /\ UNCHANGED arg

Header(c) ==
  /\ pc[c] = "Header"
  /\ \/ UNCHANGED streamVars /\ FinishOrReturn(c, NoError)
     \/ /\ rpc \notin {"running", "OK"}
        /\ StreamEnds(rpc)
        /\ FinishOrReturn(c, rpc)
  /\ UNCHANGED <<cfg, phase, finishVars, reachable>>

(* An RPC ended by the peer shows as io.EOF, the library's own refusal of  *)
(* the message as a status that ends the RPC.                              *)
SendMsg(c) ==
  /\ pc[c] = "SendMsg"
  /\ \/ UNCHANGED streamVars /\ FinishOrReturn(c, NoError)
     \/ rpc # "running" /\ UNCHANGED streamVars /\ FinishOrReturn(c, "io.EOF")
     \/ StreamEnds(SendFault) /\ FinishOrReturn(c, SendFault)
  /\ UNCHANGED <<cfg, phase, finishVars, reachable>>

RecvEndsAlwaysClean(c) ==
  /\ pc[c] = "RecvMsg"
  /\ rpc # "running"
  /\ StreamEnds(rpc)
  /\ FinishFunc(c, NoError)
  /\ UNCHANGED <<cfg, phase, finishVars, reachable>>

(* A message; or the single response of a call without server streaming,   *)
(* which the library hands over only with the final status; or the end.    *)
RecvMsg(c) ==
  /\ pc[c] = "RecvMsg"
  /\ \/ cfg.serverStreams /\ UNCHANGED streamVars /\ FinishOrReturn(c, NoError)
     \/ ~cfg.serverStreams /\ rpc = "OK" /\ StreamEnds(rpc)
          /\ FinishFunc(c, NoError)
     \/ /\ rpc # "running"
        /\ StreamEnds(rpc)
        /\ FinishFunc(c, IF EndError = "io.EOF" THEN NoError ELSE EndError)
  /\ UNCHANGED <<cfg, phase, finishVars, reachable>>

CloseSend(c) ==
  /\ pc[c] = "CloseSend"
  /\ \E err \in {NoError, CloseFault} : FinishOrReturn(c, err)
  /\ UNCHANGED <<cfg, phase, finishVars, streamVars, reachable>>

-------------------------------------------------------------------------------
(* External: the peer, the caller's context, and the application's use.    *)

PeerEnds ==
  /\ phase = "open" /\ rpc = "running"
  /\ rpc' \in EndCodes
  /\ UNCHANGED <<cfg, phase, finishVars, pc, arg, ctxErr, reachable>>

ContextDone ==
  /\ phase = "open" /\ ctxErr = NoError
  /\ \/ ctxErr' = "context.Canceled"
          /\ rpc' = IF rpc = "running" THEN "Canceled" ELSE rpc
     \/ ctxErr' = "context.DeadlineExceeded"
          /\ rpc' = IF rpc = "running" THEN "DeadlineExceeded" ELSE rpc
  /\ UNCHANGED <<cfg, phase, finishVars, pc, arg, reachable>>

DropStream ==
  /\ phase = "open" /\ reachable
  /\ reachable' = FALSE
  /\ UNCHANGED <<cfg, phase, finishVars, pc, arg, streamVars>>

Environment == PeerEnds \/ ContextDone \/ DropStream

Interceptor == \/ Exclude \/ StartSpan \/ StreamerFails \/ FinishFailed
               \/ OpenStream

CallerStep(c) == \/ \E method \in Methods : Call(c, method)
                 \/ Header(c) \/ SendMsg(c) \/ RecvMsg(c) \/ CloseSend(c)

Next == \/ Interceptor
        \/ Environment
        \/ WatchFinished \/ WatchContext \/ RunFinalizer
        \/ \E c \in Callers : CallerStep(c)
        \/ \E t \in Threads : FinishStep(t)

Spec == Init /\ [][Next]_vars

(* A goroutine that can run does: the one in finishFunc, the watcher, and  *)
(* the collector once the wrapper is garbage. Nothing is assumed of the    *)
(* peer, of the context, or of the application's calls.                    *)
Fairness == /\ \A t \in Threads : WF_vars(FinishStep(t))
            /\ WF_vars(WatchFinished)
            /\ WF_vars(WatchContext)
            /\ WF_vars(RunFinalizer)

FairSpec == Spec /\ Fairness

-------------------------------------------------------------------------------
Finished == span.finishes > 0

(* "Since we have multiple code paths that could concurrently call         *)
(* finishFunc" (client_interceptor.go:139): whatever the interleaving, the *)
(* span is finished at most once, decorated at most once, and no goroutine *)
(* closes finishChan a second time.                                        *)
SpanFinishedOnce ==
  /\ span.finishes <= 1
  /\ span.decorations <= 1
  /\ \A t \in Threads : pc[t] # "panicked"

(* Past the swap of finishFunc. *)
InsideFinish(t) == pc[t] \in FinishSteps \ {"cas"}

Unopened ==
  /\ \A t \in Threads : pc[t] = "idle"
  /\ isFinished = 0 /\ finishChan = "open"
  /\ span.decorations = 0
  /\ span.finishes = IF phase = "failed" THEN 1 ELSE 0
  /\ span.started <=> phase \notin {"new", "untraced"}
  /\ phase \notin {"failing", "failed"} <=> span.tags = Untagged

Untouched == /\ finishChan = "open"
             /\ span.tags = Untagged
             /\ span.decorations = 0
             /\ span.finishes = 0

WinnerAlone ==
  /\ span.started /\ span.finishes <= 1 /\ span.decorations <= 1
  /\ isFinished = 0 => Untouched /\ \A t \in Threads : ~InsideFinish(t)
  /\ \A t \in Threads :
       /\ pc[t] # "panicked"
       /\ InsideFinish(t) => /\ span.finishes = 0
                             /\ \A u \in Threads : InsideFinish(u) => u = t
       /\ pc[t] = "close" => Untouched
       /\ pc[t] = "record" => arg[t] # NoError /\ span.tags = Untagged
       /\ pc[t] \in {"record", "decorate"} => span.decorations = 0

(* Why the span is finished once: a stream that is not open has no         *)
(* goroutine at work; in an open one the goroutine that won the swap is    *)
(* alone inside finishFunc (client_interceptor.go:143-154), finds          *)
(* finishChan open and the span as it was started, and no other goroutine  *)
(* takes a step of the span's end before it.                               *)
FinishProtocol == IF phase = "open" THEN WinnerAlone ELSE Unopened

(* A finished span is never logged to, tagged, decorated or finished again *)
(* by a goroutine that was slower (client_interceptor.go:146-154).         *)
FinishedSpanFrozen == [][Finished => UNCHANGED span]_vars

(* No failure is lost: a span that ends without an error on it belongs to  *)
(* an RPC that ended OK, or to a stream the application abandoned. It is   *)
(* RecvMsg that decides this (client_interceptor.go:205-218).              *)
CleanSpanMeansCleanEnd ==
  Finished /\ ~span.tags.logged => rpc = "OK" \/ ~reachable

CleanEnd == rpc = "OK" \/ ~reachable

(* Why none is lost: whoever calls finishFunc without an error has seen    *)
(* the RPC end OK, or is the finalizer (client_interceptor.go:177-179,     *)
(* 205-218), and the winner of the swap goes by what it was called with.   *)
CleanEndProtocol ==
  /\ phase \in {"failing", "failed"} => span.tags.logged
  /\ \A t \in Threads :
       /\ pc[t] \in {"cas", "close"} /\ arg[t] = NoError => CleanEnd
       /\ pc[t] \in {"decorate", "finish"} /\ ~span.tags.logged => CleanEnd
  /\ CleanSpanMeansCleanEnd

(* The two protocols together with the types of what they speak of, which  *)
(* every step of a goroutine keeps (client_interceptor.go:138-218).        *)
InductiveInvariant == TypeOK /\ FinishProtocol /\ CleanEndProtocol

(* Once the context is done or the wrapper is garbage, the span is         *)
(* finished by somebody (client_interceptor.go:161,171-179).               *)
SpanEventuallyFinished ==
  (phase = "open" /\ (ctxErr # NoError \/ Collectable)) ~> Finished

(* The watcher goroutine does not outlive the span (the finalizer is there *)
(* so that "the span and the context goroutine will at least be cleaned    *)
(* up", client_interceptor.go:175).                                        *)
WatcherExits == (phase = "open" /\ Finished) ~> pc[Watcher] = "done"

Stage == IF ~span.started THEN "none"
         ELSE IF Finished THEN "finished"
         ELSE IF span.tags # Untagged THEN "annotated"
         ELSE "live"

Lifecycle == INSTANCE SpanLifecycle WITH stage <- Stage, tags <- span.tags

(* The stream implements the span lifecycle every traced RPC promises: one *)
(* start, at most one annotation and one finish, in this order, whichever  *)
(* goroutine takes the steps (client_interceptor.go:115-155).              *)
ImplementsLifecycle == Lifecycle!Spec

(* "Success or "success"": OK and Canceled are in the class 2xx, which     *)
(* SetSpanTags never marks as an error (server_interceptor.go:275,313). So *)
(* the span of an RPC that ended with one of them should not be marked.    *)
SuccessNotMarkedAsError == Finished /\ rpc \in SuccessCodes => ~span.tags.error

===============================================================================
