------------------------ MODULE TracePropagationProofs ------------------------
(***************************************************************************)
(* Proofs about how a trace travels with unary RPCs, for any set of calls  *)
(* nested in any way.                                                      *)
(***************************************************************************)
EXTENDS TracePropagation, TLAPS

-------------------------------------------------------------------------------
(* Tags and statuses.                                                      *)

LEMMA TagsTyped ==
  ASSUME NEW tags \in Tags, NEW e \in Errors, NEW isClient \in BOOLEAN
  PROVE  LogError(SetSpanTags(tags, e, isClient)) \in Tags
<1>1. CodeOf(e) \in Codes
  BY DEF CodeOf, Codes, SuccessCodes, Errors, StatusErrors
<1>2. ErrorClass(e) \in Classes
  BY DEF ErrorClass, Classes
<1>3. SetSpanTags(tags, e, isClient) \in Tags
  BY <1>1, <1>2 DEF SetSpanTags, Tags
<1> QED BY <1>3 DEF LogError, Tags

LEMMA ErrorSets ==
  /\ HandlerErrors \subseteq Errors /\ NoError \in Errors
  /\ {"Canceled", "DeadlineExceeded"} \subseteq Errors
  /\ Untagged \in Tags
<1>1. {"NotFound", "Internal", "Canceled", "DeadlineExceeded"} \subseteq StatusErrors
  BY DEF StatusErrors, Codes, ClientCodes, ServerCodes, SuccessCodes
<1>2. "io.EOF" \in PlainErrors
  BY DEF PlainErrors
<1>3. Untagged \in Tags
  BY DEF Untagged, Tags
<1> QED BY <1>1, <1>2, <1>3 DEF HandlerErrors, Errors

LEMMA StatusTyped ==
  ASSUME NEW e \in Errors
  PROVE  StatusOf(e) \in Errors /\ (StatusOf(e) = NoError <=> e = NoError)
<1>1. CASE e = NoError
  BY <1>1 DEF StatusOf, Errors
<1>2. CASE e \in StatusErrors
  <2>1. e # NoError /\ e \in Codes
    BY <1>2 DEF NoError, StatusErrors, Codes, ClientCodes, ServerCodes,
                SuccessCodes
  <2>2. StatusOf(e) = e
    BY <2>1 DEF StatusOf, CodeOf
  <2> QED BY <2>1, <2>2
<1>3. CASE e \in PlainErrors
  <2>1. e # NoError /\ e \notin Codes
    BY <1>3 DEF NoError, PlainErrors, Codes, ClientCodes, ServerCodes,
                SuccessCodes
  <2>2. StatusOf(e) = "Unknown"
    BY <2>1 DEF StatusOf, CodeOf
  <2>3. "Unknown" \in StatusErrors /\ "Unknown" # NoError
    BY DEF StatusErrors, Codes, NoError
  <2> QED BY <2>1, <2>2, <2>3 DEF Errors
<1> QED BY <1>1, <1>2, <1>3 DEF Errors

(* An error that marks the server's span is a status, and marks the        *)
(* client's span alike.                                                    *)
LEMMA ErrorSeenByBoth ==
  ASSUME NEW e \in Errors, Tagged(e, FALSE).error
  PROVE  /\ Tagged(StatusOf(e), TRUE).error
         /\ Tagged(StatusOf(e), TRUE).code = Tagged(e, FALSE).code
<1>0. Untagged \in Tags /\ Untagged.error = FALSE
  BY ErrorSets DEF Untagged
<1>1. e # NoError
  BY <1>0 DEF Tagged
<1>2. ASSUME NEW f \in Errors, NEW isClient \in BOOLEAN, f # NoError
      PROVE  /\ Tagged(f, isClient).code = CodeOf(f)
             /\ Tagged(f, isClient).error <=>
                  /\ ErrorClass(f) # "2xx"
                  /\ isClient \/ ErrorClass(f) = "5xx"
  <2>1. /\ SetSpanTags(Untagged, f, isClient).code = CodeOf(f)
        /\ SetSpanTags(Untagged, f, isClient).error <=>
             /\ ErrorClass(f) # "2xx"
             /\ isClient \/ ErrorClass(f) = "5xx"
    BY <1>0, <1>2 DEF SetSpanTags, Tags, Untagged
  <2>2. /\ Tagged(f, isClient).code = SetSpanTags(Untagged, f, isClient).code
        /\ Tagged(f, isClient).error = SetSpanTags(Untagged, f, isClient).error
    BY <1>2 DEF Tagged, LogError, SetSpanTags, Untagged
  <2> QED BY <2>1, <2>2
<1>3. ErrorClass(e) = "5xx"
  <2>1. FALSE \in BOOLEAN
    OBVIOUS
  <2>2. Tagged(e, FALSE).error <=>
          /\ ErrorClass(e) # "2xx"
          /\ FALSE \/ ErrorClass(e) = "5xx"
    BY <1>1, <1>2, <2>1
  <2> QED BY <2>2
<1>4. IsStatus(e)
  <2> SUFFICES ASSUME ~IsStatus(e) PROVE FALSE
    OBVIOUS
  <2>1. CodeOf(e) = "Unknown"
    BY DEF IsStatus, CodeOf
  <2>2. /\ "Unknown" \notin SuccessCodes /\ "Unknown" \notin ClientCodes
        /\ "Unknown" \notin ServerCodes
    BY DEF SuccessCodes, ClientCodes, ServerCodes
  <2>3. ErrorClass(e) = "0xx"
    BY <2>1, <2>2 DEF ErrorClass
  <2> QED BY <1>3, <2>3
<1>5. StatusOf(e) = e
  BY <1>1, <1>4 DEF StatusOf, CodeOf, IsStatus
<1> QED BY <1>1, <1>2, <1>3, <1>5

-------------------------------------------------------------------------------
(* What an interceptor does to the spans.                                  *)

LEMMA SpanNames ==
  /\ \A c \in Calls : Client(c) \in Spans /\ Server(c) \in Spans
  /\ \A c, d \in Calls : /\ Client(c) # Server(d)
                         /\ Client(c) = Client(d) => c = d
                         /\ Server(c) = Server(d) => c = d
BY DEF Client, Server, Spans

LEMMA StartEffect ==
  ASSUME TypeOK, NEW s \in Spans, NEW parent \in Parents, StartSpan(s, parent)
  PROVE  /\ span' \in [Spans -> SpanRecord]
         /\ \A t \in Spans : t # s => span'[t] = span[t]
         /\ span'[s].started = TRUE /\ span'[s].parent = parent
         /\ span'[s].tags = span[s].tags
         /\ span'[s].finishes = span[s].finishes
<1>1. span[s] \in SpanRecord
  BY DEF TypeOK
<1> QED BY <1>1 DEF StartSpan, TypeOK, SpanRecord

LEMMA FinishEffect ==
  ASSUME TypeOK, NEW s \in Spans, FinishSpan(s)
  PROVE  /\ span' \in [Spans -> SpanRecord]
         /\ \A t \in Spans : t # s => span'[t] = span[t]
         /\ span'[s].started = span[s].started
         /\ span'[s].parent = span[s].parent
         /\ span'[s].tags = span[s].tags
         /\ span'[s].finishes = span[s].finishes + 1
<1>1. span[s] \in SpanRecord /\ span[s].finishes \in Nat
  BY DEF TypeOK, SpanRecord
<1>2. span[s].finishes + 1 \in Nat
  BY <1>1
<1>3. /\ span'[s] = [span[s] EXCEPT !.finishes = @ + 1]
      /\ \A t \in Spans : t # s => span'[t] = span[t]
      /\ DOMAIN span' = Spans /\ span' = [t \in Spans |-> span'[t]]
  BY DEF FinishSpan, TypeOK
<1>4. /\ span'[s] \in SpanRecord
      /\ span'[s].started = span[s].started
      /\ span'[s].parent = span[s].parent
      /\ span'[s].tags = span[s].tags
      /\ span'[s].finishes = span[s].finishes + 1
  BY <1>1, <1>2, <1>3 DEF SpanRecord
<1>5. \A t \in Spans : span'[t] \in SpanRecord
  BY <1>3, <1>4 DEF TypeOK
<1> QED BY <1>3, <1>4, <1>5

LEMMA TagEffect ==
  ASSUME TypeOK, NEW s \in Spans, NEW e \in Errors, NEW isClient \in BOOLEAN,
         span' = [span EXCEPT ![s].tags = LogError(SetSpanTags(@, e, isClient))]
  PROVE  /\ span' \in [Spans -> SpanRecord]
         /\ \A t \in Spans : t # s => span'[t] = span[t]
         /\ span'[s].started = span[s].started
         /\ span'[s].parent = span[s].parent
         /\ span'[s].tags = LogError(SetSpanTags(span[s].tags, e, isClient))
         /\ span'[s].finishes = span[s].finishes
<1>1. span[s] \in SpanRecord /\ span[s].tags \in Tags
  BY DEF TypeOK, SpanRecord
<1>2. LogError(SetSpanTags(span[s].tags, e, isClient)) \in Tags
  BY <1>1, TagsTyped
<1> QED BY <1>1, <1>2 DEF TypeOK, SpanRecord

(* The contexts a request leaves with, and the one the server reads. *)
LEMMA OutgoingTyped ==
  ASSUME TypeOK, NEW c \in Calls
  PROVE  FromOutgoingContext(c) \in Seq(Contexts)
<1>1. Origin[c] \in Calls \cup {App}
  BY OriginAssumption
<1> QED BY <1>1 DEF FromOutgoingContext, TypeOK

LEMMA LastIsRead ==
  ASSUME NEW values \in Seq(Contexts), NEW context \in Contexts
  PROVE  /\ Set(values, context) \in Seq(Contexts)
         /\ ForeachKey(Set(values, context)) = context
         /\ ForeachKey(values) \in Parents
<1>1. /\ Set(values, context) \in Seq(Contexts)
      /\ Len(Set(values, context)) = Len(values) + 1
      /\ Set(values, context)[Len(values) + 1] = context
  BY DEF Set
<1>2. Set(values, context) # <<>>
  BY <1>1
<1>3. values # <<>> => values[Len(values)] \in Contexts
  BY DEF Contexts
<1> QED BY <1>1, <1>2, <1>3 DEF ForeachKey, Parents

-------------------------------------------------------------------------------
(* Types.                                                                  *)

LEMMA InitTyped == Init => TypeOK
<1> SUFFICES ASSUME Init PROVE TypeOK
  OBVIOUS
<1>1. \A first \in {<<>>, <<Upstream>>} : first \in Seq(Contexts)
  <2>1. Upstream \in Contexts
    BY DEF Contexts
  <2>2. ASSUME NEW context \in Contexts
        PROVE  <<context>> \in Seq(Contexts) /\ <<>> \in Seq(Contexts)
    OBVIOUS
  <2>3. <<Upstream>> \in Seq(Contexts) /\ <<>> \in Seq(Contexts)
    BY <2>1, <2>2
  <2> QED BY <2>3
<1>2. md \in [Calls \cup {App} -> Seq(Contexts)]
  BY <1>1 DEF Init
<1>3. span \in [Spans -> SpanRecord]
  <2>1. [started |-> FALSE, parent |-> NoSpan, tags |-> Untagged,
         finishes |-> 0] \in SpanRecord
    BY ErrorSets DEF SpanRecord, Parents
  <2> QED BY <2>1 DEF Init
<1>4. wire \in [Calls -> Seq(Contexts)]
  BY DEF Init
<1>5. err \in [Calls -> Errors]
  BY ErrorSets DEF Init
<1>6. ctx \in [Calls \cup {App} -> Parents]
  BY DEF Init, Parents, Contexts
<1> QED BY <1>2, <1>3, <1>4, <1>5, <1>6 DEF Init, TypeOK

(* The span of the context of a call is one a span can have as parent. *)
LEMMA ParentTyped ==
  ASSUME TypeOK, NEW c \in Calls
  PROVE  SpanFromContext(c) \in Parents /\ ExtractSpanContext(c) \in Parents
<1>1. Origin[c] \in Calls \cup {App}
  BY OriginAssumption
<1>2. SpanFromContext(c) \in Parents
  BY <1>1 DEF SpanFromContext, TypeOK
<1>3. wire[c] \in Seq(Contexts) /\ Upstream \in Contexts
  BY DEF TypeOK, Contexts
<1>4. ExtractSpanContext(c) \in Parents
  BY <1>3, LastIsRead DEF ExtractSpanContext
<1> QED BY <1>2, <1>4

LEMMA ClientTyped ==
  ASSUME TypeOK, NEW c \in Calls,
         \/ Exclude(c) \/ StartClientSpan(c) \/ InjectSpanContext(c)
         \/ Send(c) \/ FinishClientSpan(c)
  PROVE  TypeOK'
<1>1. CASE Exclude(c)
  <2>1. FromOutgoingContext(c) \in Seq(Contexts)
    BY OutgoingTyped
  <2> QED BY <1>1, <2>1 DEF Exclude, TypeOK
<1>2. CASE StartClientSpan(c)
  <2>1. span' \in [Spans -> SpanRecord]
    BY <1>2, StartEffect, ParentTyped, SpanNames DEF StartClientSpan
  <2> QED BY <1>2, <2>1 DEF StartClientSpan, TypeOK
<1>3. CASE InjectSpanContext(c)
  <2>1. Set(FromOutgoingContext(c), Client(c)) \in Seq(Contexts)
    BY OutgoingTyped, LastIsRead, SpanNames DEF Contexts
  <2> QED BY <1>3, <2>1 DEF InjectSpanContext, TypeOK
<1>4. CASE Send(c)
  <2>1. md[ref[c]] \in Seq(Contexts)
    BY DEF TypeOK
  <2> QED BY <1>4, <2>1 DEF Send, TypeOK
<1>5. CASE FinishClientSpan(c)
  <2>1. span' \in [Spans -> SpanRecord]
    BY <1>5, FinishEffect, SpanNames DEF FinishClientSpan
  <2> QED BY <1>5, <2>1 DEF FinishClientSpan, TypeOK
<1> QED BY <1>1, <1>2, <1>3, <1>4, <1>5

(* The client interceptor hands the status e on. *)
LEMMA TagClientEffect ==
  ASSUME TypeOK, NEW c \in Calls, NEW e \in Errors, TagClientSpan(c, e)
  PROVE  /\ span' \in [Spans -> SpanRecord]
         /\ \A t \in Spans : t # Client(c) => span'[t] = span[t]
         /\ span'[Client(c)].started = span[Client(c)].started
         /\ span'[Client(c)].parent = span[Client(c)].parent
         /\ span'[Client(c)].finishes = span[Client(c)].finishes
         /\ cfg.client /\ span[Client(c)].tags = Untagged =>
              span'[Client(c)].tags = Tagged(e, TRUE)
<1>0. Client(c) \in Spans /\ TRUE \in BOOLEAN
  BY SpanNames
<1>1. CASE cfg.client /\ e # NoError
  <2>1. span' = [span EXCEPT ![Client(c)].tags =
                                LogError(SetSpanTags(@, e, TRUE))]
    BY <1>1 DEF TagClientSpan
  <2>2. /\ span' \in [Spans -> SpanRecord]
        /\ \A t \in Spans : t # Client(c) => span'[t] = span[t]
        /\ span'[Client(c)].started = span[Client(c)].started
        /\ span'[Client(c)].parent = span[Client(c)].parent
        /\ span'[Client(c)].finishes = span[Client(c)].finishes
        /\ span'[Client(c)].tags =
             LogError(SetSpanTags(span[Client(c)].tags, e, TRUE))
    BY <1>0, <2>1, TagEffect
  <2> QED BY <1>1, <2>2 DEF Tagged
<1>2. CASE ~(cfg.client /\ e # NoError)
  <2>1. span' = span
    BY <1>2 DEF TagClientSpan
  <2> QED BY <1>2, <2>1 DEF TypeOK, Tagged
<1> QED BY <1>1, <1>2

(* The server interceptor tags its span with the handler's error. *)
LEMMA TagServerEffect ==
  ASSUME TypeOK, NEW c \in Calls, HandlerReturns(c)
  PROVE  /\ span' \in [Spans -> SpanRecord]
         /\ err' \in [Calls -> Errors]
         /\ \A d \in Calls : d # c => err'[d] = err[d]
         /\ \A t \in Spans : t # Server(c) => span'[t] = span[t]
         /\ span'[Server(c)].started = span[Server(c)].started
         /\ span'[Server(c)].parent = span[Server(c)].parent
         /\ span'[Server(c)].finishes = span[Server(c)].finishes
         /\ ~Traced => span' = span
         /\ Traced /\ span[Server(c)].tags = Untagged =>
              span'[Server(c)].tags = Tagged(err'[c], FALSE)
<1>0. Server(c) \in Spans /\ FALSE \in BOOLEAN
  BY SpanNames
<1>1. PICK e \in HandlerErrors :
        /\ err' = [err EXCEPT ![c] = e]
        /\ span' = IF Traced /\ e # NoError
                   THEN [span EXCEPT ![Server(c)].tags =
                                        LogError(SetSpanTags(@, e, FALSE))]
                   ELSE span
  BY DEF HandlerReturns
<1>2. e \in Errors
  BY ErrorSets
<1>3. /\ err' \in [Calls -> Errors] /\ err'[c] = e
      /\ \A d \in Calls : d # c => err'[d] = err[d]
  BY <1>1, <1>2 DEF TypeOK
<1>4. CASE Traced /\ e # NoError
  <2>1. span' = [span EXCEPT ![Server(c)].tags =
                                LogError(SetSpanTags(@, e, FALSE))]
    BY <1>1, <1>4
  <2>2. /\ span' \in [Spans -> SpanRecord]
        /\ \A t \in Spans : t # Server(c) => span'[t] = span[t]
        /\ span'[Server(c)].started = span[Server(c)].started
        /\ span'[Server(c)].parent = span[Server(c)].parent
        /\ span'[Server(c)].finishes = span[Server(c)].finishes
        /\ span'[Server(c)].tags =
             LogError(SetSpanTags(span[Server(c)].tags, e, FALSE))
    BY <1>0, <1>2, <2>1, TagEffect
  <2> QED BY <1>3, <1>4, <2>2 DEF Tagged
<1>5. CASE ~(Traced /\ e # NoError)
  <2>1. span' = span
    BY <1>1, <1>5
  <2> QED BY <1>3, <1>5, <2>1 DEF TypeOK, Tagged
<1> QED BY <1>4, <1>5

LEMMA AnswerTyped ==
  ASSUME TypeOK, NEW c \in Calls, Answered(c) \/ GiveUp(c)
  PROVE  TypeOK'
<1>1. ASSUME NEW e \in Errors, TagClientSpan(c, e)
      PROVE  /\ span' \in [Spans -> SpanRecord]
             /\ client' \in [Calls -> {"idle", "inject", "send", "waiting",
                                       "finish", "done"}]
  <2>1. span' \in [Spans -> SpanRecord]
    BY <1>1, TagClientEffect
  <2> QED BY <1>1, <2>1 DEF TagClientSpan, TypeOK
<1>2. CASE Answered(c)
  <2>1. StatusOf(err[c]) \in Errors
    BY StatusTyped DEF TypeOK
  <2> QED BY <1>1, <1>2, <2>1 DEF Answered, TypeOK
<1>3. CASE GiveUp(c)
  <2>1. PICK e \in {"Canceled", "DeadlineExceeded"} : TagClientSpan(c, e)
    BY <1>3 DEF GiveUp
  <2>2. e \in Errors
    BY ErrorSets
  <2> QED BY <1>1, <1>3, <2>1, <2>2 DEF GiveUp, TypeOK
<1> QED BY <1>2, <1>3

LEMMA ServerTyped ==
  ASSUME TypeOK, NEW c \in Calls, ServeCall(c) \/ ServerStep(c)
  PROVE  TypeOK'
<1>1. CASE ServeCall(c)
  <2>1. span' \in [Spans -> SpanRecord]
    <3>1. CASE Traced
      BY <1>1, <3>1, StartEffect, ParentTyped, SpanNames DEF ServeCall
    <3>2. CASE ~Traced
      BY <1>1, <3>2 DEF ServeCall, TypeOK
    <3> QED BY <3>1, <3>2
  <2> QED BY <1>1, <2>1 DEF ServeCall, TypeOK
<1>4. CASE ContextWithSpan(c)
  <2>1. Server(c) \in Parents
    BY SpanNames DEF Parents, Contexts
  <2> QED BY <1>4, <2>1 DEF ContextWithSpan, TypeOK
<1>2. CASE HandlerReturns(c)
  <2>1. span' \in [Spans -> SpanRecord] /\ err' \in [Calls -> Errors]
    BY <1>2, TagServerEffect
  <2> QED BY <1>2, <2>1 DEF HandlerReturns, TypeOK
<1>3. CASE FinishServerSpan(c)
  <2>1. span' \in [Spans -> SpanRecord]
    BY <1>3, FinishEffect, SpanNames DEF FinishServerSpan
  <2> QED BY <1>3, <2>1 DEF FinishServerSpan, TypeOK
<1> QED BY <1>1, <1>2, <1>3, <1>4 DEF ServerStep

LEMMA NextTyped == TypeOK /\ [Next]_vars => TypeOK'
<1> SUFFICES ASSUME TypeOK, [Next]_vars PROVE TypeOK'
  OBVIOUS
<1>1. CASE UNCHANGED vars
  BY <1>1 DEF vars, TypeOK
<1>2. CASE Next
  BY <1>2, ClientTyped, AnswerTyped, ServerTyped DEF Next, ClientStep
<1> QED BY <1>1, <1>2

-------------------------------------------------------------------------------
(* Contexts, spans and tags.                                               *)

LEMMA InitTrace == Init => TraceInvariant
<1> SUFFICES ASSUME Init, NEW c \in Calls
             PROVE  ContextPart(c) /\ StartPart(c) /\ FinishPart(c) /\ TagPart(c)
  BY DEF TraceInvariant
<1>1. /\ client[c] = "idle" /\ server[c] = "idle" /\ ref[c] = c
      /\ ctx[c] = NoSpan
  BY OriginAssumption DEF Init
<1>2. \A s \in Spans : /\ span[s].started = FALSE
                       /\ span[s].finishes = 0
                       /\ span[s].tags = Untagged
  BY DEF Init
<1>3. /\ ~Started(Client(c)) /\ ~Started(Server(c))
      /\ span[Server(c)].finishes = 0 /\ ~Finished(Client(c))
      /\ span[Client(c)].tags = Untagged /\ span[Server(c)].tags = Untagged
  BY <1>2, SpanNames DEF Started, Finished
<1>4. ContextPart(c)
  BY <1>1 DEF ContextPart, Past
<1>5. StartPart(c)
  BY <1>1, <1>3 DEF StartPart, Handled
<1>6. FinishPart(c)
  BY <1>1, <1>3 DEF FinishPart
<1>7. TagPart(c)
  BY <1>1, <1>3 DEF TagPart
<1> QED BY <1>4, <1>5, <1>6, <1>7

(* A step of call c: the setup stays, nothing of another call changes, and *)
(* no request is taken back.                                               *)
StepOf(c) ==
  /\ cfg' = cfg
  /\ \A d \in Calls : Handled(d) => Handled(d)'
  /\ \A d \in Calls : d # c =>
       /\ client'[d] = client[d] /\ server'[d] = server[d]
       /\ ref'[d] = ref[d] /\ md'[d] = md[d] /\ wire'[d] = wire[d]
       /\ ctx'[d] = ctx[d] /\ err'[d] = err[d] /\ gaveUp'[d] = gaveUp[d]
       /\ span'[Client(d)] = span[Client(d)]
       /\ span'[Server(d)] = span[Server(d)]

(* What such a step leaves of another call's part of the invariant: all. *)
LEMMA OthersKeep ==
  ASSUME TypeOK, TraceInvariant, NEW c \in Calls, StepOf(c),
         NEW d \in Calls, d # c
  PROVE  (ContextPart(d) /\ StartPart(d) /\ FinishPart(d) /\ TagPart(d))'
<1>1. ContextPart(d) /\ StartPart(d) /\ FinishPart(d) /\ TagPart(d)
  BY DEF TraceInvariant
<1>2. /\ cfg' = cfg /\ (Traced <=> Traced')
      /\ client'[d] = client[d] /\ server'[d] = server[d]
      /\ ref'[d] = ref[d] /\ md'[d] = md[d] /\ wire'[d] = wire[d]
      /\ ctx'[d] = ctx[d] /\ err'[d] = err[d] /\ gaveUp'[d] = gaveUp[d]
      /\ span'[Client(d)] = span[Client(d)]
      /\ span'[Server(d)] = span[Server(d)]
  BY DEF StepOf, Traced, CallsInterceptor
<1>3. ContextPart(d)'
  BY <1>1, <1>2 DEF ContextPart, Past, ForeachKey
<1>4. StartPart(d)'
  <2>1. Origin[d] # App => Origin[d] \in Calls
    BY OriginAssumption
  <2>2. Origin[d] # App /\ Handled(Origin[d]) => Handled(Origin[d])'
    BY <2>1 DEF StepOf
  <2>3. Handled(d)' <=> Handled(d)
    BY <1>2 DEF Handled
  <2>4. /\ Started(Client(d))' <=> Started(Client(d))
        /\ Started(Server(d))' <=> Started(Server(d))
    BY <1>2 DEF Started
  <2> QED BY <1>1, <1>2, <2>2, <2>3, <2>4 DEF StartPart
<1>5. FinishPart(d)'
  BY <1>1, <1>2 DEF FinishPart, Finished
<1>6. TagPart(d)'
  BY <1>1, <1>2 DEF TagPart
<1> QED BY <1>3, <1>4, <1>5, <1>6

(* So a step keeps the invariant if it keeps its own call's part. *)
LEMMA OwnSuffices ==
  ASSUME TypeOK, TraceInvariant, NEW c \in Calls, StepOf(c),
         ContextPart(c)', StartPart(c)', FinishPart(c)', TagPart(c)'
  PROVE  TraceInvariant'
<1>1. ASSUME NEW d \in Calls
      PROVE  (ContextPart(d) /\ StartPart(d) /\ FinishPart(d) /\ TagPart(d))'
  <2>1. CASE d = c
    BY <2>1
  <2>2. CASE d # c
    BY <2>2, OthersKeep
  <2> QED BY <2>1, <2>2
<1> QED BY <1>1 DEF TraceInvariant

LEMMA ExcludeKeeps ==
  ASSUME TypeOK, TraceInvariant, NEW c \in Calls, Exclude(c)
  PROVE  TraceInvariant'
<1>1. ContextPart(c) /\ StartPart(c) /\ FinishPart(c) /\ TagPart(c)
  BY DEF TraceInvariant
<1>2. /\ client[c] = "idle" /\ ~cfg.client /\ client'[c] = "waiting"
      /\ cfg' = cfg /\ ref' = ref /\ span' = span /\ server' = server
      /\ ctx' = ctx
      /\ err' = err /\ gaveUp' = gaveUp /\ md' = md /\ (Traced <=> Traced')
  BY DEF Exclude, TypeOK, Traced, CallsInterceptor
<1>3. StepOf(c)
  BY DEF Exclude, TypeOK, StepOf, Handled
<1>4. ContextPart(c)'
  BY <1>1, <1>2 DEF ContextPart, Past
<1>5. StartPart(c)'
  BY <1>1, <1>2 DEF StartPart, Started, Handled
<1>6. FinishPart(c)'
  BY <1>1, <1>2 DEF FinishPart, Finished
<1>7. TagPart(c)'
  BY <1>1, <1>2 DEF TagPart
<1> QED BY <1>3, <1>4, <1>5, <1>6, <1>7, OwnSuffices

LEMMA StartClientKeeps ==
  ASSUME TypeOK, TraceInvariant, NEW c \in Calls, StartClientSpan(c)
  PROVE  TraceInvariant'
<1>1. ContextPart(c) /\ StartPart(c) /\ FinishPart(c) /\ TagPart(c)
  BY DEF TraceInvariant
<1>2. /\ client[c] = "idle" /\ cfg.client /\ client'[c] = "inject"
      /\ cfg' = cfg /\ ref' = ref /\ wire' = wire /\ server' = server
      /\ ctx' = ctx
      /\ err' = err /\ gaveUp' = gaveUp /\ md' = md /\ (Traced <=> Traced')
      /\ MayBegin(c) /\ \A d \in Calls : d # c => client'[d] = client[d]
  BY DEF StartClientSpan, TypeOK, Traced, CallsInterceptor
<1>3. /\ \A t \in Spans : t # Client(c) => span'[t] = span[t]
      /\ span'[Client(c)].started = TRUE
      /\ span'[Client(c)].parent = SpanFromContext(c)
      /\ span'[Client(c)].tags = span[Client(c)].tags
      /\ span'[Client(c)].finishes = span[Client(c)].finishes
  BY StartEffect, ParentTyped, SpanNames DEF StartClientSpan
<1>4. span'[Server(c)] = span[Server(c)] /\ server[c] = "idle"
  BY <1>1, <1>2, <1>3, SpanNames DEF ContextPart, Past
<1>5. StepOf(c)
  BY <1>2, <1>3, SpanNames DEF StepOf, Handled
<1>6. ContextPart(c)'
  BY <1>1, <1>2 DEF ContextPart, Past
<1>7. StartPart(c)'
  <2>1. Origin[c] # App => Origin[c] \in Calls /\ Handled(Origin[c])
    BY <1>2, OriginAssumption DEF MayBegin, Handled
  <2>2. Origin[c] # App /\ Traced => SpanFromContext(c) = Server(Origin[c])
    BY <2>1 DEF SpanFromContext, TraceInvariant, StartPart
  <2> QED BY <1>1, <1>2, <1>3, <1>4, <2>1, <2>2 DEF StartPart, Started, Handled
<1>8. FinishPart(c)'
  BY <1>1, <1>2, <1>3, <1>4 DEF FinishPart, Finished
<1>9. TagPart(c)'
  BY <1>1, <1>2, <1>3, <1>4 DEF TagPart
<1> QED BY <1>5, <1>6, <1>7, <1>8, <1>9, OwnSuffices

LEMMA InjectKeeps ==
  ASSUME TypeOK, TraceInvariant, NEW c \in Calls, InjectSpanContext(c)
  PROVE  TraceInvariant'
<1>1. ContextPart(c) /\ StartPart(c) /\ FinishPart(c) /\ TagPart(c)
  BY DEF TraceInvariant
<1>2. /\ client[c] = "inject" /\ client'[c] = "send" /\ ref'[c] = c
      /\ cfg' = cfg /\ wire' = wire /\ span' = span /\ server' = server
      /\ ctx' = ctx
      /\ err' = err /\ gaveUp' = gaveUp /\ (Traced <=> Traced')
      /\ md'[c] = Set(FromOutgoingContext(c), Client(c))
  BY DEF InjectSpanContext, TypeOK, Traced, CallsInterceptor
<1>3. StepOf(c)
  BY DEF InjectSpanContext, TypeOK, StepOf, Handled
<1>4. ForeachKey(md'[c]) = Client(c)
  <2>1. FromOutgoingContext(c) \in Seq(Contexts) /\ Client(c) \in Contexts
    BY OutgoingTyped, SpanNames DEF Contexts
  <2>2. ForeachKey(Set(FromOutgoingContext(c), Client(c))) = Client(c)
    BY <2>1, LastIsRead
  <2> QED BY <1>2, <2>2
<1>5. ContextPart(c)'
  BY <1>1, <1>2, <1>4 DEF ContextPart, Past
<1>6. StartPart(c)'
  BY <1>1, <1>2 DEF StartPart, Started, Handled
<1>7. FinishPart(c)'
  BY <1>1, <1>2 DEF FinishPart, Finished
<1>8. TagPart(c)'
  BY <1>1, <1>2 DEF TagPart
<1> QED BY <1>3, <1>5, <1>6, <1>7, <1>8, OwnSuffices

LEMMA SendKeeps ==
  ASSUME TypeOK, TraceInvariant, NEW c \in Calls, Send(c)
  PROVE  TraceInvariant'
<1>1. ContextPart(c) /\ StartPart(c) /\ FinishPart(c) /\ TagPart(c)
  BY DEF TraceInvariant
<1>2. /\ client[c] = "send" /\ client'[c] = "waiting" /\ ref' = ref
      /\ cfg' = cfg /\ md' = md /\ span' = span /\ server' = server
      /\ ctx' = ctx
      /\ err' = err /\ gaveUp' = gaveUp /\ (Traced <=> Traced')
      /\ wire'[c] = md[ref[c]]
  BY DEF Send, TypeOK, Traced, CallsInterceptor
<1>3. StepOf(c)
  BY DEF Send, TypeOK, StepOf, Handled
<1>4. ForeachKey(wire'[c]) = Client(c)
  <2>1. ForeachKey(md[c]) = Client(c) /\ wire'[c] = md[c]
    BY <1>1, <1>2 DEF ContextPart
  <2> QED BY <2>1
<1>5. ContextPart(c)'
  BY <1>1, <1>2, <1>4 DEF ContextPart, Past
<1>6. StartPart(c)'
  BY <1>1, <1>2 DEF StartPart, Started, Handled
<1>7. FinishPart(c)'
  BY <1>1, <1>2 DEF FinishPart, Finished
<1>8. TagPart(c)'
  BY <1>1, <1>2 DEF TagPart
<1> QED BY <1>3, <1>5, <1>6, <1>7, <1>8, OwnSuffices

(* What the client interceptor makes of a status, whoever it comes from.   *)
LEMMA TagKeeps ==
  ASSUME TypeOK, TraceInvariant, NEW c \in Calls, NEW e \in Errors,
         client[c] = "waiting", TagClientSpan(c, e),
         UNCHANGED <<cfg, ctx, md, ref, wire, server, err>>,
         \A d \in Calls : d # c => gaveUp'[d] = gaveUp[d],
         gaveUp'[c] \/ (server[c] = "done" /\ e = StatusOf(err[c]))
  PROVE  TraceInvariant'
<1>1. ContextPart(c) /\ StartPart(c) /\ FinishPart(c) /\ TagPart(c)
  BY DEF TraceInvariant
<1>2. /\ client'[c] \in {"finish", "done"}
      /\ client'[c] = "finish" => cfg.client
      /\ \A d \in Calls : d # c => client'[d] = client[d]
      /\ (Traced <=> Traced')
  BY DEF TagClientSpan, TypeOK, Traced, CallsInterceptor
<1>3. /\ \A t \in Spans : t # Client(c) => span'[t] = span[t]
      /\ span'[Client(c)].started = span[Client(c)].started
      /\ span'[Client(c)].parent = span[Client(c)].parent
      /\ span'[Client(c)].finishes = span[Client(c)].finishes
      /\ cfg.client /\ span[Client(c)].tags = Untagged =>
           span'[Client(c)].tags = Tagged(e, TRUE)
  BY TagClientEffect
<1>4. span'[Server(c)] = span[Server(c)]
  BY <1>3, SpanNames
<1>5. StepOf(c)
  BY <1>2, <1>3, SpanNames DEF StepOf, Handled
<1>6. ContextPart(c)'
  BY <1>1, <1>2 DEF ContextPart, Past
<1>7. StartPart(c)'
  BY <1>1, <1>2, <1>3, <1>4 DEF StartPart, Started, Handled
<1>8. FinishPart(c)'
  <2>1. span'[Client(c)].finishes = span[Client(c)].finishes
    BY <1>3
  <2>2. ~Finished(Client(c))
    BY <1>1 DEF FinishPart
  <2>3. ~Finished(Client(c))'
    BY <2>1, <2>2 DEF Finished
  <2> QED BY <1>1, <1>2, <1>4, <2>3 DEF FinishPart
<1>9. TagPart(c)'
  <2>1. span[Client(c)].tags = Untagged
    BY <1>1 DEF TagPart
  <2>2. cfg.client => span'[Client(c)].tags = Tagged(e, TRUE)
    BY <1>3, <2>1
  <2>3. gaveUp'[c] \/ e = StatusOf(err[c])
    OBVIOUS
  <2>4. StatusOf(err'[c]) = StatusOf(err[c])
    OBVIOUS
  <2> QED BY <1>1, <1>2, <1>4, <2>2, <2>3, <2>4 DEF TagPart
<1> QED BY <1>5, <1>6, <1>7, <1>8, <1>9, OwnSuffices

LEMMA AnswerKeeps ==
  ASSUME TypeOK, TraceInvariant, NEW c \in Calls, Answered(c) \/ GiveUp(c)
  PROVE  TraceInvariant'
<1>1. CASE Answered(c)
  <2>1. StatusOf(err[c]) \in Errors
    BY StatusTyped DEF TypeOK
  <2> QED BY <1>1, <2>1, TagKeeps DEF Answered
<1>2. CASE GiveUp(c)
  <2>1. PICK e \in {"Canceled", "DeadlineExceeded"} : TagClientSpan(c, e)
    BY <1>2 DEF GiveUp
  <2>2. e \in Errors
    BY ErrorSets
  <2>3. gaveUp'[c] /\ \A d \in Calls : d # c => gaveUp'[d] = gaveUp[d]
    BY <1>2 DEF GiveUp, TypeOK
  <2>4. /\ client[c] = "waiting"
        /\ UNCHANGED <<cfg, ctx, md, ref, wire, server, err>>
    BY <1>2 DEF GiveUp
  <2> QED BY <2>1, <2>2, <2>3, <2>4, TagKeeps
<1> QED BY <1>1, <1>2

LEMMA FinishClientKeeps ==
  ASSUME TypeOK, TraceInvariant, NEW c \in Calls, FinishClientSpan(c)
  PROVE  TraceInvariant'
<1>1. ContextPart(c) /\ StartPart(c) /\ FinishPart(c) /\ TagPart(c)
  BY DEF TraceInvariant
<1>2. /\ client[c] = "finish" /\ client'[c] = "done" /\ ref' = ref
      /\ cfg' = cfg /\ md' = md /\ wire' = wire /\ server' = server
      /\ ctx' = ctx
      /\ err' = err /\ gaveUp' = gaveUp /\ (Traced <=> Traced')
      /\ \A d \in Calls : d # c => client'[d] = client[d]
  BY DEF FinishClientSpan, TypeOK, Traced, CallsInterceptor
<1>3. /\ \A t \in Spans : t # Client(c) => span'[t] = span[t]
      /\ span'[Client(c)].started = span[Client(c)].started
      /\ span'[Client(c)].parent = span[Client(c)].parent
      /\ span'[Client(c)].tags = span[Client(c)].tags
  BY FinishEffect, SpanNames DEF FinishClientSpan
<1>4. span'[Server(c)] = span[Server(c)]
  BY <1>3, SpanNames
<1>5. StepOf(c)
  BY <1>2, <1>3, SpanNames DEF StepOf, Handled
<1>6. ContextPart(c)'
  BY <1>1, <1>2 DEF ContextPart, Past
<1>7. StartPart(c)'
  BY <1>1, <1>2, <1>3, <1>4 DEF StartPart, Started, Handled
<1>8. FinishPart(c)'
  BY <1>1, <1>2, <1>4 DEF FinishPart, ContextPart
<1>9. TagPart(c)'
  BY <1>1, <1>2, <1>3, <1>4 DEF TagPart, StatusOf
<1> QED BY <1>5, <1>6, <1>7, <1>8, <1>9, OwnSuffices

LEMMA ServeKeeps ==
  ASSUME TypeOK, TraceInvariant, NEW c \in Calls, ServeCall(c)
  PROVE  TraceInvariant'
<1>1. ContextPart(c) /\ StartPart(c) /\ FinishPart(c) /\ TagPart(c)
  BY DEF TraceInvariant
<1>2. /\ server[c] = "idle" /\ Past(c)
      /\ server'[c] = IF Traced THEN "embed" ELSE "handling"
      /\ cfg' = cfg /\ md' = md /\ wire' = wire /\ ref' = ref /\ ctx' = ctx
      /\ client' = client /\ err' = err /\ gaveUp' = gaveUp
      /\ (Traced <=> Traced')
      /\ \A d \in Calls : d # c => server'[d] = server[d]
  BY DEF ServeCall, TypeOK, Traced, CallsInterceptor, Past
<1>3. /\ \A t \in Spans : t # Server(c) => span'[t] = span[t]
      /\ span'[Server(c)].tags = span[Server(c)].tags
      /\ span'[Server(c)].finishes = span[Server(c)].finishes
      /\ Traced => /\ span'[Server(c)].started = TRUE
                   /\ span'[Server(c)].parent = ExtractSpanContext(c)
      /\ ~Traced => span' = span
  <2>1. CASE Traced
    BY <2>1, StartEffect, ParentTyped, SpanNames DEF ServeCall
  <2>2. CASE ~Traced
    BY <2>2 DEF ServeCall
  <2> QED BY <2>1, <2>2
<1>4. span'[Client(c)] = span[Client(c)]
  BY <1>3, SpanNames
<1>5. StepOf(c)
  BY <1>2, <1>3, SpanNames DEF StepOf, Handled
<1>6. ContextPart(c)'
  BY <1>1, <1>2 DEF ContextPart, Past
<1>7. StartPart(c)'
  <2>1. cfg.client => ExtractSpanContext(c) = Client(c)
    BY <1>1, <1>2 DEF ContextPart, ExtractSpanContext
  <2>2. ~Started(Server(c))
    BY <1>1, <1>2 DEF StartPart
  <2>3. Started(Server(c))' <=> Traced
    BY <1>3, <2>2 DEF Started
  <2>4. Started(Client(c))' <=> Started(Client(c))
    BY <1>4 DEF Started
  <2>5. Origin[c] # App /\ Handled(Origin[c]) => Handled(Origin[c])'
    BY <1>5, OriginAssumption DEF StepOf
  <2>6. /\ Handled(c)' <=> ~Traced
        /\ ~Handled(c)
    BY <1>2 DEF Handled
  <2> QED BY <1>1, <1>2, <1>3, <1>4, <2>1, <2>3, <2>4, <2>5, <2>6 DEF StartPart
<1>8. FinishPart(c)'
  BY <1>1, <1>2, <1>3, <1>4 DEF FinishPart, Finished
<1>9. TagPart(c)'
  BY <1>1, <1>2, <1>3, <1>4 DEF TagPart, StatusOf
<1> QED BY <1>5, <1>6, <1>7, <1>8, <1>9, OwnSuffices

LEMMA EmbedKeeps ==
  ASSUME TypeOK, TraceInvariant, NEW c \in Calls, ContextWithSpan(c)
  PROVE  TraceInvariant'
<1>1. ContextPart(c) /\ StartPart(c) /\ FinishPart(c) /\ TagPart(c)
  BY DEF TraceInvariant
<1>2. /\ server[c] = "embed" /\ server'[c] = "handling"
      /\ cfg' = cfg /\ md' = md /\ wire' = wire /\ ref' = ref /\ span' = span
      /\ client' = client /\ err' = err /\ gaveUp' = gaveUp
      /\ ctx'[c] = Server(c) /\ (Traced <=> Traced')
      /\ \A d \in Calls : d # c => server'[d] = server[d] /\ ctx'[d] = ctx[d]
  BY DEF ContextWithSpan, TypeOK, Traced, CallsInterceptor
<1>3. StepOf(c)
  BY <1>2 DEF StepOf, Handled
<1>4. ContextPart(c)'
  BY <1>1, <1>2 DEF ContextPart, Past
<1>5. StartPart(c)'
  <2>1. Origin[c] # App /\ Handled(Origin[c]) => Handled(Origin[c])'
    BY <1>3, OriginAssumption DEF StepOf
  <2>2. Handled(c)' /\ Traced
    BY <1>1, <1>2 DEF Handled, StartPart
  <2> QED BY <1>1, <1>2, <2>1, <2>2 DEF StartPart, Started
<1>6. FinishPart(c)'
  BY <1>1, <1>2 DEF FinishPart, Finished
<1>7. TagPart(c)'
  BY <1>1, <1>2 DEF TagPart
<1> QED BY <1>3, <1>4, <1>5, <1>6, <1>7, OwnSuffices

LEMMA HandlerKeeps ==
  ASSUME TypeOK, TraceInvariant, NEW c \in Calls, HandlerReturns(c)
  PROVE  TraceInvariant'
<1>1. ContextPart(c) /\ StartPart(c) /\ FinishPart(c) /\ TagPart(c)
  BY DEF TraceInvariant
<1>2. /\ server[c] = "handling"
      /\ server'[c] = IF Traced THEN "finish" ELSE "done"
      /\ cfg' = cfg /\ md' = md /\ wire' = wire /\ ref' = ref /\ ctx' = ctx
      /\ client' = client /\ gaveUp' = gaveUp /\ (Traced <=> Traced')
      /\ \A d \in Calls : d # c => server'[d] = server[d]
  BY DEF HandlerReturns, TypeOK, Traced, CallsInterceptor
<1>3. /\ \A d \in Calls : d # c => err'[d] = err[d]
      /\ \A t \in Spans : t # Server(c) => span'[t] = span[t]
      /\ span'[Server(c)].started = span[Server(c)].started
      /\ span'[Server(c)].parent = span[Server(c)].parent
      /\ span'[Server(c)].finishes = span[Server(c)].finishes
      /\ ~Traced => span' = span
      /\ Traced /\ span[Server(c)].tags = Untagged =>
           span'[Server(c)].tags = Tagged(err'[c], FALSE)
  BY TagServerEffect
<1>4. span'[Client(c)] = span[Client(c)]
  BY <1>3, SpanNames
<1>5. StepOf(c)
  BY <1>2, <1>3, SpanNames DEF StepOf, Handled
<1>6. ContextPart(c)'
  BY <1>1, <1>2 DEF ContextPart, Past
<1>7. StartPart(c)'
  <2>1. Origin[c] # App /\ Handled(Origin[c]) => Handled(Origin[c])'
    BY <1>5, OriginAssumption DEF StepOf
  <2>2. (Started(Client(c))' <=> Started(Client(c)))
        /\ (Started(Server(c))' <=> Started(Server(c)))
    BY <1>3, <1>4 DEF Started
  <2>3. Handled(c) /\ Handled(c)'
    BY <1>2 DEF Handled
  <2> QED BY <1>1, <1>2, <1>3, <1>4, <2>1, <2>2, <2>3 DEF StartPart
<1>8. FinishPart(c)'
  BY <1>1, <1>2, <1>3, <1>4 DEF FinishPart, Finished
<1>9. TagPart(c)'
  <2>1. span[Server(c)].tags = Untagged
    BY <1>1, <1>2 DEF TagPart
  <2>2. ~(client'[c] \in {"finish", "done"} /\ ~gaveUp'[c])
    BY <1>1, <1>2 DEF FinishPart
  <2>3. span'[Server(c)].tags =
          IF Traced THEN Tagged(err'[c], FALSE) ELSE Untagged
    BY <1>3, <2>1
  <2> QED BY <1>1, <1>2, <1>4, <2>2, <2>3 DEF TagPart
<1> QED BY <1>5, <1>6, <1>7, <1>8, <1>9, OwnSuffices

LEMMA FinishServerKeeps ==
  ASSUME TypeOK, TraceInvariant, NEW c \in Calls, FinishServerSpan(c)
  PROVE  TraceInvariant'
<1>1. ContextPart(c) /\ StartPart(c) /\ FinishPart(c) /\ TagPart(c)
  BY DEF TraceInvariant
<1>2. /\ server[c] = "finish" /\ server'[c] = "done"
      /\ cfg' = cfg /\ md' = md /\ wire' = wire /\ ref' = ref /\ ctx' = ctx
      /\ client' = client /\ err' = err /\ gaveUp' = gaveUp
      /\ (Traced <=> Traced')
      /\ \A d \in Calls : d # c => server'[d] = server[d]
  BY DEF FinishServerSpan, TypeOK, Traced, CallsInterceptor
<1>3. /\ \A t \in Spans : t # Server(c) => span'[t] = span[t]
      /\ span'[Server(c)].started = span[Server(c)].started
      /\ span'[Server(c)].parent = span[Server(c)].parent
      /\ span'[Server(c)].tags = span[Server(c)].tags
      /\ span'[Server(c)].finishes = span[Server(c)].finishes + 1
  BY FinishEffect, SpanNames DEF FinishServerSpan
<1>4. span'[Client(c)] = span[Client(c)]
  BY <1>3, SpanNames
<1>5. StepOf(c)
  BY <1>2, <1>3, SpanNames DEF StepOf, Handled
<1>6. ContextPart(c)'
  BY <1>1, <1>2 DEF ContextPart, Past
<1>7. StartPart(c)'
  <2>1. Origin[c] # App /\ Handled(Origin[c]) => Handled(Origin[c])'
    BY <1>5, OriginAssumption DEF StepOf
  <2>2. (Started(Client(c))' <=> Started(Client(c)))
        /\ (Started(Server(c))' <=> Started(Server(c)))
    BY <1>3, <1>4 DEF Started
  <2>3. Handled(c) /\ Handled(c)'
    BY <1>2 DEF Handled
  <2> QED BY <1>1, <1>2, <1>3, <1>4, <2>1, <2>2, <2>3 DEF StartPart
<1>8. FinishPart(c)'
  BY <1>1, <1>2, <1>3, <1>4 DEF FinishPart, Finished
<1>9. TagPart(c)'
  BY <1>1, <1>2, <1>3, <1>4 DEF TagPart, StatusOf
<1> QED BY <1>5, <1>6, <1>7, <1>8, <1>9, OwnSuffices

LEMMA NextTrace == TypeOK /\ TraceInvariant /\ [Next]_vars => TraceInvariant'
<1> SUFFICES ASSUME TypeOK, TraceInvariant, [Next]_vars PROVE TraceInvariant'
  OBVIOUS
<1>1. CASE UNCHANGED vars
  <2> SUFFICES ASSUME NEW c \in Calls
               PROVE  (ContextPart(c) /\ StartPart(c) /\ FinishPart(c)
                       /\ TagPart(c))'
    BY DEF TraceInvariant
  <2>1. ContextPart(c) /\ StartPart(c) /\ FinishPart(c) /\ TagPart(c)
    BY DEF TraceInvariant
  <2>2. ContextPart(c)' /\ FinishPart(c)'
    BY <1>1, <2>1 DEF vars, ContextPart, FinishPart, Past, Finished, Traced,
       CallsInterceptor
  <2>3. StartPart(c)'
    BY <1>1, <2>1 DEF vars, StartPart, Started, Handled, Traced, CallsInterceptor
  <2>4. TagPart(c)'
    BY <1>1, <2>1 DEF vars, TagPart, Traced, CallsInterceptor
  <2> QED BY <2>2, <2>3, <2>4
<1>2. CASE Next
  BY <1>2, ExcludeKeeps, StartClientKeeps, InjectKeeps, SendKeeps, AnswerKeeps,
     FinishClientKeeps, ServeKeeps, EmbedKeeps, HandlerKeeps, FinishServerKeeps
     DEF Next, ClientStep, ServerStep
<1> QED BY <1>1, <1>2

-------------------------------------------------------------------------------
(* The theorems.                                                           *)

(* The invariant holds of every behaviour, for calls nested in any way:    *)
(* what the interceptors put on the wire, which spans they start and how   *)
(* they tag and finish them (client_interceptor.go:39-80,                  *)
(* server_interceptor.go:38-125).                                          *)
THEOREM TraceCorrect == Spec => []InductiveInvariant
<1>1. Init => InductiveInvariant
  BY InitTyped, InitTrace DEF InductiveInvariant
<1>2. InductiveInvariant /\ [Next]_vars => InductiveInvariant'
  BY NextTyped, NextTrace DEF InductiveInvariant
<1> QED BY <1>1, <1>2, PTL DEF Spec

(* The interceptors keep the types of what they share: metadata, spans and *)
(* the state of either side of a call.                                     *)
THEOREM TypeCorrect == Spec => []TypeOK
BY TraceCorrect, PTL DEF InductiveInvariant

(* The parent of a server span is the client span of its own call          *)
(* (injectSpanContext works on a copy, extractSpanContext reads the value  *)
(* added last).                                                            *)
THEOREM ChildOfItsCall == Spec => []ServerSpanChildOfItsCall
<1>1. TypeOK /\ TraceInvariant => ServerSpanChildOfItsCall
  BY DEF TraceInvariant, StartPart, ServerSpanChildOfItsCall
<1> QED BY <1>1, TraceCorrect, PTL DEF InductiveInvariant

(* A call made in a handler continues the trace of the request being       *)
(* handled, back to that request's client span: the handler runs with the  *)
(* context ContextWithSpan has made, and the metadata of the request ends  *)
(* in its own span.                                                        *)
THEOREM NestedContinues == Spec => []NestedCallContinuesTrace
<1>1. TypeOK /\ TraceInvariant => NestedCallContinuesTrace
  <2> SUFFICES ASSUME TypeOK, TraceInvariant, NEW c \in Calls,
                      Origin[c] # App, Traced, Started(Client(c))
               PROVE  /\ span[Client(c)].parent = Server(Origin[c])
                      /\ Started(Server(Origin[c]))
                      /\ span[Server(Origin[c])].parent = Client(Origin[c])
                      /\ Started(Client(Origin[c]))
    BY DEF NestedCallContinuesTrace
  <2> DEFINE o == Origin[c]
  <2>1. o \in Calls
    BY OriginAssumption
  <2>2. StartPart(c) /\ StartPart(o) /\ ContextPart(o)
    BY <2>1 DEF TraceInvariant
  <2>3. span[Client(c)].parent = Server(o) /\ Handled(o) /\ cfg.client
    BY <2>2 DEF StartPart
  <2>4. Started(Server(o)) /\ client[o] # "idle"
    BY <2>2, <2>3 DEF StartPart, ContextPart, Handled, Past
  <2> QED BY <2>2, <2>3, <2>4 DEF StartPart
<1> QED BY <1>1, TraceCorrect, PTL DEF InductiveInvariant

(* The server interceptor's deferred Finish runs exactly once, before a    *)
(* client that did not give up goes on.                                    *)
THEOREM EndsFirst == Spec => []ServerSpanEndsFirst
<1>1. TypeOK /\ TraceInvariant => ServerSpanEndsFirst
  BY DEF TraceInvariant, FinishPart, ServerSpanEndsFirst
<1> QED BY <1>1, TraceCorrect, PTL DEF InductiveInvariant

(* An error tag on the server's span is on the client's too, with the same *)
(* code: only a status error tags the server's span, and a status arrives  *)
(* unchanged.                                                              *)
THEOREM ErrorReaches == Spec => []ErrorReachesClientSpan
<1>1. TypeOK /\ TraceInvariant => ErrorReachesClientSpan
  <2> SUFFICES ASSUME TypeOK, TraceInvariant, NEW c \in Calls,
                      span[Server(c)].tags.error, Finished(Client(c)),
                      ~gaveUp[c]
               PROVE  /\ span[Client(c)].tags.error
                      /\ span[Client(c)].tags.code = span[Server(c)].tags.code
    BY DEF ErrorReachesClientSpan
  <2>1. FinishPart(c) /\ TagPart(c) /\ err[c] \in Errors
    BY DEF TraceInvariant, TypeOK
  <2>2. client[c] = "done" /\ cfg.client
    BY <2>1 DEF FinishPart
  <2>3. span[Client(c)].tags = Tagged(StatusOf(err[c]), TRUE)
    BY <2>1, <2>2 DEF TagPart
  <2>4. span[Server(c)].tags = Tagged(err[c], FALSE)
    <3>1. Untagged.error = FALSE
      BY DEF Untagged
    <3> QED BY <2>1, <3>1 DEF TagPart
  <2> QED BY <2>1, <2>3, <2>4, ErrorSeenByBoth
<1> QED BY <1>1, TraceCorrect, PTL DEF InductiveInvariant

===============================================================================
