--------------------------- MODULE TracePropagation ---------------------------
(***************************************************************************)
(* How a trace travels with unary RPCs: the client interceptor starts a    *)
(* span and injects its context into the outgoing metadata, the server     *)
(* interceptor extracts it, starts a child and hands it to the handler,    *)
(* which may make calls of its own (pkg/tracing/client_interceptor.go and  *)
(* server_interceptor.go). The stream interceptor of the server takes the  *)
(* same steps. Calls of one application may share a context, so they share *)
(* its metadata too. The tracer, the metadata store and the transport are  *)
(* external; so is the span decorator, which changes nothing seen here.    *)
(***************************************************************************)
EXTENDS SpanTags, Naturals, Sequences

CONSTANTS
  Calls,   \* the RPCs
  App,     \* the application whose context the outermost calls share
  Origin   \* who makes a call: App, or the call in whose handler it is made

ASSUME OriginAssumption ==
  /\ App \notin Calls
  /\ Origin \in [Calls -> Calls \cup {App}]

Client(c) == <<"client", c>>
Server(c) == <<"server", c>>
AppSpan == <<"app", App>>
Upstream == <<"upstream", App>>   \* a context already in App's metadata
NoSpan == <<"none", App>>

Spans == {Client(c) : c \in Calls} \cup {Server(c) : c \in Calls}
Contexts == Spans \cup {AppSpan, Upstream}
Parents == Contexts \cup {NoSpan}

VARIABLES
  cfg,       \* how the two sides are set up
  ctx,       \* the span in the context of App or of a call's handler
  md,        \* metadata objects: span contexts in the order they were added
  ref,       \* per call: the metadata object of its outgoing context
  wire,      \* per call: the metadata the server receives
  span,      \* started spans: parent, tags and how often finished
  client,    \* per call: where its client interceptor is
  server,    \* per call: where its server interceptor is
  err,       \* per call: the error of the handler
  gaveUp     \* per call: did the client stop waiting for the answer?

vars == <<cfg, ctx, md, ref, wire, span, client, server, err, gaveUp>>

(* Outcomes of a handler: success, an error of each class that fails, and  *)
(* a plain Go error.                                                       *)
HandlerErrors == {NoError, "NotFound", "Internal", "io.EOF"}

(* Does either side's interceptor include the calls, is the service a      *)
(* generated one, and does a handler forward its metadata?                 *)
Configs == [client: BOOLEAN, server: BOOLEAN, generated: BOOLEAN,
            forward: BOOLEAN]

SpanRecord == [started: BOOLEAN, parent: Parents, tags: Tags, finishes: Nat]

TypeOK ==
  /\ cfg \in Configs
  /\ ctx \in [Calls \cup {App} -> Parents]
  /\ md \in [Calls \cup {App} -> Seq(Contexts)]
  /\ ref \in [Calls -> Calls \cup {App}]
  /\ wire \in [Calls -> Seq(Contexts)]
  /\ span \in [Spans -> SpanRecord]
  /\ client \in [Calls -> {"idle", "inject", "send", "waiting", "finish",
                           "done"}]
  /\ server \in [Calls -> {"idle", "embed", "handling", "finish", "done"}]
  /\ err \in [Calls -> Errors]
  /\ gaveUp \in [Calls -> BOOLEAN]

Init ==
  /\ cfg \in Configs
  /\ \E s \in {AppSpan, NoSpan} :
       ctx = [o \in Calls \cup {App} |-> IF o = App THEN s ELSE NoSpan]
  /\ \E first \in {<<>>, <<Upstream>>} :
       md = [o \in Calls \cup {App} |-> IF o = App THEN first ELSE <<>>]
  /\ ref = [c \in Calls |-> c]
  /\ wire = [c \in Calls |-> <<>>]
  /\ span = [s \in Spans |-> [started |-> FALSE, parent |-> NoSpan,
                              tags |-> Untagged, finishes |-> 0]]
  /\ client = [c \in Calls |-> "idle"]
  /\ server = [c \in Calls |-> "idle"]
  /\ err = [c \in Calls |-> NoError]
  /\ gaveUp = [c \in Calls |-> FALSE]

-------------------------------------------------------------------------------
(* gRPC gives the handler of a unary method the server's interceptor to    *)
(* call: a generated handler does, that of createGrpcDesc does not.        *)
CallsInterceptor == cfg.generated

Traced == cfg.server /\ CallsInterceptor

StartSpan(s, parent) ==
  span' = [span EXCEPT ![s].started = TRUE, ![s].parent = parent]

FinishSpan(s) == span' = [span EXCEPT ![s].finishes = @ + 1]

(* A call is made with the context of the application, or with the one its *)
(* handler was given.                                                      *)
MayBegin(c) == Origin[c] # App => server[Origin[c]] = "handling"

SpanFromContext(c) == ctx[Origin[c]]

(* A handler has no outgoing metadata unless it forwards what came in.     *)
FromOutgoingContext(c) ==
  IF Origin[c] = App THEN md[App]
  ELSE IF cfg.forward THEN wire[Origin[c]]
  ELSE <<>>

(* metadataReaderWriter: Set appends to the values of the key, ForeachKey  *)
(* hands over every value in turn, so that a reader keeps the last.        *)
Set(values, context) == Append(values, context)

ForeachKey(values) == IF values = <<>> THEN NoSpan ELSE values[Len(values)]

-------------------------------------------------------------------------------
(* OpenTracingClientInterceptor *)

Exclude(c) ==
  /\ client[c] = "idle" /\ MayBegin(c) /\ ~cfg.client
  /\ client' = [client EXCEPT ![c] = "waiting"]
  /\ wire' = [wire EXCEPT ![c] = FromOutgoingContext(c)]
  /\ UNCHANGED <<cfg, ctx, md, ref, span, server, err, gaveUp>>

StartClientSpan(c) ==
  /\ client[c] = "idle" /\ MayBegin(c) /\ cfg.client
  /\ client' = [client EXCEPT ![c] = "inject"]
  /\ StartSpan(Client(c), SpanFromContext(c))
  /\ UNCHANGED <<cfg, ctx, md, ref, wire, server, err, gaveUp>>

InjectsInPlace(c) ==
  LET object == IF Origin[c] = App THEN App ELSE c
  IN /\ client[c] = "inject"
     /\ client' = [client EXCEPT ![c] = "send"]
     /\ md' = [md EXCEPT ![object] = Set(FromOutgoingContext(c), Client(c))]
     /\ ref' = [ref EXCEPT ![c] = object]
     /\ UNCHANGED <<cfg, ctx, wire, span, server, err, gaveUp>>

(* injectSpanContext: into a copy. *)
InjectSpanContext(c) ==
  /\ client[c] = "inject"
  /\ client' = [client EXCEPT ![c] = "send"]
  /\ md' = [md EXCEPT ![c] = Set(FromOutgoingContext(c), Client(c))]
  /\ ref' = [ref EXCEPT ![c] = c]
  /\ UNCHANGED <<cfg, ctx, wire, span, server, err, gaveUp>>

(* invoker(ctx, ...): the request leaves with the context's metadata. *)
Send(c) ==
  /\ client[c] = "send"
  /\ client' = [client EXCEPT ![c] = "waiting"]
  /\ wire' = [wire EXCEPT ![c] = md[ref[c]]]
  /\ UNCHANGED <<cfg, ctx, md, ref, span, server, err, gaveUp>>

LogsWithoutTags(c, e) ==
  /\ client' = [client EXCEPT ![c] = IF cfg.client THEN "finish" ELSE "done"]
  /\ span' = IF cfg.client /\ e # NoError
             THEN [span EXCEPT ![Client(c)].tags = LogError(@)]
             ELSE span

(* The invoker returns the status e. *)
TagClientSpan(c, e) ==
  /\ client' = [client EXCEPT ![c] = IF cfg.client THEN "finish" ELSE "done"]
  /\ span' = IF cfg.client /\ e # NoError
             THEN [span EXCEPT ![Client(c)].tags =
                                  LogError(SetSpanTags(@, e, TRUE))]
             ELSE span

(* External: the status on the wire. A plain error arrives as Unknown. *)
StatusOf(e) == IF e = NoError THEN NoError ELSE CodeOf(e)

Answered(c) ==
  /\ client[c] = "waiting" /\ server[c] = "done"
  /\ TagClientSpan(c, StatusOf(err[c]))
  /\ UNCHANGED <<cfg, ctx, md, ref, wire, server, err, gaveUp>>

(* The call's context ends first. *)
GiveUp(c) ==
  /\ client[c] = "waiting"
  /\ \E e \in {"Canceled", "DeadlineExceeded"} :
       TagClientSpan(c, e)
  /\ gaveUp' = [gaveUp EXCEPT ![c] = TRUE]
  /\ UNCHANGED <<cfg, ctx, md, ref, wire, server, err>>

FinishClientSpan(c) ==
  /\ client[c] = "finish"
  /\ client' = [client EXCEPT ![c] = "done"]
  /\ FinishSpan(Client(c))
  /\ UNCHANGED <<cfg, ctx, md, ref, wire, server, err, gaveUp>>

-------------------------------------------------------------------------------
(* OpenTracingServerInterceptor and OpenTracingStreamServerInterceptor. A  *)
(* request may arrive after its client has given up.                       *)

ExtractSpanContext(c) == ForeachKey(wire[c])

ServeCall(c) ==
  /\ server[c] = "idle" /\ client[c] \in {"waiting", "finish", "done"}
  /\ server' = [server EXCEPT ![c] = IF Traced THEN "embed" ELSE "handling"]
  /\ IF Traced THEN StartSpan(Server(c), ExtractSpanContext(c))
     ELSE UNCHANGED span
  /\ UNCHANGED <<cfg, ctx, md, ref, wire, client, err, gaveUp>>

HandlesWithOwnContext(c) ==
  /\ server[c] = "embed"
  /\ server' = [server EXCEPT ![c] = "handling"]
  /\ UNCHANGED <<cfg, ctx, md, ref, wire, span, client, err, gaveUp>>

(* ContextWithSpan, of the request or behind the stream's Context(), and   *)
(* the handler is called with that context.                                *)
ContextWithSpan(c) ==
  /\ server[c] = "embed"
  /\ ctx' = [ctx EXCEPT ![c] = Server(c)]
  /\ server' = [server EXCEPT ![c] = "handling"]
  /\ UNCHANGED <<cfg, md, ref, wire, span, client, err, gaveUp>>

AnswersBeforeFinish(c) ==
  /\ server[c] = "handling"
  /\ \A n \in Calls : Origin[n] = c => client[n] \in {"idle", "done"}
  /\ server' = [server EXCEPT ![c] = "done"]
  /\ \E e \in HandlerErrors : err' = [err EXCEPT ![c] = e]
  /\ UNCHANGED <<cfg, ctx, md, ref, wire, span, client, gaveUp>>

(* The handler returns, once the calls it makes have. *)
HandlerReturns(c) ==
  /\ server[c] = "handling"
  /\ \A n \in Calls : Origin[n] = c => client[n] \in {"idle", "done"}
  /\ server' = [server EXCEPT ![c] = IF Traced THEN "finish" ELSE "done"]
  /\ \E e \in HandlerErrors :
       /\ err' = [err EXCEPT ![c] = e]
       /\ span' = IF Traced /\ e # NoError
                  THEN [span EXCEPT ![Server(c)].tags =
                                       LogError(SetSpanTags(@, e, FALSE))]
                  ELSE span
  /\ UNCHANGED <<cfg, ctx, md, ref, wire, client, gaveUp>>

(* The deferred Finish runs before gRPC sends the answer. *)
FinishServerSpan(c) ==
  /\ server[c] = "finish"
  /\ server' = [server EXCEPT ![c] = "done"]
  /\ FinishSpan(Server(c))
  /\ UNCHANGED <<cfg, ctx, md, ref, wire, client, err, gaveUp>>

-------------------------------------------------------------------------------
ClientStep(c) == \/ Exclude(c) \/ StartClientSpan(c) \/ InjectSpanContext(c)
                 \/ Send(c) \/ Answered(c) \/ FinishClientSpan(c)

ServerStep(c) == ContextWithSpan(c) \/ HandlerReturns(c) \/ FinishServerSpan(c)

Next == \E c \in Calls : \/ ClientStep(c) \/ GiveUp(c)
                         \/ ServeCall(c) \/ ServerStep(c)

Spec == Init /\ [][Next]_vars

-------------------------------------------------------------------------------
Started(s) == span[s].started
Finished(s) == span[s].finishes > 0

(* "if found, the server span will act as the ChildOf that RPC             *)
(* SpanContext" (server_interceptor.go:28-30): the parent of a server span *)
(* is the client span of its own call, whatever context the metadata       *)
(* carried before and whatever other calls share it.                       *)
ServerSpanChildOfItsCall ==
  \A c \in Calls : cfg.client /\ Started(Server(c)) =>
    span[Server(c)].parent = Client(c)

(* A trace crosses a server that calls its interceptor unbroken: the span  *)
(* of a call made in a handler is the child of the server span of the      *)
(* request being handled, which the context has carried there, and that of *)
(* the client span of that request, which the metadata has                 *)
(* (server_interceptor.go:44-60, 117-120, client_interceptor.go:45-62).    *)
NestedCallContinuesTrace ==
  \A c \in Calls : LET o == Origin[c] IN
    o # App /\ Traced /\ Started(Client(c)) =>
      /\ span[Client(c)].parent = Server(o) /\ Started(Server(o))
      /\ span[Server(o)].parent = Client(o) /\ Started(Client(o))

(* A server span is finished before the client can see the answer, so the  *)
(* child ends before its parent unless the client gave up                  *)
(* (server_interceptor.go:58, 116).                                        *)
ServerSpanEndsFirst ==
  \A c \in Calls :
    Traced /\ client[c] \in {"finish", "done"} /\ ~gaveUp[c] =>
      span[Server(c)].finishes = 1

(* A failure that marks the server's span marks the client's too, with the *)
(* same code, if the client saw the answer (client_interceptor.go:68-71,   *)
(* server_interceptor.go:69-72).                                           *)
ErrorReachesClientSpan ==
  \A c \in Calls :
    span[Server(c)].tags.error /\ Finished(Client(c)) /\ ~gaveUp[c] =>
      /\ span[Client(c)].tags.error
      /\ span[Client(c)].tags.code = span[Server(c)].tags.code

(* What these rest on, for every call. *)

Past(c) == client[c] \in {"waiting", "finish", "done"}

(* The context that leaves with a request is the call's own. *)
ContextPart(c) ==
  /\ ref[c] = c
  /\ client[c] \in {"inject", "send", "finish"} => cfg.client
  /\ client[c] = "send" => ForeachKey(md[c]) = Client(c)
  /\ Past(c) /\ cfg.client => ForeachKey(wire[c]) = Client(c)
  /\ server[c] # "idle" => Past(c)

Handled(c) == server[c] \in {"handling", "finish", "done"}

(* Spans start with the interceptors, with the parent that is there.       *)
StartPart(c) ==
  /\ server[c] = "embed" => Traced
  /\ ctx[c] = IF Traced /\ Handled(c) THEN Server(c) ELSE NoSpan
  /\ Started(Client(c)) <=> cfg.client /\ client[c] # "idle"
  /\ Started(Client(c)) /\ Origin[c] # App => Handled(Origin[c])
  /\ Started(Client(c)) /\ Origin[c] # App /\ Traced =>
       span[Client(c)].parent = Server(Origin[c])
  /\ Started(Server(c)) <=> Traced /\ server[c] # "idle"
  /\ Started(Server(c)) /\ cfg.client => span[Server(c)].parent = Client(c)

(* The server's span ends before the answer, the client's after it. *)
FinishPart(c) ==
  /\ server[c] = "finish" => Traced
  /\ span[Server(c)].finishes = IF Traced /\ server[c] = "done" THEN 1 ELSE 0
  /\ Finished(Client(c)) => client[c] = "done" /\ cfg.client
  /\ client[c] \in {"finish", "done"} /\ ~gaveUp[c] => server[c] = "done"

(* Tags are those of the handler's error, on either side. *)
Tagged(e, isClient) ==
  IF e = NoError THEN Untagged
  ELSE LogError(SetSpanTags(Untagged, e, isClient))

TagPart(c) ==
  /\ span[Server(c)].tags =
       IF Traced /\ server[c] \in {"finish", "done"} THEN Tagged(err[c], FALSE)
       ELSE Untagged
  /\ client[c] \notin {"finish", "done"} => span[Client(c)].tags = Untagged
  /\ client[c] \in {"finish", "done"} /\ cfg.client /\ ~gaveUp[c] =>
       span[Client(c)].tags = Tagged(StatusOf(err[c]), TRUE)

(* Contexts, spans and tags of a call are those of the call itself and of  *)
(* the one it is nested in, whatever other calls do meanwhile              *)
(* (client_interceptor.go:39-80, server_interceptor.go:38-125).            *)
TraceInvariant ==
  \A c \in Calls : ContextPart(c) /\ StartPart(c) /\ FinishPart(c) /\ TagPart(c)

(* Metadata, spans and tags of every call are well typed and in step, at   *)
(* every point of either interceptor, client that gave up included         *)
(* (client_interceptor.go:39-80, server_interceptor.go:38-125).            *)
InductiveInvariant == TypeOK /\ TraceInvariant

-------------------------------------------------------------------------------
(* A property the documentation states and the code does not have: "Root   *)
(* or not, the server Span will be embedded in the context.Context for the *)
(* application-specific gRPC handler(s) to access"                         *)
(* (server_interceptor.go:32-33), so that no handler of a server with this *)
(* interceptor runs without its span; createGrpcDesc's handlers do.        *)
HandlerHasServerSpan ==
  \A c \in Calls : cfg.server /\ server[c] = "handling" => ctx[c] = Server(c)

===============================================================================
