# A TLA+ model of dubbogo/triple

`triple` is the transport of dubbo-go: a thin layer over (dubbogo's fork of)
gRPC that exposes a map of services on one address, invokes methods of a remote
service through a generated stub or through a serialization codec, and traces
both sides with OpenTracing. This directory holds its specification, the TLC
configurations that check it on small instances and the TLAPS proofs of what
holds for every instance. Line numbers refer to `src/`.

## The system

| Part | State | Operations | Talks to |
|---|---|---|---|
| `TripleServer` (`pkg/triple/dubbo3_server.go`) | `lst`, `grpcServer`, `rpcServiceMap` (the application's), `registeredKey`, the generated descriptors it renames | `NewTripleServer`, `Start`, `RefreshService`, `Stop` | application goroutines; a `Serve` goroutine per gRPC server; the OS for the port |
| `TripleClient` (`dubbo3_client.go`), `TripleConn` (`dubbo3_conn.go`) | the stub or `triplConn`, `grpcConn`, a context per call | `NewTripleClient`, `Invoke`, `Close`, `IsAvailable`, `NewStream` | callers' goroutines; the reflection goroutine of each call; the server |
| Client stream tracing (`pkg/tracing/client_interceptor.go`) | the span, `isFinished`, `finishChan` | the stream interceptor, `Header`, `SendMsg`, `RecvMsg`, `CloseSend`, watcher, finalizer | up to four kinds of goroutine that may end the span |
| Unary and server tracing (`client_interceptor.go`, `server_interceptor.go`) | spans, metadata of the contexts | client and server interceptors, `injectSpanContext`, `extractSpanContext`, `SetSpanTags`, `ErrorClass` | the metadata that crosses the wire |
| Options (`pkg/config/config.go`) | `Option` | `With...`, `Validate`, `NewTripleOption` | read by server and client when they are built |
| Codec registry (`pkg/common/codec.go`) | two global maps | `SetTripleCodec`, `GetTripleCodec`, `GetCodecInWrapperName` | read by every `Invoke` and by each server that is built |
| Generic invocation (`createGrpcDesc`, `GenericCodec`) | none | handler of `InvokeWithArgs` | the user's `TripleUnaryService`; the server's codec |
| Generated stubs (`example/dubbo/proto/helloworld_triple.pb.go`) | none | the stub's calls, the handlers of a service, its descriptor | `TripleConn`; the interceptor gRPC hands to a handler |
| TLS credentials (`getServerTlsCertificate`, `getClientTlsCertificate`) | three files | which credentials a side uses | read when a server or a client is built |
| Logger, Jaeger set-up, service interfaces, examples | none of their own | | |

What is hard to get right, and hard to test:

* **Concurrency without locks.** `finishFunc` is called by the application, by
  the watcher and by the garbage collector; `TripleServer` has no lock at all,
  renames descriptors that several services share, and leaves `Serve` goroutines
  that may start after the server they serve was stopped.
* **Failure.** `net.Listen` in `RefreshService`, the dial in `newTripleConn` and
  `ReflectResponse` have their errors dropped; a server may answer late, with an
  error, or never.
* **Ordering and time.** A call's timeout races its answer, the caller's
  cancellation and `Close`; gRPC cancels the context of a stream that has ended
  well, which wakes the watcher.
* **Two sides that decide on their own.** A server resolves its codec once, when
  it is built, a client at every call; both read the TLS files, each with its own
  rules; a handler may call the server's interceptor or not.
* **Change under way.** A server is refreshed while calls are queued, on the wire
  or running; gRPC repeats a request the server has not seen; unary calls have a
  timeout, streams have none.
* **Long sequences of calls.** Refresh after refresh, stop and refresh, store
  and refresh: the listener, the gRPC server and the descriptors must stay in
  step.

`PROJECT.json` lists each of these at its line with the properties that watch it.

## Modules

| Module | Models | Checked by |
|---|---|---|
| `SpanTags` | `ErrorClass`, `SetSpanTags`: from an error to a span's tags | used by the three below |
| `SpanLifecycle` | abstract: what every traced RPC promises of its span | `ImplementsLifecycle` |
| `ClientStream` | the traced client stream | `MCClientStream`, `ClientStreamProofs` |
| `TracePropagation` | unary interceptors of both sides, metadata, nested calls | `MCTracePropagation`, `TracePropagationProofs` |
| `ServiceEndpoint` | abstract: what a server promises to those who use its address | `ImplementsEndpoint` |
| `TripleServer` | `Start`, `RefreshService`, `Stop`, `Serve` goroutines | `MCTripleServer`, three proof modules |
| `TripleClient` | client, connection, calls of `Invoke`, `Close` | `MCTripleClient`, `TripleClientProofs` |
| `RemoteCall` | abstract: what a caller may rely on, at most one execution | `ImplementsRemoteCall` |
| `TripleCall` | client and server together: codecs, stubs, handlers, streams, over a `ServiceEndpoint` | `MCTripleCall`, `TripleCallProofs` |
| `TripleOption` | options and what becomes of them, credentials and tracer included | `MCTripleOption`, `TripleOptionProofs` |
| `ClientStreamProofs`, `TracePropagationProofs`, `TripleClientProofs`, `TripleCallProofs`, `TripleOptionProofs` | theorems about the module of that name | TLAPS |
| `TripleServerProofs`, `TripleServerSerialProofs`, `TripleServerEndpointProofs` | theorems about `TripleServer`: calls that overlap; serialized calls; the refinement. Each extends the one before | TLAPS |

Definitions whose comment begins with "External" stand for gRPC, Go's runtime,
the operating system or the application, modelled from how the code uses them.
An operator that stands directly before an action, takes the same parameters and
is used nowhere is a deliberately wrong variant of that action (a dropped guard,
a missing reset); putting it in the action's place must break a property, and
`PROJECT.json` says which (`mutants`).

### ClientStream

One stream, one span. `pc[t]` says where goroutine `t` is: `Callers` are the
application's, `Watcher` is the goroutine of lines 156-164, `Finalizer` the
collector's (177-179). `finishFunc` (138-155) is split where another goroutine
could see the difference: the compare-and-swap (`CompareAndSwap`), the close of
`finishChan` (`CloseFinishChan`; closing it twice is a panic and shows as
`pc = "panicked"`), the tags (`RecordError`), the decorator (`Decorate`), the
deferred `Finish` (`FinishSpan`). A method of the wrapper is two steps: `Call`
enters the gRPC stream's method; the action named like the method is its return
and what the wrapper does with the result.

External: `rpc` is the status the RPC ended with, `ctxErr` the error of the
stream's context. gRPC cancels that context when an RPC ends
(`StreamEnds`), and the caller's own cancellation or deadline ends the RPC
(`ContextDone`). The wrapper is garbage once the application has dropped it and
no goroutine is inside a method of the stream underneath.

### TracePropagation

A set of unary `Calls`; `Origin[c]` says whether `c` is made by the application,
whose context (and metadata object `md[App]`) all its calls share, or by the
handler of another call. A metadata object is the sequence of span contexts
under the tracer's key: `Set` appends, `ForeachKey` hands over every value and
the last one stays. `wire[c]` is what the server receives. `ctx[o]` is the span
in the context of the application or of a call's handler: the client's interceptor
reads its parent from there (`SpanFromContext`), and between starting its span and
calling the handler the server's interceptor puts it there (`ContextWithSpan`). A
handler may forward its metadata or not (`cfg.forward`), and either side may exclude calls from
tracing. gRPC hands the server's interceptor to the handler of a unary method:
the generated handlers call it, the one of `createGrpcDesc` does not
(`CallsInterceptor`), so that its calls have no server span. The server's stream
interceptor takes the same steps as its unary one and shares the actions. Logging of payloads, the decorator and a tracer whose
`Inject` fails are left out.

### TripleServer

A call of `Start` or `RefreshService` builds one gRPC server and at most one
listener; both are named by the call's generation `g`, and `obj[g]` holds the
server's state, its registrations `<<name, key>>`, whether it has a connection,
its listener and its `Serve` goroutine. `lst` and `grpcServer` are the two
fields, `call[c]` is the call that goroutine `c` is in. `Range` visits every
stored key once, in any order. The descriptor of a `TripleGrpcService` is shared
and renamed without a lock, so its registration is three steps: the assignment of
`desc.ServiceName` (`VisitGrpc`); gRPC's check that no service has that name yet
(`RegisterService`); and the entry into gRPC's map (`InsertService`), for which gRPC
reads the name again and which replaces what is there (`Register`). Services of
the wrong type are the constant `Misfits`: the unchecked assertions on them panic
(`Fits`). A panic or gRPC's `Fatalf` sets `crashed` and ends the behaviour.

The constant `Serialized` tells whether the application serializes its calls of
`Start`, `RefreshService` and `Stop`. The code has no lock, so what it promises
in full it can only promise to callers who do; the properties that are stated of
serialized calls say so. The other runs let calls overlap and check what
survives. Racing reads of a field or of a descriptor's name see the old or the
new value: keys are taken to have one length, so that a half-written Go string is
one or the other, and a half-written nil interface panics like a nil one.

`ServiceEndpoint` is what all this amounts to for clients: a succession of
generations, at most one of them reachable, each newer than the last, each
offering what was stored when it was asked for, and no client left on an older
one unless `Stop` was called. The refinement mapping (`Endpoint`) takes the
accepting server with an open listener for the current one, the registrations
under a service's own key for its offer, and `obj[g].asked` for what the call that
built `g` saw in the map.

External: gRPC's `Stop` closes every connection and those listeners that `Serve`
has registered; `Serve` on a stopped server closes the listener and returns; a
`nil` listener panics. `net.Listen` fails on an address the process listens on
already, and may fail at any time for reasons from outside (another process, a bad
address, no descriptors left): `Start` panics then, `RefreshService` remembers it in
`refused`.

### TripleClient

One client, goroutines `Calls` that call `Invoke` again and again. The codec
type, and whether the stub is one that returns a plain `error`, are chosen in
`Init`. `pc[c]` goes from `idle` through `rpc` (inside `grpcConn.Invoke`),
`returned` (the stub is back), `wait` (receiving from `errChan`) to `idle`;
`refl[c]` is the reflection goroutine. `Outcomes` lists how `grpcConn.Invoke` can
return: an answer that is there may still lose against an expired context or a
closed connection. A panic of `Invoke` is a result; the model goes on, as a
process whose caller recovers does.

### TripleCall

Calls from a client to a server that is refreshed, stopped or dies meanwhile.
The server is an instance of `ServiceEndpoint`, whose steps this module takes with
what they mean for calls: a generation that is replaced loses its connections
(`LosesConnections`), a process that dies loses its handlers too (`Dies`). What it
adds is the code on both sides: the codec registry (`SetTripleCodec`,
`GetTripleCodec`) and the switch over the codec type (`InnerCodec`), which a
server takes once (`NewGrpcServerWithCodec`, `inner[g]`) and a client in every
`Invoke`; the generated stub (`SayHello`, `SayHelloStream`); and the handlers, as
the set of things that may become of a request (`Verdicts`). Codecs are those of
the two options and independent of each other; which handler runs depends on the
service stored under the key and not on the codec (`rpc[c].service`, chosen anew for
every request, as the map may hold another service by then): `InvokeWithArgs` is
the handler of `createGrpcDesc` with the generic `$invoke`, whose arguments
`GenericCodec` takes for hessian2 whatever codec the server has; `GreeterHandler`
stands for the generated ones. Of a service that is no `Dubbo3GrpcService` the
generated stream handler returns nil without running the method, which is io.EOF
and no message to the client, and the unary ones fail an assertion. A codec that
meets the bytes of another, or a message where it expects arguments, refuses them
or, by chance, reads them; a codec that was never registered is a nil that
panics in the handler's goroutine, and so ends the process. `killer` remembers the
generation that did so, `since` how many generations were built before the codec
was there.

External: gRPC sends a request over a connection it has or makes, fails it at
once when nobody listens, repeats it once if the server cannot have seen it
(`TransparentRetry`), and turns a lost connection into an error. A request whose
caller has given up may still be handled.

### TripleOption

The functions of `NewTripleOption` are applied one at a time, in any order, with
repetitions; `FieldOf` is the table of the field each one writes, taken from its
body (`config.go:120-238`), and `SetterOf` the table of the function each field is
named for, which only the properties use. `Validate` follows; then `newGrpcServerWithCodec` and
`NewTripleClient` translate the options. A value is zero, the default, or one of
`Values`. The TLS fields have no option function; the application writes them
(`ConfigureTLS`), and a file is told by what is behind its name: nothing, no
certificate, or a valid one. A server whose files fail logs the error and goes on
without credentials; a client whose files fail is not made.

## Runs

| Run | Shows | Bounds |
|---|---|---|
| `stream` | `SpanFinishedOnce`, `FinishedSpanFrozen`, `CleanSpanMeansCleanEnd`, refinement of `SpanLifecycle`; the span is finished in the end and the watcher exits | two callers, the concurrency gRPC allows on a stream (one sends, one receives), plus watcher and finalizer: every pair and triple that can race |
| `stream_success` | **violated**: see Findings | one caller is enough |
| `trace` | the span tree is right across calls that share a context and a handler that makes one, errors of both sides agree | two calls that share a context and one made by a handler: sharing and nesting at once |
| `trace_unary` | **violated**: see Findings | the same |
| `server` | the server implements `ServiceEndpoint`; reflection follows the server, no listener leaks; the process dies in a call for the stated reasons only (`CrashesExplained`); a stored service becomes reachable (`RefreshLeadsToServing`) | serialized calls; two keys that share a descriptor, the reflection service, and a unary service of the wrong type; two generations, so that a refresh meets a Serve goroutine, clients, a stop and a failed listen of its predecessor (the safety properties are proved for any number, and for a reflection service of the wrong type too) |
| `server_concurrent` | confusion of keys stays among services of one descriptor (`MixUpsStayInDescriptor`), and so do losses (`LossesStayInDescriptor`); a stopped server takes no client | two overlapping callers; two keys that share a descriptor and a unary service; two generations |
| `server_keys` | **violated**: see Findings | the smallest that shows it |
| `call` | the call implements `RemoteCall`; a missing codec is healed by registration and refresh (`RefreshHealsCodec`); no stream is stranded on a server that gRPC reports gone | one call, a server and its refresh, one service that may be stored late, a custom codec that may be registered late on either side, hessian2 and protobuf, each against each, and every kind of service |
| `client` | `SuccessIsReal`, `NoSuccessAfterClose`, `ReplyStableAfterReturn`; `Invoke` returns, the reflection goroutine ends | two goroutines, three calls, so that one calls again, for every codec type |
| `client_close` | **violated**: see Findings | one call |
| `option` | `LastFunctionWins`, `ClientLimitsHonoured`, `TransportsAgree` | lists of up to three functions: two that set one field and one that could disturb it; every combination of the three TLS files |
| `option_send_limit` | **violated**: see Findings | one function |

Every passing run also checks `InductiveInvariant` of its module: `TypeOK` and the parts the proofs rest on (see Proofs).

`MaxGen`, `MaxCalls` and `MaxFuncs` are the only bounds in guards. They cap how
often the environment calls, never what a call does. Deadlock is not checked: a
finished stream, a crashed process, and a client or server that is not called
again are legitimate ends of a behaviour.

One call is enough in `call`: calls share nothing but the server, whose death and
connections the environment brings about on its own (`Dies(nil)`, the `Connect`
and `Disconnect` of `ServiceEndpoint`), and the registry, which no call writes.
The two greeters of `server_concurrent` differ in nothing but their key, so this
run uses that symmetry; no liveness is checked in it. The other runs use none.

### Fairness

Only goroutines that the Go scheduler will run are fair: a goroutine inside
`finishFunc`, the watcher, a call of `Start`, `RefreshService` or `Invoke` that
has begun, `Serve`, the reflection goroutine. In addition: `RunFinalizer` (the
collector runs in the end, which is what the comment at
`client_interceptor.go:171-176` counts on), in `TripleClient` `Timeout` (time passes,
and `TripleConn.Invoke` sets a timer for every call), and in `TripleCall` the
client's side of gRPC (`ClientStep`: a request that can be sent, refused,
repeated or answered is). Nothing is
assumed of the peer, of the application's calls, of connections or of other
processes.

## Findings

The runs that are expected to fail check one statement each, taken from the
repository's own words.

* `SuccessNotMarkedAsError`: `ErrorClass` puts OK and Canceled in the class 2xx,
  `// Success or "success"` (`server_interceptor.go:275`), but the watcher calls
  `finishFunc` with the plain context error (`client_interceptor.go:162`), and
  `SendMsg` with `io.EOF`. Neither is a status, so the span of such an RPC is
  tagged 0xx and marked as an error.
* `RegisteredUnderOwnKey`: overlapping calls register a service under the key of
  another one that has the same generated descriptor
  (`dubbo3_server.go:265, 289`), or make one replace another: gRPC checks for a
  duplicate with one name and enters the service under the next.
  `MixUpsStayInDescriptor` and `LossesStayInDescriptor` bound the damage;
  `ImplementsEndpoint` shows that serialized calls are safe.
* `HandlerHasServerSpan`: "Root or not, the server Span will be embedded in the
  context.Context for the application-specific gRPC handler(s) to access"
  (`server_interceptor.go:32-33`), but the handler of `createGrpcDesc` ignores the
  interceptor it is given (`dubbo3_server.go:168-195`): services that are not
  generated run without a span on a traced server.
* `CloseDestroysConn`: the connection of a protobuf client is known to its stub
  only, and `Close` does not reach it (`dubbo3_client.go:126, 207-213`).
* `ServerSendLimitHonoured`: the server is built with the call's send limit
  (`dubbo3_server.go:216`).

Met on the way, each visible in one step and left without a run of its own:

* `IsZero` of the zero `reflect.Value` panics, so a protobuf client never returns
  the error of `dubbo3_client.go:140-143` for a method its stub does not have
  (`InvokeUnknownMethod`).
* `IsAvailable` is always true, also after a failed dial and after `Close`
  (`dubbo3_client.go:215-218`).
* `SerializerTypeInWrapper` (`config.go:40`) is read by neither side
  (`dubbo3_server.go:248`, `dubbo3_client.go:202`).
* The error path of a protobuf `Invoke` drops the attachments
  (`dubbo3_client.go:150`), and the error of `ReflectResponse` is ignored (172).
* `RefreshService` or `Stop` before `Start` dereferences nil; `CrashesExplained`
  lists this with the other ways in which serialized calls can end the process.
* `Stop`, documented as "Close Server" (`docs/README.md:99-102`), closes the
  listener only; accepted connections go on being served. `ServiceEndpoint` has
  this as the variable `left`.
* With a tracer the generated handlers bypass the proxy invoker
  (`helloworld_triple.pb.go:192-203`).
* A stream of a generated service that is no `Dubbo3GrpcService` ends without an
  error and without its method having run (`helloworld_triple.pb.go:154-157`).
* A server whose codec is not registered is built all the same
  (`dubbo3_server.go:243-248`) and panics at its first request.
* A CA file without a certificate makes `getServerTlsCertificate` and
  `getClientTlsCertificate` return a nil error with nil credentials
  (`dubbo3_server.go:322`, `dubbo3_client.go:236`).

## Proofs

Each safety property and each refinement that a passing run checks is also a
theorem, for every value of the constants that meets the module's `ASSUME`. The
assumptions say no more than what the constants stand for:

* `ClientStream`: the watcher and the finalizer are not among the callers
  (`CallersAssumption`).
* `TracePropagation`: every call is made by the application or by the handler of
  another call (`OriginAssumption`).
* `TripleServer`: unary keys and misfits are keys, each key has a descriptor, the bound on
  generations is a number, and no key is the name descriptors are generated with
  (`ServerAssumption`).
* `TripleCall`: codec types are built-in ones or the custom one, and the names of the
  registered factories differ from the built-in names and from `none`
  (`CallAssumption`).
* `TripleClient`: the bound is a number (`ClientAssumption`).
* `TripleOption`: the values that stand for zero, the default and "never" are not
  among those an option function sets (`OptionAssumption`).

The bounds of the runs (`MaxGen`, `MaxCalls`, `MaxFuncs`) stay in the guards but
are arbitrary here.

The properties are not inductive as they stand. In every module the conjunction
`InductiveInvariant` is; it consists of `TypeOK` and of the parts below, TLC checks
it on the run of the module, and each proof module shows that `Init` establishes
it and that every action keeps it, one lemma per action or group of like actions,
with the effect of a step stated pointwise first (`BuildEffect`, `RegisterEffect`,
`StepEffect`, `ServingEffect`, `CallMoves`). The theorems follow from it.

### ClientStreamProofs

`StreamCorrect` (the invariant), `FinishedOnce`, `CleanMeansClean`,
`FinishedFrozen`, `Implements` (`SpanLifecycle`).

`SpanFinishedOnce` is not inductive: from a state with two goroutines at
`finish`, both would finish the span. `FinishProtocol` rules such states out. In
a stream that is not open (`Unopened`) no goroutine is at work; in an open one
(`WinnerAlone`) at most one goroutine is past the swap, `isFinished` is 1 if
there is one, the span has not been finished while it is there, and what it has
still to do has not been done. Each action either does not touch what this speaks
of (`OutsideFinish`) or is a step of the winner (`FinishStepProtocol`).
`CleanSpanMeansCleanEnd` needs `CleanEndProtocol` on top: the argument with which a
goroutine is on its way into `finishFunc` is nil only if the RPC has ended OK or
the wrapper is garbage, and the winner past its tags goes by that argument; both
facts are stable, since an RPC ends once and garbage stays garbage. In the
refinement a winner's `RecordError` is the abstract `Annotate`, its `FinishSpan` the
abstract `Finish`, the rest stutters.

### TripleServerProofs, TripleServerSerialProofs, TripleServerEndpointProofs

However calls overlap (`TripleServerProofs`): `MixUpsContained`,
`LossesContained`, `StoppedStaysEmpty`. `ConcurrentInvariant` says that a call has a
generation of its own (`GenerationPart`), a descriptor is named only after
services that use it (`NamePart`), what `Range` has visited is registered, or one
that shares its descriptor is, except the service in hand (`RangePart`), and that nothing serves before it is spawned
nor after it was stopped (`ServePart`).

For serialized calls (`TripleServerSerialProofs`): `NoLeak`, `ReflectionFollows`,
`CrashesAccounted`. These speak of moments between calls, so `SerializedInvariant`
follows the fields through a call: which generation may have the open listener
before and after the call has replaced it (`Replaced`, `ListenerPart`), where
`t.lst` and `t.grpcServer` may differ (`Assigning`, `FieldsPart`), that every
registration is under its own key (`OwnKeyPart`) and whom the reflection service
describes (`ReflectPart`).

`TripleServerEndpointProofs` puts these together (`ServerCorrect`) and proves
`Implements`: with `Serialized`, the server is a `ServiceEndpoint`. What the
mapping needs beyond the above is `EndpointInvariant`: `t.grpcServer` is the newest
generation but the call's own (`NewestPart`), a connection is to a listener that
is open or that `Stop` has closed (`ClientPart`), and nothing is registered that was
not stored nor missing when the turn of `Serve` comes (`OfferPart`). At most one
listener is open at a time (`OneOpen`), so `Current` is determined
(`ReachableOnly`). `Start` and `RefreshService` are the abstract `Build`,
`StopOld` is `Replace`, `Stop` is `Stop`, `ServeBegins` is `Open` when it comes in time
and `Skip` when it comes too late, a crash is `Die`; the steps of `Range`, `CloseOld`,
`ListenAgain`, `SpawnServe` and the two assignments stutter. `TurnOfNewest` is the
heart of it: a generation that opens is newer than all that had their turn, and
nobody is left on those unless `Stop` was called.

### TripleClientProofs

`ClientCorrect`, `SuccessReal`, `ClosedMeansNoSuccess`, `ReplyStable`. `ClientInvariant` follows each call through `Invoke` (`CallPart`):
where its context is alive, that the reflection goroutine exists only while
`Invoke` waits for it, what result may be on its way, and that a call begun after an
effective `Close` (`ConnectionPart`) has no answer.

### TripleCallProofs

`CallsCorrect`, `RefreshHeals`, `Implements` (`RemoteCall`), for any number of
calls over any number of generations. The parts: requests and connections are of
generations that exist (`GenerationPart`, inductive with the steps of the
`ServiceEndpoint` that the module takes), a server without a codec is no younger
than the registration (`CodecPart`), and a request that is on its way or that gRPC
may still repeat has not run (`RunPart`), which is why a repetition never executes
a call twice.

### TracePropagationProofs

`TraceCorrect`, `ChildOfItsCall`, `NestedContinues`, `EndsFirst`, `ErrorReaches`, for
any set of calls nested in any way. Per call: what its metadata and its wire hold,
the last value being that of its own span (`ContextPart`), which span its handler's
context carries and whom its spans descend from (`StartPart`), which span is finished
at which point, with or without a client that gave up (`FinishPart`), and that tags
come from the error in hand (`TagPart`).

### TripleOptionProofs

`OptionsCorrect`, `LastWins`, `LimitsHonoured`, `SameTransport`, for any values and
any number of functions. `Setters` matches the two tables: the function a field is
named for writes that field, and no other does; so (`ApplyEffect`) a function's
arguments go where they belong and disturb nothing. A field holds the value its
function was given last, or zero before
`Validate` and the default after it (`GivenPart`); server and dial options are
derived from those (`ServerPart`, `ClientPart`). `SameTransport` needs in addition
that the two functions that read the files agree whenever neither fails.

### Only model-checked

* `SpanEventuallyFinished`, `WatcherExits`, `RefreshLeadsToServing`, `InvokeReturns`,
  `ReflectGoroutineEnds`, `NoStreamStranded`: liveness under fairness,
  for which the prover has neither `WF_` nor `ENABLED`.
* The five statements that are violated; TLC's counterexample is the result.

## Not modelled

* `GetCodecInWrapperName` and the map behind it: nothing in the repository calls
  it, and neither side looks at the name in the wrapper when it decodes.
* A peer that dies without gRPC noticing, on a connection without keep-alive: a
  stream to it waits for its caller's own context.
* The data race on `codecFactoryMap`: registering and looking up are one step each;
  an overlap ends in a fatal error of Go's runtime.
* The failing `Inject` and `Extract` of a tracer, payload logging, the decorator's
  effects; which parent the span of a client stream gets.
* The tracer `jaeger.go` builds, loggers, the proxy invoker of dubbo-go and the
  message types of `helloworld.pb.go`: external objects or plain data.
* The sample programs under `example/` (the provider's methods are the handler of
  `TripleCall`).

## Plan

Done, in this order: `ClientStream` with its abstract specification and proofs
(the most concurrent code of the repository), `TripleServer`, `TripleClient`,
`TracePropagation`, `TripleOption`; then `ServiceEndpoint` with the refinement
that `TripleServer` is one, `RemoteCall` and `TripleCall` over it, and credentials
in `TripleOption`.

Then the proofs above, in this order: stream, client, server with overlapping
calls, server with serialized calls, options, calls, trace propagation, the
server's refinement.

Left:

1. `ServiceEndpoint`: that the reachable generation only ever moves forward and that
   a client left behind was left by `Stop`, as properties of the abstract
   specification; what is proved of it holds of every server that implements it.
2. The server's invariant without `Serialized`: how far `t.lst` and `t.grpcServer` can
   drift apart when calls overlap (`dubbo3_server.go:278`).
3. The calls of `TripleCall` over a `TripleServer` directly, by composing the two
   refinements.
