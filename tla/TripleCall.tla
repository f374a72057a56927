------------------------------ MODULE TripleCall ------------------------------
(***************************************************************************)
(* Client and server together: calls through a TripleClient to a           *)
(* TripleServer that is refreshed, stopped or dies meanwhile. The server   *)
(* is a ServiceEndpoint, which TripleServer implements; this module adds   *)
(* the codecs of both sides (common/codec.go), the handlers a request is   *)
(* dispatched to (createGrpcDesc, GenericCodec and the generated ones of   *)
(* example/dubbo/proto), unary calls with their timeout and streams        *)
(* without. TripleClient has the client's side in detail.                  *)
(*                                                                         *)
(* A client that uses protobuf calls through its stub, any other one by    *)
(* Invoke; either meets a server with any codec and a service of any kind. *)
(* Between them gRPC is external: it connects when a call needs it, fails  *)
(* a call at once when nobody listens, fails the calls of a connection     *)
(* that is lost, and repeats a request once if the server has not seen it. *)
(***************************************************************************)
EXTENDS Naturals

CONSTANTS
  Calls,      \* RPCs, one goroutine each
  Keys,       \* interface keys
  MaxGen,     \* bound: how often Start and RefreshService are called
  CodecTypes, \* the codec types the two sides may be configured with
  Factories   \* the CodecFactory values the application has for CustomCodec

PBCodecName == "protobuf"
HessianCodecName == "hessian2"
MsgPackCodecName == "msgpack"
CustomCodec == "jsonMapStruct"
none == "none"

BuiltIn == {HessianCodecName, MsgPackCodecName}
Wrapped == BuiltIn \cup {CustomCodec}
Codecs == Factories \cup BuiltIn \cup {PBCodecName}

ASSUME CallAssumption ==
  /\ MaxGen \in Nat
  /\ CodecTypes \subseteq Wrapped \cup {PBCodecName}
  /\ Factories \cap {PBCodecName, HessianCodecName, MsgPackCodecName, none} = {}

Sides == {"client", "server"}

VARIABLES
  alive, stored, built, want, turns, current, offer, clients, left,
  codecType,  \* opt.CodecType of either side
  factory,    \* what codecFactoryMap has for CustomCodec in either process
  inner,      \* per generation: innerCodec of its gRPC server
  since,      \* how many generations were built without a factory
  killer,     \* the generation whose nil codec killed the process, or nil
  rpc,        \* per call: what the client knows of it
  srv,        \* per call: where the request or its handler is
  runs        \* per call: how often the method was executed

endpoint == <<alive, stored, built, want, turns, current, offer, clients, left>>
codecs == <<factory, inner, since>>
handlers == <<srv, runs>>
vars == <<alive, stored, built, want, turns, current, offer, clients, left,
          codecType, factory, inner, since, killer, rpc, srv, runs>>

Server == INSTANCE ServiceEndpoint

Gens == Server!Gens
nil == Server!nil

(* A method the service has, the generic one of dubbo, which the service   *)
(* has not and which comes with a payload in the context or without, and a *)
(* stream.                                                                 *)
Provided == {"SayHello"}
Generic == "$invoke"
UnaryMethods == Provided \cup {Generic}
Streams == {"SayHelloStream"}

(* What the server has under a key: a TripleUnaryService, or a             *)
(* TripleGrpcService. Of the latter the Greeter is a Dubbo3GrpcService if  *)
(* it embeds UnimplementedGreeterServer, and need not be one if it embeds  *)
(* UnsafeGreeterServer.                                                    *)
Services == {"unary", "greeter", "unsafeGreeter", "reflection"}

Results == {none, "ok", "Unimplemented", "Unavailable", "DeadlineExceeded",
            "Canceled", "error", "EOF"}

HandlerStates == {none, "inflight", "running", "ok", "error", "skipped", "lost"}

Rpcs == [pc: {"idle", "queued", "sent", "lost", "done"},
         key: Keys \cup {none}, method: UnaryMethods \cup Streams \cup {none},
         payload: BOOLEAN, codec: Codecs \cup {none},
         gen: Gens \cup {nil}, service: Services \cup {none}, retried: BOOLEAN,
         result: Results]

TypeOK ==
  /\ Server!TypeOK
  /\ codecType \in [Sides -> CodecTypes]
  /\ factory \in [Sides -> Factories \cup {none}]
  /\ inner \in [Gens -> Codecs \cup {none}]
  /\ since \in 0..MaxGen
  /\ killer \in Gens \cup {nil}
  /\ rpc \in [Calls -> Rpcs]
  /\ srv \in [Calls -> HandlerStates]
  /\ runs \in [Calls -> Nat]

Init ==
  /\ Server!Init
  /\ codecType \in [Sides -> CodecTypes]
  /\ factory \in [Sides -> Factories \cup {none}]
  /\ \A s \in Sides : codecType[s] # CustomCodec => factory[s] = none
  /\ inner = [g \in Gens |-> none]
  /\ since = IF factory["server"] = none THEN MaxGen ELSE 0
  /\ killer = nil
  /\ rpc = [c \in Calls |-> [pc |-> "idle", key |-> none, method |-> none,
                             payload |-> FALSE, codec |-> none, gen |-> nil,
                             service |-> none, retried |-> FALSE,
                             result |-> none]]
  /\ srv = [c \in Calls |-> none]
  /\ runs = [c \in Calls |-> 0]

-------------------------------------------------------------------------------
(* The codec registry.                                                     *)

(* Of no consequence for a side that has a built-in codec. *)
SetTripleCodec(side, f) ==
  /\ codecType[side] = CustomCodec /\ f # factory[side]
  /\ factory' = [factory EXCEPT ![side] = f]
  /\ since' = IF side = "server" /\ factory[side] = none THEN built ELSE since
  /\ UNCHANGED <<endpoint, codecType, inner, killer, rpc, handlers>>

GetTripleCodec(side) == factory[side]

(* The switch over opt.CodecType, in newGrpcServerWithCodec and in Invoke. *)
InnerCodec(side) ==
  IF codecType[side] = CustomCodec THEN GetTripleCodec(side)
  ELSE codecType[side]

-------------------------------------------------------------------------------
(* The server: every step of the endpoint, with what it means here.        *)

KeepsFirstCodec ==
  /\ Server!Build
  /\ inner' = [inner EXCEPT ![built + 1] =
                 IF built = 0 THEN InnerCodec("server") ELSE inner[built]]
  /\ UNCHANGED <<codecType, factory, since, killer, rpc, handlers>>

(* newGrpcServerWithCodec goes on without a codec if there is none. *)
NewGrpcServerWithCodec ==
  /\ Server!Build
  /\ inner' = [inner EXCEPT ![built + 1] = InnerCodec("server")]
  /\ UNCHANGED <<codecType, factory, since, killer, rpc, handlers>>

(* Connections of the generations gs are lost: requests on their way are   *)
(* gone, and so is a handler whose process has died.                       *)
Cut(gs, gone) ==
  /\ rpc' = [c \in Calls |-> IF rpc[c].pc = "sent" /\ rpc[c].gen \in gs
                             THEN [rpc[c] EXCEPT !.pc = "lost"] ELSE rpc[c]]
  /\ srv' = [c \in Calls |-> IF srv[c] \in gone /\ rpc[c].gen \in gs
                             THEN "lost" ELSE srv[c]]

LosesConnections(g) ==
  /\ g \in clients \/ g = current
  /\ Server!Replace(g) \/ (g \in clients /\ Server!Disconnect(g))
  /\ Cut({g}, {"inflight"})
  /\ UNCHANGED <<codecType, codecs, killer, runs>>

Dies(g) ==
  /\ Server!Die
  /\ Cut(Gens, {"inflight", "running"})
  /\ killer' = g
  /\ UNCHANGED <<codecType, codecs, runs>>

(* The rest: connections are also made for calls before this one. *)
EndpointStep ==
  /\ \/ \E k \in Keys : Server!Store(k)
     \/ \E g \in Gens \ turns : Server!Open(g) \/ Server!Skip(g)
     \/ current # nil /\ Server!Stop(current)
     \/ Server!Connect
  /\ UNCHANGED <<codecType, codecs, killer, rpc, handlers>>

-------------------------------------------------------------------------------
(* The client: Invoke, and the generated stub.                             *)

Request(c, k, m, payload, codec) ==
  /\ rpc[c].pc = "idle"
  /\ rpc' = [rpc EXCEPT ![c] =
               [@ EXCEPT !.pc = IF codec = none THEN "done" ELSE "queued",
                         !.key = k, !.method = m, !.payload = payload,
                         !.codec = codec,
                         !.result = IF codec = none THEN "Unimplemented"
                                    ELSE none]]
  /\ UNCHANGED <<endpoint, codecType, codecs, killer, handlers>>

(* Every Invoke looks its codec up again. *)
Invoke(c, k, m, payload) ==
  /\ codecType["client"] \in Wrapped /\ (payload => m = Generic)
  /\ Request(c, k, m, payload, InnerCodec("client"))

SayHello(c, k) ==
  /\ codecType["client"] = PBCodecName
  /\ Request(c, k, "SayHello", FALSE, PBCodecName)

(* SayHelloStream calls NewStream. *)
SayHelloStream(c, k) ==
  /\ codecType["client"] = PBCodecName
  /\ Request(c, k, "SayHelloStream", FALSE, PBCodecName)

(* External: gRPC writes the request to a connection it has, be it one to  *)
(* a server that Stop has left without a listener, or to a new one. What   *)
(* the server at its other end has under the key, if anything, was settled *)
(* before it began to serve; of the current one it is known whether it     *)
(* offers the key.                                                         *)
Send(c) ==
  /\ rpc[c].pc = "queued"
  /\ \E g \in Gens, service \in Services \cup {none} :
       /\ \/ g = current /\ Server!Connect
          \/ g \in clients /\ UNCHANGED endpoint
       /\ g = current => (service # none <=> rpc[c].key \in offer)
       /\ rpc' = [rpc EXCEPT ![c].pc = "sent", ![c].gen = g,
                             ![c].service = service]
  /\ srv' = [srv EXCEPT ![c] = "inflight"]
  /\ UNCHANGED <<codecType, codecs, killer, runs>>

Returns(c, res) ==
  /\ rpc' = [rpc EXCEPT ![c].pc = "done", ![c].result = res]
  /\ UNCHANGED <<endpoint, codecType, codecs, killer, handlers>>

Refused(c) ==
  rpc[c].pc = "queued" /\ current = nil /\ Returns(c, "Unavailable")

(* External: gRPC repeats a request the server has not seen, once. *)
TransparentRetry(c) ==
  /\ rpc[c].pc = "lost" /\ srv[c] = "lost" /\ runs[c] = 0 /\ ~rpc[c].retried
  /\ rpc' = [rpc EXCEPT ![c].pc = "queued", ![c].retried = TRUE]
  /\ UNCHANGED <<endpoint, codecType, codecs, killer, handlers>>

RetriesAfterFailure(c) ==
  /\ rpc[c].pc = "lost"
  /\ IF rpc[c].retried THEN Returns(c, "Unavailable")
     ELSE /\ rpc' = [rpc EXCEPT ![c].pc = "queued", ![c].retried = TRUE]
          /\ UNCHANGED <<endpoint, codecType, codecs, killer, handlers>>

StreamMissesError(c) ==
  /\ rpc[c].pc = "lost" /\ rpc[c].method \notin Streams
  /\ Returns(c, "Unavailable")

(* TripleConn.Invoke, NewStream or, later, Recv returns gRPC's error. *)
ConnectionLost(c) == rpc[c].pc = "lost" /\ Returns(c, "Unavailable")

(* TripleConn.Invoke gives every call a timeout, NewStream gives none. *)
HasTimer(m) == m \notin Streams

Timeout(c) ==
  /\ rpc[c].pc \in {"queued", "sent", "lost"} /\ HasTimer(rpc[c].method)
  /\ Returns(c, "DeadlineExceeded")

CallerCancels(c) ==
  rpc[c].pc \in {"queued", "sent", "lost"} /\ Returns(c, "Canceled")

(* A stub sends a message, Invoke sends arguments: protobuf is for the     *)
(* services that are generated, the other codecs are for unary ones.       *)
Understood(r) ==
  /\ inner[r.gen] = r.codec
  /\ r.codec = PBCodecName <=> r.service # "unary"

(* The reply arrives, and is decoded with the codec of the request. A      *)
(* stream that ends without a message is io.EOF to Recv.                   *)
Reply(c) ==
  /\ rpc[c].pc = "sent" /\ srv[c] \in {"ok", "error", "skipped"}
  /\ \/ srv[c] = "ok" /\ Returns(c, "ok")
     \/ srv[c] = "ok" /\ ~Understood(rpc[c]) /\ Returns(c, "error")
     \/ srv[c] = "error" /\ Returns(c, "error")
     \/ srv[c] = "skipped" /\ Returns(c, "EOF")

-------------------------------------------------------------------------------
(* The handlers.                                                           *)

(* What may become of a request. Bytes of another codec, or for another    *)
(* kind of service, are refused or, by chance, read as something else.     *)
Decoded(understood) == IF understood THEN {"run"} ELSE {"run", "refuse"}

(* dec: the wrapper has no inner codec to call if none was registered. *)
Dec(r) == IF inner[r.gen] = none THEN {"panic"} ELSE Decoded(Understood(r))

(* GenericCodec: the arguments are hessian2, whatever codec the server has. *)
UnmarshalRequest(r) == Decoded(r.codec = HessianCodecName)

(* The handler of createGrpcDesc. *)
InvokeWithArgs(r) ==
  IF r.method = Generic /\ r.payload THEN UnmarshalRequest(r)
  ELSE IF r.method \notin Provided THEN {"refuse"}
  ELSE Dec(r)

(* The handlers of a generated service: the method is called, through the  *)
(* proxy invoker or, if there is an interceptor, directly. If the service  *)
(* is no Dubbo3GrpcService, a stream's handler returns nil instead and the *)
(* others' assertion fails, after dec.                                     *)
GreeterHandler(r) ==
  LET dubbo == r.service = "greeter"
  IN CASE r.method \in Streams -> IF dubbo THEN {"run"} ELSE {"skip"}
       [] r.method \in Provided ->
            {IF v = "run" /\ ~dubbo THEN "assertion" ELSE v : v \in Dec(r)}
       [] OTHER -> {"refuse"}

(* The handler is that of the service, whatever the server's codec. The    *)
(* reflection service has none of the methods called here.                 *)
Verdicts(r) ==
  CASE r.service \in {none, "reflection"} -> {"refuse"}
    [] r.service = "unary" -> InvokeWithArgs(r)
    [] OTHER -> GreeterHandler(r)

Runs(c) ==
  /\ "run" \in Verdicts(rpc[c])
  /\ srv' = [srv EXCEPT ![c] = "running"]
  /\ runs' = [runs EXCEPT ![c] = @ + 1]
  /\ UNCHANGED <<endpoint, codecType, codecs, killer, rpc>>

Ends(c, res) ==
  /\ srv' = [srv EXCEPT ![c] = res]
  /\ UNCHANGED <<endpoint, codecType, codecs, killer, rpc, runs>>

Handle(c) ==
  /\ srv[c] = "inflight"
  /\ \/ Runs(c)
     \/ "refuse" \in Verdicts(rpc[c]) /\ Ends(c, "error")
     \/ "skip" \in Verdicts(rpc[c]) /\ Ends(c, "skipped")
     \/ "assertion" \in Verdicts(rpc[c]) /\ Dies(nil)
     \/ "panic" \in Verdicts(rpc[c]) /\ Dies(rpc[c].gen)

(* The method returns; gRPC encodes a result with the server's codec. A    *)
(* stream's method may return without ever having sent or received.        *)
HandlerReturns(c) ==
  /\ srv[c] = "running"
  /\ \/ inner[rpc[c].gen] = none /\ Dies(rpc[c].gen)
     \/ /\ inner[rpc[c].gen] # none \/ rpc[c].method \in Streams
        /\ Ends(c, "ok")

HandlerFails(c) == srv[c] = "running" /\ Ends(c, "error")

-------------------------------------------------------------------------------
ServerStep ==
  \/ NewGrpcServerWithCodec \/ EndpointStep \/ Dies(nil)
  \/ \E g \in Gens : LosesConnections(g)
  \/ \E c \in Calls : Handle(c) \/ HandlerReturns(c) \/ HandlerFails(c)

ClientStep(c) ==
  Send(c) \/ Refused(c) \/ ConnectionLost(c) \/ TransparentRetry(c) \/ Reply(c)

Next ==
  \/ ServerStep
  \/ \E s \in Sides, f \in Factories : SetTripleCodec(s, f)
  \/ \E c \in Calls :
       \/ \E k \in Keys : \/ SayHello(c, k) \/ SayHelloStream(c, k)
                          \/ \E m \in UnaryMethods, p \in BOOLEAN :
                               Invoke(c, k, m, p)
       \/ ClientStep(c) \/ Timeout(c) \/ CallerCancels(c)

Spec == Init /\ [][Next]_vars

(* gRPC on the client's side runs. Nothing is assumed of the server, of    *)
(* the application, of timers or of connections.                           *)
FairSpec == Spec /\ \A c \in Calls : WF_vars(ClientStep(c))

-------------------------------------------------------------------------------
Outcome(c) ==
  CASE rpc[c].pc = "idle" -> "new"
    [] rpc[c].pc \in {"queued", "sent", "lost"} -> "pending"
    [] rpc[c].pc = "done" ->
         IF rpc[c].result = "ok" THEN "success" ELSE "failure"

Work(c) ==
  CASE runs[c] = 0 -> "none"
    [] runs[c] = 1 /\ srv[c] \in {"ok", "error"} -> srv[c]
    [] runs[c] = 1 /\ srv[c] \in {"running", "lost"} -> "running"
    [] OTHER -> "again"

Remote ==
  INSTANCE RemoteCall WITH
    outcome <- [c \in Calls |-> Outcome(c)],
    work <- [c \in Calls |-> Work(c)]

(* A call is a RemoteCall: refreshes, lost connections, gRPC's own retry,  *)
(* timeouts, late requests, codecs that differ or change under way and     *)
(* services of another kind than the client's never run a method twice,    *)
(* nor report as a success what has not run and succeeded; a stream whose  *)
(* method was skipped gives its caller no message, only io.EOF             *)
(* (dubbo3_conn.go:44-60, dubbo3_server.go:168-195,                        *)
(* helloworld_triple.pb.go:151-227).                                       *)
ImplementsRemoteCall == Remote!Spec

(* An unregistered codec kills the server at its first request, but only   *)
(* one that was built before the codec was registered: SetTripleCodec and  *)
(* a refresh always heal it (dubbo3_server.go:242-247).                    *)
RefreshHealsCodec == killer # nil => killer <= since

(* What those two rest on. Requests and connections are of generations     *)
(* that exist; a server without a codec is no younger than the             *)
(* registration; and a request that is on its way, or that the client may  *)
(* still send, has not run (dubbo3_server.go:242-247, codec.go:31-53).     *)
GenerationPart ==
  /\ current <= built /\ killer <= built
  /\ \A g \in clients : g <= built
  /\ \A c \in Calls : /\ rpc[c].gen <= built
                      /\ srv[c] \in {"inflight", "running"} => rpc[c].gen # nil

CodecPart ==
  /\ factory["server"] = none => since = MaxGen
  /\ \A g \in Gens : g <= built /\ inner[g] = none => g <= since
  /\ RefreshHealsCodec

RunPart ==
  \A c \in Calls :
    /\ rpc[c].pc = "idle" => srv[c] = none
    /\ rpc[c].pc = "queued" => srv[c] \in {none, "lost"} /\ runs[c] = 0
    /\ srv[c] \in {none, "inflight"} => runs[c] = 0
    /\ srv[c] \in {"running", "ok"} => runs[c] = 1
    /\ runs[c] \in {0, 1}

CallInvariant == GenerationPart /\ CodecPart /\ RunPart

(* Calls, codecs and generations, well typed and in step: a request is     *)
(* made to a generation that exists, a codec was missing only before it    *)
(* was registered, and what is on its way has not run                      *)
(* (dubbo3_server.go:242-248, dubbo3_conn.go:44-60, codec.go:31-53).       *)
InductiveInvariant == TypeOK /\ CallInvariant

(* A stream has no timeout, but it is never stranded either: if its server *)
(* is refreshed or dies, it moves to the next one or returns an error      *)
(* (dubbo3_conn.go:58-60, helloworld_triple.pb.go:61-91).                  *)
NoStreamStranded ==
  \A c \in Calls :
    (rpc[c].pc \in {"queued", "lost"}) ~> (rpc[c].pc \in {"sent", "done"})

===============================================================================
