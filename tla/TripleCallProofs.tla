--------------------------- MODULE TripleCallProofs ---------------------------
(***************************************************************************)
(* Proofs about calls to a server that is refreshed, stopped or dies, for  *)
(* any number of calls, services, generations and codecs.                  *)
(***************************************************************************)
EXTENDS TripleCall, TLAPS

-------------------------------------------------------------------------------
(* The endpoint: its own steps keep its type and its generations.          *)

EndpointPart ==
  /\ current <= built
  /\ \A g \in clients : g <= built

LEMMA EndpointTyped ==
  ASSUME Server!TypeOK, EndpointPart, Server!Next \/ UNCHANGED endpoint
  PROVE  Server!TypeOK' /\ EndpointPart' /\ built <= built'
<1> USE DEF Server!Gens, Server!nil
<1>0. /\ built \in 0..MaxGen /\ MaxGen \in Nat
      /\ want \in [Server!Gens -> SUBSET Keys]
      /\ current \in Nat /\ clients \subseteq Nat
  BY CallAssumption DEF Server!TypeOK
<1>1. CASE Server!Build
  <2>1. /\ built + 1 \in Server!Gens /\ built' = built + 1 /\ built < MaxGen
        /\ UNCHANGED <<alive, stored, turns, current, offer, clients, left>>
        /\ want' = [want EXCEPT ![built + 1] = stored]
    BY <1>0, <1>1 DEF Server!Build
  <2>2. want' \in [Server!Gens -> SUBSET Keys]
    BY <1>0, <2>1 DEF Server!TypeOK
  <2>3. built' \in 0..MaxGen
    BY <1>0, <2>1
  <2>4. Server!TypeOK'
    BY <2>1, <2>2, <2>3 DEF Server!TypeOK
  <2>5. EndpointPart' /\ built <= built'
    BY <1>0, <2>1 DEF EndpointPart
  <2> QED BY <2>4, <2>5
<1>2. CASE Server!Connect
  <2>1. /\ current # 0 /\ clients' = clients \cup {current}
        /\ UNCHANGED <<alive, stored, built, want, turns, current, offer, left>>
    BY <1>2 DEF Server!Connect
  <2>2. Server!TypeOK'
    BY <2>1 DEF Server!TypeOK
  <2>3. EndpointPart' /\ built <= built'
    BY <1>0, <2>1 DEF EndpointPart
  <2> QED BY <2>2, <2>3
<1>3. CASE Server!Die
  <2>1. /\ alive' = FALSE /\ current' = 0 /\ offer' = {} /\ clients' = {}
        /\ UNCHANGED <<stored, built, want, turns, left>>
    BY <1>3 DEF Server!Die
  <2>2. Server!TypeOK'
    BY <2>1 DEF Server!TypeOK
  <2>3. EndpointPart' /\ built <= built'
    BY <1>0, <2>1 DEF EndpointPart
  <2> QED BY <2>2, <2>3
<1>4. ASSUME NEW k \in Keys, Server!Store(k)
      PROVE  Server!TypeOK' /\ EndpointPart' /\ built <= built'
  BY <1>0, <1>4 DEF Server!Store, Server!TypeOK, EndpointPart
<1>5. ASSUME NEW g \in Server!Gens, Server!Open(g)
      PROVE  Server!TypeOK' /\ EndpointPart' /\ built <= built'
  <2>1. /\ g <= built /\ current' = g /\ offer' \subseteq stored
        /\ turns' = turns \cup {g} /\ want' = [want EXCEPT ![g] = {}]
        /\ UNCHANGED <<alive, stored, built, clients, left>>
    BY <1>5 DEF Server!Open, Server!Turn
  <2>2. Server!TypeOK'
    BY <2>1 DEF Server!TypeOK
  <2>3. EndpointPart' /\ built <= built'
    BY <1>0, <2>1 DEF EndpointPart
  <2> QED BY <2>2, <2>3
<1>6. ASSUME NEW g \in Server!Gens, Server!Skip(g)
      PROVE  Server!TypeOK' /\ EndpointPart' /\ built <= built'
  <2>1. /\ turns' = turns \cup {g} /\ want' = [want EXCEPT ![g] = {}]
        /\ UNCHANGED <<alive, stored, built, current, offer, clients, left>>
    BY <1>6 DEF Server!Skip, Server!Turn
  <2>2. Server!TypeOK'
    BY <2>1 DEF Server!TypeOK
  <2>3. EndpointPart' /\ built <= built'
    BY <1>0, <2>1 DEF EndpointPart
  <2> QED BY <2>2, <2>3
<1>7. ASSUME NEW g \in Server!Gens,
             Server!Replace(g) \/ Server!Stop(g) \/ Server!Disconnect(g)
      PROVE  Server!TypeOK' /\ EndpointPart' /\ built <= built'
  <2>1. /\ current' \in {current, 0} /\ offer' \subseteq offer
        /\ clients' \subseteq clients /\ left' \subseteq left \cup {g}
        /\ UNCHANGED <<alive, stored, built, want, turns>>
    BY <1>7 DEF Server!Replace, Server!Stop, Server!Disconnect, Server!Leave
  <2>2. Server!TypeOK'
    BY <2>1 DEF Server!TypeOK
  <2>3. EndpointPart' /\ built <= built'
    BY <1>0, <2>1 DEF EndpointPart
  <2> QED BY <2>2, <2>3
<1>8. CASE UNCHANGED endpoint
  BY <1>0, <1>8 DEF endpoint, Server!TypeOK, EndpointPart
<1> QED BY <1>1, <1>2, <1>3, <1>4, <1>5, <1>6, <1>7, <1>8 DEF Server!Next

-------------------------------------------------------------------------------
(* What each step does to a call.                                          *)

(* Every step is one of the endpoint's, or leaves it alone. *)
LEMMA StepsOfEndpoint ==
  ASSUME TypeOK, [Next]_vars
  PROVE  Server!Next \/ UNCHANGED endpoint
<1>1. CASE ServerStep
  <2>0. ASSUME NEW g, Dies(g)
        PROVE  Server!Next
    BY <2>0 DEF Dies, Server!Next
  <2>1. CASE NewGrpcServerWithCodec \/ Dies(nil)
    BY <2>0, <2>1 DEF NewGrpcServerWithCodec, Server!Next
  <2>2. CASE EndpointStep
    <3>1. current # nil => current \in Server!Gens
      BY DEF TypeOK, Server!TypeOK, nil, Server!nil
    <3> QED BY <2>2, <3>1 DEF EndpointStep, Server!Next, Gens
  <2>3. ASSUME NEW g \in Gens, LosesConnections(g)
        PROVE  Server!Next
    BY <2>3 DEF LosesConnections, Server!Next, Gens
  <2>4. ASSUME NEW c \in Calls, Handle(c) \/ HandlerReturns(c) \/ HandlerFails(c)
        PROVE  Server!Next \/ UNCHANGED endpoint
    BY <2>0, <2>4 DEF Handle, HandlerReturns, HandlerFails, Runs, Ends
  <2> QED BY <1>1, <2>1, <2>2, <2>3, <2>4 DEF ServerStep
<1>2. ASSUME NEW c \in Calls, ClientStep(c) \/ Timeout(c) \/ CallerCancels(c)
      PROVE  Server!Next \/ UNCHANGED endpoint
  BY <1>2 DEF ClientStep, Send, Refused, ConnectionLost, TransparentRetry, Reply,
              Timeout, CallerCancels, Returns, Server!Next
<1>3. ASSUME NEW c \in Calls, NEW k \in Keys,
             \/ SayHello(c, k) \/ SayHelloStream(c, k)
             \/ \E m \in UnaryMethods, p \in BOOLEAN : Invoke(c, k, m, p)
      PROVE  UNCHANGED endpoint
  BY <1>3 DEF SayHello, SayHelloStream, Invoke, Request
<1>4. ASSUME NEW s \in Sides, NEW f \in Factories, SetTripleCodec(s, f)
      PROVE  UNCHANGED endpoint
  BY <1>4 DEF SetTripleCodec
<1>5. CASE UNCHANGED vars
  BY <1>5 DEF vars, endpoint
<1> QED BY <1>1, <1>2, <1>3, <1>4, <1>5 DEF Next

(* Of the variables this module adds. *)
CallTypes ==
  /\ codecType \in [Sides -> CodecTypes]
  /\ factory \in [Sides -> Factories \cup {none}]
  /\ inner \in [Gens -> Codecs \cup {none}]
  /\ since \in 0..MaxGen
  /\ killer \in Gens \cup {nil}
  /\ rpc \in [Calls -> Rpcs]
  /\ srv \in [Calls -> HandlerStates]
  /\ runs \in [Calls -> Nat]

LEMMA CodecOfSide ==
  ASSUME TypeOK, NEW side \in Sides
  PROVE  /\ InnerCodec(side) \in Codecs \cup {none}
         /\ InnerCodec(side) = none => factory[side] = none
<1>1. codecType[side] \in Wrapped \cup {PBCodecName}
  BY CallAssumption DEF TypeOK
<1>2. factory[side] \in Factories \cup {none}
  BY DEF TypeOK
<1> QED BY <1>1, <1>2 DEF InnerCodec, GetTripleCodec, Wrapped, BuiltIn, Codecs,
            CustomCodec, PBCodecName, HessianCodecName, MsgPackCodecName, none

(* A step that changes nothing but calls, and builds no server. *)
LEMMA CallStepKeeps ==
  ASSUME TypeOK, CallInvariant, UNCHANGED <<built, codecType, codecs, killer>>,
         \A c \in Calls :
           /\ rpc'[c].gen = rpc[c].gen \/ rpc'[c].gen \in clients \cup {current}
           /\ srv'[c] \in {"inflight", "running"} =>
                \/ srv[c] \in {"inflight", "running"} /\ rpc'[c].gen = rpc[c].gen
                \/ rpc'[c].gen # nil
         ,
         current' <= built', \A g \in clients' : g <= built'
  PROVE  GenerationPart' /\ CodecPart'
<1>1. \A c \in Calls : rpc'[c].gen <= built'
  BY DEF CallInvariant, GenerationPart
<1>2. GenerationPart'
  BY <1>1 DEF CallInvariant, GenerationPart
<1>3. CodecPart'
  BY DEF CallInvariant, CodecPart, RefreshHealsCodec, codecs
<1> QED BY <1>2, <1>3

LEMMA CutEffect ==
  ASSUME TypeOK, NEW gs, NEW gone \in SUBSET {"inflight", "running"},
         Cut(gs, gone)
  PROVE  /\ rpc' \in [Calls -> Rpcs]
         /\ srv' \in [Calls -> HandlerStates]
         /\ \A c \in Calls :
              /\ rpc'[c].gen = rpc[c].gen /\ rpc'[c].result = rpc[c].result
              /\ rpc'[c].pc = rpc[c].pc
                 \/ (rpc[c].pc = "sent" /\ rpc'[c].pc = "lost")
              /\ srv'[c] = srv[c] \/ (srv[c] \in gone /\ srv'[c] = "lost")
<1>1. ASSUME NEW c \in Calls
      PROVE  /\ rpc'[c] \in Rpcs
             /\ rpc'[c].gen = rpc[c].gen /\ rpc'[c].result = rpc[c].result
             /\ rpc'[c].pc = rpc[c].pc
                \/ (rpc[c].pc = "sent" /\ rpc'[c].pc = "lost")
  <2>1. rpc[c] \in Rpcs
    BY DEF TypeOK
  <2>2. rpc'[c] = rpc[c] \/ /\ rpc[c].pc = "sent"
                            /\ rpc'[c] = [rpc[c] EXCEPT !.pc = "lost"]
    BY DEF Cut
  <2> QED BY <2>1, <2>2 DEF Rpcs
<1>2. ASSUME NEW c \in Calls
      PROVE  srv'[c] = srv[c] \/ (srv[c] \in gone /\ srv'[c] = "lost")
  <2>1. srv' = [d \in Calls |-> IF srv[d] \in gone /\ rpc[d].gen \in gs
                                THEN "lost" ELSE srv[d]]
    BY DEF Cut
  <2> QED BY <2>1
<1>3. rpc' \in [Calls -> Rpcs]
  BY <1>1 DEF Cut
<1>4. srv' \in [Calls -> HandlerStates]
  BY DEF Cut, TypeOK, HandlerStates
<1> QED BY <1>1, <1>2, <1>3, <1>4

LEMMA ReturnsEffect ==
  ASSUME TypeOK, NEW c \in Calls, NEW res \in Results, Returns(c, res)
  PROVE  /\ rpc' \in [Calls -> Rpcs]
         /\ \A d \in Calls : /\ d # c => rpc'[d] = rpc[d]
                             /\ rpc'[d].gen = rpc[d].gen
         /\ rpc'[c].pc = "done" /\ rpc'[c].result = res
<1>1. rpc[c] \in Rpcs
  BY DEF TypeOK
<1> QED BY <1>1 DEF Returns, TypeOK, Rpcs

LEMMA RequestEffect ==
  ASSUME TypeOK, NEW c \in Calls, NEW k \in Keys,
         NEW m \in UnaryMethods \cup Streams, NEW p \in BOOLEAN,
         NEW codec \in Codecs \cup {none}, Request(c, k, m, p, codec)
  PROVE  /\ rpc' \in [Calls -> Rpcs]
         /\ \A d \in Calls : /\ d # c => rpc'[d] = rpc[d]
                             /\ rpc'[d].gen = rpc[d].gen
         /\ \/ rpc'[c].pc = "queued"
            \/ rpc'[c].pc = "done" /\ rpc'[c].result = "Unimplemented"
         /\ rpc[c].pc = "idle"
<1> DEFINE pc == IF codec = none THEN "done" ELSE "queued"
           result == IF codec = none THEN "Unimplemented" ELSE none
           asked == [rpc[c] EXCEPT !.pc = pc, !.key = k, !.method = m,
                                   !.payload = p, !.codec = codec,
                                   !.result = result]
<1>1. rpc \in [Calls -> Rpcs] /\ rpc[c] \in Rpcs
  BY DEF TypeOK
<1>2. rpc[c].pc = "idle" /\ rpc' = [rpc EXCEPT ![c] = asked]
  BY <1>1 DEF Request
<1>3. /\ pc \in {"idle", "queued", "sent", "lost", "done"} /\ result \in Results
      /\ pc = "queued" \/ (pc = "done" /\ result = "Unimplemented")
  BY DEF Results
<1> HIDE DEF pc, result
<1>4. asked \in Rpcs
  BY <1>1, <1>3 DEF Rpcs
<1>5. asked.gen = rpc[c].gen /\ asked.pc = pc /\ asked.result = result
  BY <1>1 DEF Rpcs
<1> HIDE DEF asked
<1> QED BY <1>1, <1>2, <1>3, <1>4, <1>5

LEMMA SendEffect ==
  ASSUME TypeOK, NEW c \in Calls, Send(c)
  PROVE  /\ rpc' \in [Calls -> Rpcs]
         /\ srv' = [srv EXCEPT ![c] = "inflight"]
         /\ \A d \in Calls : d # c => rpc'[d] = rpc[d]
         /\ rpc[c].pc = "queued" /\ rpc'[c].pc = "sent"
         /\ rpc'[c].gen \in clients \cup {current} /\ rpc'[c].gen # nil
         /\ UNCHANGED <<built, codecType, codecs, killer, runs>>
<1>1. rpc[c] \in Rpcs
  BY DEF TypeOK
<1>2. PICK g \in Gens, service \in Services \cup {none} :
        /\ \/ g = current /\ Server!Connect
           \/ g \in clients /\ UNCHANGED endpoint
        /\ rpc' = [rpc EXCEPT ![c].pc = "sent", ![c].gen = g,
                              ![c].service = service]
  BY DEF Send
<1>3. rpc' \in [Calls -> Rpcs] /\ rpc'[c].pc = "sent" /\ rpc'[c].gen = g
  BY <1>1, <1>2 DEF TypeOK, Rpcs
<1>4. \A d \in Calls : d # c => rpc'[d] = rpc[d]
  BY <1>2 DEF TypeOK
<1>5. g # nil
  BY CallAssumption DEF Gens, Server!Gens, nil, Server!nil
<1>6. UNCHANGED built
  BY <1>2 DEF Server!Connect, endpoint
<1> QED BY <1>2, <1>3, <1>4, <1>5, <1>6 DEF Send

LEMMA RetryEffect ==
  ASSUME TypeOK, NEW c \in Calls, TransparentRetry(c)
  PROVE  /\ rpc' \in [Calls -> Rpcs]
         /\ \A d \in Calls : /\ d # c => rpc'[d] = rpc[d]
                             /\ rpc'[d].gen = rpc[d].gen
         /\ rpc[c].pc = "lost" /\ rpc'[c].pc = "queued"
<1>1. rpc[c] \in Rpcs
  BY DEF TypeOK
<1> QED BY <1>1 DEF TransparentRetry, TypeOK, Rpcs

-------------------------------------------------------------------------------
(* Type correctness and the invariant, one lemma per group of steps. *)

LEMMA CutKeeps ==
  ASSUME TypeOK, CallInvariant, EndpointPart', NEW gs,
         NEW gone \in SUBSET {"inflight", "running"}, Cut(gs, gone),
         UNCHANGED <<built, codecType, codecs, runs>>,
         killer' \in Gens \cup {nil}, killer' <= built,
         killer' # nil => killer' <= since
  PROVE  CallTypes' /\ CallInvariant'
<1>1. CallTypes'
  BY CutEffect DEF CallTypes, TypeOK, codecs
<1>2. GenerationPart'
  BY CutEffect DEF CallInvariant, GenerationPart, EndpointPart
<1>3. CodecPart'
  BY DEF CallInvariant, CodecPart, RefreshHealsCodec, codecs
<1>4. RunPart'
  <2> SUFFICES ASSUME NEW c \in Calls
      PROVE  /\ rpc'[c].pc = "idle" => srv'[c] = none
             /\ rpc'[c].pc = "queued" => srv'[c] \in {none, "lost"} /\ runs'[c] = 0
             /\ srv'[c] \in {none, "inflight"} => runs'[c] = 0
             /\ srv'[c] \in {"running", "ok"} => runs'[c] = 1
             /\ runs'[c] \in {0, 1}
    BY DEF RunPart
  <2>1. /\ rpc'[c].pc = rpc[c].pc \/ rpc'[c].pc = "lost"
        /\ srv'[c] = srv[c] \/ (srv[c] \in {"inflight", "running"}
                                /\ srv'[c] = "lost")
    BY CutEffect
  <2> QED BY <2>1 DEF CallInvariant, RunPart, none
<1> QED BY <1>1, <1>2, <1>3, <1>4 DEF CallInvariant

(* The process dies; if a codec is to blame, the server had none. *)
LEMMA DiesKeeps ==
  ASSUME TypeOK, CallInvariant, EndpointPart', NEW g, Dies(g),
         g = nil \/ (g \in Gens /\ g <= built /\ inner[g] = none)
  PROVE  CallTypes' /\ CallInvariant'
<1>1. /\ Cut(Gens, {"inflight", "running"}) /\ killer' = g
      /\ UNCHANGED <<built, codecType, codecs, runs>>
  BY DEF Dies, Server!Die
<1>2. g <= built /\ g \in Gens \cup {nil} /\ (g # nil => g <= since)
  <2>1. nil <= built
    BY CallAssumption DEF TypeOK, Server!TypeOK, nil, Server!nil
  <2> QED BY <2>1 DEF CallInvariant, CodecPart
<1> QED BY <1>1, <1>2, CutKeeps

LEMMA CodecStepKeeps ==
  ASSUME TypeOK, CallInvariant, Server!TypeOK', EndpointPart',
         \/ NewGrpcServerWithCodec
         \/ \E s \in Sides, f \in Factories : SetTripleCodec(s, f)
  PROVE  CallTypes' /\ CallInvariant'
<1>0. /\ built \in 0..MaxGen /\ MaxGen \in Nat /\ since \in 0..MaxGen
      /\ "server" \in Sides
  BY CallAssumption DEF TypeOK, Server!TypeOK, Sides
<1>1. CASE NewGrpcServerWithCodec
  <2>1. /\ built + 1 \in Gens /\ built' = built + 1
        /\ inner' = [inner EXCEPT ![built + 1] = InnerCodec("server")]
        /\ UNCHANGED <<codecType, factory, since, killer, rpc, srv, runs>>
    BY <1>0, <1>1 DEF NewGrpcServerWithCodec, Server!Build, Gens, Server!Gens,
                      handlers
  <2>2. /\ InnerCodec("server") \in Codecs \cup {none}
        /\ InnerCodec("server") = none => factory["server"] = none
    BY <1>0, CodecOfSide
  <2>3. CallTypes'
    BY <2>1, <2>2 DEF CallTypes, TypeOK
  <2>4. GenerationPart'
    <3>1. \A c \in Calls : rpc[c].gen \in Gens \cup {nil}
      BY DEF TypeOK, Rpcs
    <3>2. killer \in Nat /\ \A c \in Calls : rpc[c].gen \in Nat
      BY <1>0, <3>1 DEF TypeOK, Gens, Server!Gens, nil, Server!nil
    <3>3. killer' <= built' /\ \A c \in Calls : rpc'[c].gen <= built'
      BY <1>0, <2>1, <3>2 DEF CallInvariant, GenerationPart
    <3> QED BY <2>1, <3>3 DEF CallInvariant, GenerationPart, EndpointPart
  <2>5. CodecPart'
    <3>1. ASSUME NEW g \in Gens, g <= built', inner'[g] = none
          PROVE  g <= since'
      <4>1. CASE g = built + 1
        <5>1. InnerCodec("server") = none
          BY <2>1, <3>1, <4>1 DEF TypeOK
        <5>2. since = MaxGen
          BY <2>2, <5>1 DEF CallInvariant, CodecPart
        <5> QED BY <2>1, <3>1, <5>2 DEF Gens, Server!Gens
      <4>2. CASE g # built + 1
        <5>1. inner[g] = none
          BY <2>1, <3>1, <4>2 DEF TypeOK
        <5>2. g <= built
          BY <1>0, <2>1, <3>1, <4>2 DEF Gens, Server!Gens
        <5> QED BY <2>1, <5>1, <5>2 DEF CallInvariant, CodecPart
      <4> QED BY <4>1, <4>2
    <3> QED BY <2>1, <3>1 DEF CallInvariant, CodecPart, RefreshHealsCodec
  <2>6. RunPart'
    BY <2>1 DEF CallInvariant, RunPart
  <2> QED BY <2>3, <2>4, <2>5, <2>6 DEF CallInvariant
<1>2. ASSUME NEW s \in Sides, NEW f \in Factories, SetTripleCodec(s, f)
      PROVE  CallTypes' /\ CallInvariant'
  <2>1. /\ factory' = [factory EXCEPT ![s] = f]
        /\ since' = IF s = "server" /\ factory[s] = none THEN built ELSE since
        /\ UNCHANGED <<built, current, clients, codecType, inner, killer, rpc,
                       srv, runs>>
    BY <1>2 DEF SetTripleCodec, endpoint, handlers
  <2>2. CallTypes'
    BY <1>0, <2>1 DEF CallTypes, TypeOK
  <2>3. GenerationPart'
    BY <2>1 DEF CallInvariant, GenerationPart
  <2>4. CodecPart'
    <3>1. f # none
      BY CallAssumption
    <3>2. factory'["server"] = none => s # "server" /\ factory["server"] = none
      BY <2>1, <3>1 DEF TypeOK
    <3>3. \A g \in Gens : g <= built' /\ inner'[g] = none => g <= since'
      BY <2>1 DEF CallInvariant, CodecPart
    <3>4. killer <= built
      BY DEF CallInvariant, GenerationPart
    <3> QED BY <2>1, <3>2, <3>3, <3>4 DEF CallInvariant, CodecPart, RefreshHealsCodec
  <2>5. RunPart'
    BY <2>1 DEF CallInvariant, RunPart
  <2> QED BY <2>2, <2>3, <2>4, <2>5 DEF CallInvariant
<1> QED BY <1>1, <1>2

(* Steps of the client, for one of its calls. *)
LEMMA ClientKeeps ==
  ASSUME TypeOK, CallInvariant, EndpointPart', NEW c \in Calls,
         \/ \E k \in Keys, m \in UnaryMethods \cup Streams, p \in BOOLEAN,
               codec \in Codecs \cup {none} : Request(c, k, m, p, codec)
         \/ Send(c) \/ TransparentRetry(c)
         \/ \E res \in Results : rpc[c].pc # "idle" /\ Returns(c, res)
  PROVE  CallTypes' /\ CallInvariant'
<1>0. /\ rpc[c].pc = "idle" => srv[c] = none
      /\ srv[c] = none => runs[c] = 0
  BY DEF CallInvariant, RunPart
<1>1. CASE \/ \E k \in Keys, m \in UnaryMethods \cup Streams, p \in BOOLEAN,
                 codec \in Codecs \cup {none} : Request(c, k, m, p, codec)
           \/ TransparentRetry(c)
           \/ \E res \in Results : rpc[c].pc # "idle" /\ Returns(c, res)
  <2>1. UNCHANGED <<built, codecType, codecs, killer, srv, runs>>
    BY <1>1 DEF Request, TransparentRetry, Returns, endpoint, handlers
  <2>2. /\ rpc' \in [Calls -> Rpcs]
        /\ \A d \in Calls : /\ d # c => rpc'[d] = rpc[d]
                            /\ rpc'[d].gen = rpc[d].gen
        /\ rpc'[c].pc \in {"queued", "done"}
    BY <1>1, RequestEffect, RetryEffect, ReturnsEffect
  <2>3. rpc'[c].pc = "queued" => srv[c] \in {none, "lost"} /\ runs[c] = 0
    <3>1. CASE TransparentRetry(c)
      BY <3>1 DEF TransparentRetry
    <3>2. CASE \E res \in Results : rpc[c].pc # "idle" /\ Returns(c, res)
      BY <3>2, ReturnsEffect
    <3>3. CASE \E k \in Keys, m \in UnaryMethods \cup Streams, p \in BOOLEAN,
                  codec \in Codecs \cup {none} : Request(c, k, m, p, codec)
      BY <1>0, <3>3, RequestEffect
    <3> QED BY <1>1, <3>1, <3>2, <3>3
  <2>4. CallTypes'
    BY <2>1, <2>2 DEF CallTypes, TypeOK, codecs
  <2>5. GenerationPart' /\ CodecPart'
    BY <2>1, <2>2, CallStepKeeps DEF EndpointPart
  <2>6. RunPart'
    BY <2>1, <2>2, <2>3 DEF CallInvariant, RunPart
  <2> QED BY <2>4, <2>5, <2>6 DEF CallInvariant
<1>2. CASE Send(c)
  <2>1. /\ srv'[c] = "inflight"
        /\ \A d \in Calls : d # c => rpc'[d] = rpc[d] /\ srv'[d] = srv[d]
        /\ srv' \in [Calls -> HandlerStates]
    BY <1>2, SendEffect DEF TypeOK, HandlerStates
  <2>2. CallTypes'
    BY <1>2, <2>1, SendEffect DEF CallTypes, TypeOK, codecs
  <2>3. GenerationPart' /\ CodecPart'
    BY <1>2, <2>1, SendEffect, CallStepKeeps DEF EndpointPart
  <2>4. RunPart'
    BY <1>2, <2>1, SendEffect DEF CallInvariant, RunPart, none
  <2> QED BY <2>2, <2>3, <2>4 DEF CallInvariant
<1> QED BY <1>1, <1>2

(* Steps of a handler, but for the death of the process. *)
LEMMA HandlerKeeps ==
  ASSUME TypeOK, CallInvariant, EndpointPart', NEW c \in Calls,
         \/ srv[c] = "inflight" /\ Runs(c)
         \/ srv[c] = "running" /\ Ends(c, "ok")
         \/ srv[c] \in {"inflight", "running"} /\ Ends(c, "error")
         \/ srv[c] = "inflight" /\ Ends(c, "skipped")
  PROVE  CallTypes' /\ CallInvariant'
<1>0. runs[c] = IF srv[c] = "inflight" THEN 0 ELSE 1
  BY DEF CallInvariant, RunPart
<1>1. /\ UNCHANGED <<built, codecType, codecs, killer, rpc>>
      /\ \A d \in Calls : d # c => srv'[d] = srv[d] /\ runs'[d] = runs[d]
      /\ \/ srv'[c] \in {"running", "ok"} /\ runs'[c] = 1
         \/ srv'[c] \in {"error", "skipped"} /\ runs'[c] = runs[c]
      /\ srv' \in [Calls -> HandlerStates]
      /\ runs' \in [Calls -> Nat]
  BY <1>0 DEF Runs, Ends, TypeOK, HandlerStates, endpoint
<1>2. CallTypes'
  BY <1>1 DEF CallTypes, TypeOK, codecs
<1>3. GenerationPart' /\ CodecPart'
  BY <1>1, CallStepKeeps DEF EndpointPart
<1>4. RunPart'
  <2>1. rpc[c].pc \notin {"idle", "queued"}
    BY DEF CallInvariant, RunPart, none
  <2> QED BY <1>0, <1>1, <2>1 DEF CallInvariant, RunPart, none
<1> QED BY <1>2, <1>3, <1>4 DEF CallInvariant

(* Only a request to a server without a codec makes a handler panic. *)
LEMMA PanicNeedsNoCodec ==
  ASSUME NEW r, "panic" \in Verdicts(r)
  PROVE  inner[r.gen] = none
BY DEF Verdicts, GreeterHandler, InvokeWithArgs, UnmarshalRequest, Dec, Decoded

(* Invoke and the stub make requests, with the codec the client has. *)
LEMMA RequestOfClient ==
  ASSUME TypeOK, NEW c \in Calls, NEW k \in Keys,
         \/ SayHello(c, k) \/ SayHelloStream(c, k)
         \/ \E m \in UnaryMethods, p \in BOOLEAN : Invoke(c, k, m, p)
  PROVE  \E m \in UnaryMethods \cup Streams, p \in BOOLEAN,
            codec \in Codecs \cup {none} : Request(c, k, m, p, codec)
<1>1. InnerCodec("client") \in Codecs \cup {none}
  BY CodecOfSide DEF Sides
<1>2. /\ PBCodecName \in Codecs
      /\ {"SayHello", "SayHelloStream"} \subseteq UnaryMethods \cup Streams
  BY DEF Codecs, UnaryMethods, Provided, Streams
<1> QED BY <1>1, <1>2 DEF SayHello, SayHelloStream, Invoke

LEMMA NextKeeps ==
  TypeOK /\ CallInvariant /\ [Next]_vars => (TypeOK /\ CallInvariant)'
<1> SUFFICES ASSUME TypeOK, CallInvariant, [Next]_vars
             PROVE  (TypeOK /\ CallInvariant)'
  OBVIOUS
<1>0. Server!TypeOK /\ EndpointPart
  BY DEF TypeOK, CallInvariant, GenerationPart, EndpointPart
<1>1. Server!TypeOK' /\ EndpointPart'
  BY <1>0, StepsOfEndpoint, EndpointTyped
<1>2. CASE ServerStep
  <2>1. CASE NewGrpcServerWithCodec
    BY <1>1, <2>1, CodecStepKeeps DEF CallTypes, TypeOK
  <2>2. CASE EndpointStep
    <3>1. UNCHANGED <<built, codecType, codecs, killer, rpc, srv, runs>>
      BY <2>2 DEF EndpointStep, handlers, Server!Store, Server!Open, Server!Skip,
                  Server!Stop, Server!Connect
    <3>2. CallTypes'
      BY <3>1 DEF CallTypes, TypeOK, codecs
    <3>3. GenerationPart' /\ CodecPart'
      BY <1>1, <3>1, CallStepKeeps DEF EndpointPart
    <3>4. RunPart'
      BY <3>1 DEF CallInvariant, RunPart
    <3> QED BY <1>1, <3>2, <3>3, <3>4 DEF CallTypes, TypeOK, CallInvariant
  <2>3. CASE Dies(nil)
    BY <1>1, <2>3, DiesKeeps DEF CallTypes, TypeOK
  <2>4. ASSUME NEW g \in Gens, LosesConnections(g)
        PROVE  CallTypes' /\ CallInvariant'
    <3>1. /\ Cut({g}, {"inflight"})
          /\ UNCHANGED <<built, codecType, codecs, runs, killer>>
      BY <2>4 DEF LosesConnections, Server!Replace, Server!Disconnect
    <3>2. /\ killer' \in Gens \cup {nil} /\ killer' <= built
          /\ killer' # nil => killer' <= since
      BY <3>1 DEF TypeOK, CallInvariant, GenerationPart, CodecPart,
                  RefreshHealsCodec
    <3> QED BY <1>1, <3>1, <3>2, CutKeeps
  <2>5. ASSUME NEW c \in Calls, Handle(c) \/ HandlerReturns(c) \/ HandlerFails(c)
        PROVE  CallTypes' /\ CallInvariant'
    <3>1. /\ srv[c] \in {"inflight", "running"}
          /\ rpc[c].gen \in Gens /\ rpc[c].gen <= built
      <4>1. srv[c] \in {"inflight", "running"}
        BY <2>5 DEF Handle, HandlerReturns, HandlerFails
      <4>2. rpc[c].gen \in Gens \cup {nil}
        BY DEF TypeOK, Rpcs
      <4> QED BY <4>1, <4>2 DEF CallInvariant, GenerationPart
    <3>2. CASE Dies(nil) \/ (Dies(rpc[c].gen) /\ inner[rpc[c].gen] = none)
      BY <1>1, <3>1, <3>2, DiesKeeps
    <3>3. CASE \/ srv[c] = "inflight" /\ Runs(c)
               \/ srv[c] = "running" /\ Ends(c, "ok")
               \/ srv[c] \in {"inflight", "running"} /\ Ends(c, "error")
               \/ srv[c] = "inflight" /\ Ends(c, "skipped")
      BY <1>1, <3>3, HandlerKeeps
    <3> QED BY <2>5, <3>2, <3>3, PanicNeedsNoCodec
            DEF Handle, HandlerReturns, HandlerFails
  <2> QED BY <1>1, <1>2, <2>1, <2>2, <2>3, <2>4, <2>5
          DEF ServerStep, CallTypes, TypeOK
<1>3. ASSUME NEW s \in Sides, NEW f \in Factories, SetTripleCodec(s, f)
      PROVE  CallTypes' /\ CallInvariant'
  BY <1>1, <1>3, CodecStepKeeps
<1>4. ASSUME NEW c \in Calls, NEW k \in Keys,
             \/ SayHello(c, k) \/ SayHelloStream(c, k)
             \/ \E m \in UnaryMethods, p \in BOOLEAN : Invoke(c, k, m, p)
      PROVE  CallTypes' /\ CallInvariant'
  BY <1>1, <1>4, RequestOfClient, ClientKeeps
<1>5. ASSUME NEW c \in Calls, ClientStep(c) \/ Timeout(c) \/ CallerCancels(c)
      PROVE  CallTypes' /\ CallInvariant'
  <2>0. {"ok", "Unavailable", "DeadlineExceeded", "Canceled", "error", "EOF"}
          \subseteq Results
    BY DEF Results
  <2>1. \/ Send(c) \/ TransparentRetry(c)
        \/ \E res \in Results : rpc[c].pc # "idle" /\ Returns(c, res)
    BY <1>5, <2>0 DEF ClientStep, Refused, ConnectionLost, Reply, Timeout,
                CallerCancels
  <2> QED BY <1>1, <2>1, ClientKeeps
<1>6. CASE UNCHANGED vars
  <2>1. UNCHANGED <<built, codecType, codecs, killer, rpc, srv, runs>>
    BY <1>6 DEF vars, codecs
  <2>2. CallTypes'
    BY <2>1 DEF CallTypes, TypeOK, codecs
  <2>3. GenerationPart' /\ CodecPart'
    BY <1>1, <2>1, CallStepKeeps DEF EndpointPart
  <2>4. RunPart'
    BY <2>1 DEF CallInvariant, RunPart
  <2> QED BY <1>1, <2>2, <2>3, <2>4 DEF CallTypes, TypeOK, CallInvariant
<1> QED BY <1>1, <1>2, <1>3, <1>4, <1>5, <1>6 DEF Next, CallTypes, TypeOK

LEMMA InitKeeps == Init => TypeOK /\ CallInvariant
<1> SUFFICES ASSUME Init PROVE TypeOK /\ CallInvariant
  OBVIOUS
<1>0. MaxGen \in Nat /\ nil = 0
  BY CallAssumption DEF nil, Server!nil
<1>1. Server!TypeOK
  BY <1>0 DEF Init, Server!Init, Server!TypeOK, Server!nil
<1>2. CallTypes
  <2>1. [pc |-> "idle", key |-> none, method |-> none, payload |-> FALSE,
         codec |-> none, gen |-> nil, service |-> none, retried |-> FALSE,
         result |-> none] \in Rpcs
    BY DEF Rpcs, Results
  <2>2. since \in 0..MaxGen
    BY <1>0 DEF Init
  <2> QED BY <2>1, <2>2 DEF Init, CallTypes, HandlerStates
<1>3. GenerationPart
  BY <1>0 DEF Init, Server!Init, GenerationPart, Server!nil, none
<1>4. CodecPart
  <2>1. built = 0 /\ killer = nil
    BY DEF Init, Server!Init
  <2> QED BY <1>0, <2>1 DEF Init, CodecPart, RefreshHealsCodec, Gens, Server!Gens
<1>5. RunPart
  BY DEF Init, RunPart, none
<1> QED BY <1>1, <1>2, <1>3, <1>4, <1>5 DEF CallTypes, TypeOK, CallInvariant

(* Requests, codecs and runs are in step, for any number of calls and      *)
(* generations (dubbo3_server.go:242-247, codec.go:31-53).                 *)
THEOREM CallsCorrect == Spec => []InductiveInvariant
<1>1. Init => InductiveInvariant
  BY InitKeeps DEF InductiveInvariant
<1>2. InductiveInvariant /\ [Next]_vars => InductiveInvariant'
  BY NextKeeps DEF InductiveInvariant
<1> QED BY <1>1, <1>2, PTL DEF Spec

(* Calls, handlers and the endpoint are well formed at all times. *)
THEOREM TypeCorrect == Spec => []TypeOK
BY CallsCorrect, PTL DEF InductiveInvariant

(* A missing codec kills only servers built before it was registered, so   *)
(* that a refresh heals it (dubbo3_server.go:242-247).                     *)
THEOREM RefreshHeals == Spec => []RefreshHealsCodec
<1>1. CallInvariant => RefreshHealsCodec
  BY DEF CallInvariant, CodecPart
<1> QED BY <1>1, CallsCorrect, PTL DEF InductiveInvariant

-------------------------------------------------------------------------------
(* The refinement: every step, seen call by call, is one of RemoteCall.    *)

RemoteStep == [Remote!Next]_<<[c \in Calls |-> Outcome(c)], [c \in Calls |-> Work(c)]>>

LEMMA Stutters ==
  ASSUME \A c \in Calls : Outcome(c)' = Outcome(c) /\ Work(c)' = Work(c)
  PROVE  RemoteStep
BY DEF RemoteStep

LEMMA StepOfOneCall ==
  ASSUME NEW c \in Calls,
         \A d \in Calls : d # c => Outcome(d)' = Outcome(d) /\ Work(d)' = Work(d),
         \/ /\ Outcome(c) = "new" /\ Outcome(c)' \in {"pending", "failure"}
            /\ Work(c)' = Work(c)
         \/ /\ Outcome(c) # "new" /\ Outcome(c)' = Outcome(c)
            /\ Work(c) = "none" /\ Work(c)' = "running"
         \/ /\ Work(c) = "running" /\ Work(c)' \in {"ok", "error"}
            /\ Outcome(c)' = Outcome(c)
         \/ /\ Outcome(c) = "pending" /\ Outcome(c)' = "success"
            /\ Work(c) = "ok" /\ Work(c)' = Work(c)
         \/ /\ Outcome(c) = "pending" /\ Outcome(c)' = "failure"
            /\ Work(c)' = Work(c)
  PROVE  RemoteStep
<1> DEFINE o == [d \in Calls |-> Outcome(d)]
           w == [d \in Calls |-> Work(d)]
<1>1. \/ Outcome(c)' = Outcome(c) /\ o' = o
      \/ o' = [o EXCEPT ![c] = Outcome(c)']
  OBVIOUS
<1>2. \/ Work(c)' = Work(c) /\ w' = w
      \/ w' = [w EXCEPT ![c] = Work(c)']
  OBVIOUS
<1>3. o[c] = Outcome(c) /\ w[c] = Work(c)
  OBVIOUS
<1>4. Remote!Begin(c) \/ Remote!Run(c) \/ Remote!Finish(c) \/ Remote!Succeed(c)
        \/ Remote!Fail(c)
  BY <1>1, <1>2, <1>3
     DEF Remote!Begin, Remote!Run, Remote!Finish, Remote!Succeed, Remote!Fail
<1> QED BY <1>4 DEF RemoteStep, Remote!Next

LEMMA CutStutters ==
  ASSUME TypeOK, CallInvariant, NEW gs,
         NEW gone \in SUBSET {"inflight", "running"}, Cut(gs, gone),
         UNCHANGED runs
  PROVE  RemoteStep
<1> SUFFICES ASSUME NEW c \in Calls
             PROVE  Outcome(c)' = Outcome(c) /\ Work(c)' = Work(c)
  BY Stutters
<1>1. /\ rpc'[c].result = rpc[c].result
      /\ rpc'[c].pc = rpc[c].pc \/ (rpc[c].pc = "sent" /\ rpc'[c].pc = "lost")
      /\ srv'[c] = srv[c] \/ (srv[c] \in gone /\ srv'[c] = "lost")
  BY CutEffect
<1>2. /\ srv[c] = "inflight" => runs[c] = 0
      /\ srv[c] = "running" => runs[c] = 1
  BY DEF CallInvariant, RunPart
<1>3. Outcome(c)' = Outcome(c)
  BY <1>1 DEF Outcome
<1>4. Work(c)' = Work(c)
  BY <1>1, <1>2 DEF Work
<1> QED BY <1>3, <1>4

LEMMA ClientImplements ==
  ASSUME TypeOK, CallInvariant, NEW c \in Calls,
         \/ \E k \in Keys, m \in UnaryMethods \cup Streams, p \in BOOLEAN,
               codec \in Codecs \cup {none} : Request(c, k, m, p, codec)
         \/ Send(c) \/ TransparentRetry(c)
         \/ \E res \in Results : /\ rpc[c].pc \in {"queued", "sent", "lost"}
                                 /\ res = "ok" => srv[c] = "ok"
                                 /\ Returns(c, res)
  PROVE  RemoteStep
<1>0. /\ rpc[c].pc = "queued" => runs[c] = 0
      /\ srv[c] = "ok" => runs[c] = 1
  BY DEF CallInvariant, RunPart
<1>1. CASE \E k \in Keys, m \in UnaryMethods \cup Streams, p \in BOOLEAN,
              codec \in Codecs \cup {none} : Request(c, k, m, p, codec)
  <2>1. /\ UNCHANGED <<srv, runs>> /\ rpc[c].pc = "idle"
        /\ \A d \in Calls : d # c => rpc'[d] = rpc[d]
        /\ \/ rpc'[c].pc = "queued"
           \/ rpc'[c].pc = "done" /\ rpc'[c].result = "Unimplemented"
    <3>1. UNCHANGED <<srv, runs>>
      BY <1>1 DEF Request, handlers
    <3> QED BY <1>1, <3>1, RequestEffect
  <2>2. \A d \in Calls : Work(d)' = Work(d) /\ (d # c => Outcome(d)' = Outcome(d))
    BY <2>1 DEF Work, Outcome
  <2>3. Outcome(c) = "new" /\ Outcome(c)' \in {"pending", "failure"}
    BY <2>1 DEF Outcome
  <2> QED BY <2>2, <2>3, StepOfOneCall
<1>2. CASE Send(c) \/ TransparentRetry(c)
  <2>1. /\ \A d \in Calls : d # c => rpc'[d] = rpc[d] /\ srv'[d] = srv[d]
        /\ UNCHANGED runs /\ runs[c] = 0
        /\ rpc[c].pc \in {"queued", "lost"} /\ rpc'[c].pc \in {"sent", "queued"}
    <3>1. CASE Send(c)
      BY <1>0, <3>1, SendEffect DEF TypeOK
    <3>2. CASE TransparentRetry(c)
      BY <3>2, RetryEffect DEF TransparentRetry, handlers
    <3> QED BY <1>2, <3>1, <3>2
  <2>2. \A d \in Calls : d # c => Work(d)' = Work(d) /\ Outcome(d)' = Outcome(d)
    BY <2>1 DEF Work, Outcome
  <2>3. Work(c)' = Work(c)
    BY <2>1 DEF Work
  <2>4. Outcome(c)' = "pending" /\ Outcome(c) = "pending"
    BY <2>1 DEF Outcome
  <2> QED BY <2>2, <2>3, <2>4, Stutters
<1>3. ASSUME NEW res \in Results, rpc[c].pc \in {"queued", "sent", "lost"},
             res = "ok" => srv[c] = "ok", Returns(c, res)
      PROVE  RemoteStep
  <2>1. /\ UNCHANGED <<srv, runs>>
        /\ \A d \in Calls : d # c => rpc'[d] = rpc[d]
        /\ rpc'[c].pc = "done" /\ rpc'[c].result = res
    <3>1. UNCHANGED <<srv, runs>>
      BY <1>3 DEF Returns, handlers
    <3> QED BY <1>3, <3>1, ReturnsEffect
  <2>2. \A d \in Calls : Work(d)' = Work(d) /\ (d # c => Outcome(d)' = Outcome(d))
    BY <2>1 DEF Work, Outcome
  <2>3. /\ Outcome(c) = "pending"
        /\ Outcome(c)' = IF res = "ok" THEN "success" ELSE "failure"
    BY <1>3, <2>1 DEF Outcome
  <2>4. res = "ok" => Work(c) = "ok"
    BY <1>0, <1>3 DEF Work
  <2> QED BY <2>2, <2>3, <2>4, StepOfOneCall
<1> QED BY <1>1, <1>2, <1>3

LEMMA HandlerImplements ==
  ASSUME TypeOK, CallInvariant, NEW c \in Calls,
         \/ srv[c] = "inflight" /\ Runs(c)
         \/ srv[c] = "running" /\ Ends(c, "ok")
         \/ srv[c] \in {"inflight", "running"} /\ Ends(c, "error")
         \/ srv[c] = "inflight" /\ Ends(c, "skipped")
  PROVE  RemoteStep
<1>0. /\ runs[c] = IF srv[c] = "inflight" THEN 0 ELSE 1
      /\ rpc[c].pc # "idle"
  BY DEF CallInvariant, RunPart, none
<1>1. /\ UNCHANGED rpc
      /\ \A d \in Calls : d # c => srv'[d] = srv[d] /\ runs'[d] = runs[d]
  BY DEF Runs, Ends, TypeOK
<1>2. \A d \in Calls : Outcome(d)' = Outcome(d) /\ (d # c => Work(d)' = Work(d))
  BY <1>1 DEF Outcome, Work
<1>3. rpc[c].pc \in {"idle", "queued", "sent", "lost", "done"}
  BY DEF TypeOK, Rpcs
<1>4. Outcome(c) # "new"
  BY <1>0, <1>3 DEF Outcome
<1>5. CASE srv[c] = "inflight" /\ Runs(c)
  <2>1. srv'[c] = "running" /\ runs'[c] = 1
    BY <1>0, <1>5 DEF Runs, TypeOK
  <2>2. Work(c) = "none" /\ Work(c)' = "running"
    BY <1>0, <1>5, <2>1 DEF Work
  <2> QED BY <1>2, <1>4, <2>2, StepOfOneCall
<1>6. CASE srv[c] = "inflight" /\ (Ends(c, "error") \/ Ends(c, "skipped"))
  <2>1. runs'[c] = 0 /\ runs[c] = 0
    BY <1>0, <1>6 DEF Ends
  <2>2. Work(c)' = Work(c)
    BY <2>1 DEF Work
  <2> QED BY <1>2, <2>2, Stutters
<1>7. CASE srv[c] = "running" /\ (Ends(c, "ok") \/ Ends(c, "error"))
  <2>1. srv'[c] \in {"ok", "error"} /\ runs'[c] = 1 /\ runs[c] = 1
    BY <1>0, <1>7 DEF Ends, TypeOK
  <2>2. Work(c) = "running" /\ Work(c)' \in {"ok", "error"}
    BY <1>7, <2>1 DEF Work
  <2> QED BY <1>2, <2>2, StepOfOneCall
<1> QED BY <1>5, <1>6, <1>7

LEMMA NextImplements ==
  ASSUME TypeOK, CallInvariant, [Next]_vars
  PROVE  RemoteStep
<1>0. ASSUME UNCHANGED <<rpc, srv, runs>>
      PROVE  RemoteStep
  BY <1>0, Stutters DEF Outcome, Work
<1>1. ASSUME NEW g, Dies(g)
      PROVE  RemoteStep
  BY <1>1, CutStutters DEF Dies
<1>2. CASE ServerStep
  <2>1. CASE NewGrpcServerWithCodec \/ EndpointStep
    BY <1>0, <2>1 DEF NewGrpcServerWithCodec, EndpointStep, handlers
  <2>2. ASSUME NEW g \in Gens, LosesConnections(g)
        PROVE  RemoteStep
    BY <2>2, CutStutters DEF LosesConnections
  <2>3. ASSUME NEW c \in Calls, Handle(c) \/ HandlerReturns(c) \/ HandlerFails(c)
        PROVE  RemoteStep
    <3>1. CASE Dies(nil) \/ Dies(rpc[c].gen)
      BY <1>1, <3>1
    <3>2. CASE \/ srv[c] = "inflight" /\ Runs(c)
               \/ srv[c] = "running" /\ Ends(c, "ok")
               \/ srv[c] \in {"inflight", "running"} /\ Ends(c, "error")
               \/ srv[c] = "inflight" /\ Ends(c, "skipped")
      BY <3>2, HandlerImplements
    <3> QED BY <2>3, <3>1, <3>2 DEF Handle, HandlerReturns, HandlerFails
  <2> QED BY <1>1, <1>2, <2>1, <2>2, <2>3 DEF ServerStep
<1>3. ASSUME NEW s \in Sides, NEW f \in Factories, SetTripleCodec(s, f)
      PROVE  RemoteStep
  BY <1>0, <1>3 DEF SetTripleCodec, handlers
<1>4. ASSUME NEW c \in Calls, NEW k \in Keys,
             \/ SayHello(c, k) \/ SayHelloStream(c, k)
             \/ \E m \in UnaryMethods, p \in BOOLEAN : Invoke(c, k, m, p)
      PROVE  RemoteStep
  BY <1>4, RequestOfClient, ClientImplements
<1>5. ASSUME NEW c \in Calls, ClientStep(c) \/ Timeout(c) \/ CallerCancels(c)
      PROVE  RemoteStep
  <2>0. {"ok", "Unavailable", "DeadlineExceeded", "Canceled", "error", "EOF"}
          \subseteq Results
    BY DEF Results
  <2>1. \/ Send(c) \/ TransparentRetry(c)
        \/ \E res \in Results : /\ rpc[c].pc \in {"queued", "sent", "lost"}
                                /\ res = "ok" => srv[c] = "ok"
                                /\ Returns(c, res)
    BY <1>5, <2>0 DEF ClientStep, Refused, ConnectionLost, Reply, Timeout,
                CallerCancels
  <2> QED BY <2>1, ClientImplements
<1>6. CASE UNCHANGED vars
  BY <1>0, <1>6 DEF vars
<1> QED BY <1>2, <1>3, <1>4, <1>5, <1>6 DEF Next

(* For any number of calls and refreshes, a call is a RemoteCall: it runs  *)
(* at most once and succeeds only if it has run and succeeded              *)
(* (dubbo3_conn.go:44-54, dubbo3_server.go:168-195).                       *)
THEOREM Implements == Spec => ImplementsRemoteCall
<1>1. Init => Remote!Init
  BY DEF Init, Remote!Init, Outcome, Work
<1>2. TypeOK /\ CallInvariant /\ [Next]_vars
        => [Remote!Next]_<<[c \in Calls |-> Outcome(c)], [c \in Calls |-> Work(c)]>>
  BY NextImplements DEF RemoteStep
<1> QED
  BY <1>1, <1>2, CallsCorrect, PTL DEF InductiveInvariant, Spec, ImplementsRemoteCall, Remote!Spec

===============================================================================
