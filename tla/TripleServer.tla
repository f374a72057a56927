----------------------------- MODULE TripleServer -----------------------------
(***************************************************************************)
(* The life of a TripleServer (pkg/triple/dubbo3_server.go): Start,        *)
(* RefreshService and Stop, called by goroutines of the application while  *)
(* it goes on storing services in rpcServiceMap.                           *)
(*                                                                         *)
(* Start and RefreshService each build one gRPC server and try to open one *)
(* listener, so both are named by the call's generation g, a number from   *)
(* 1..MaxGen; 0 is Go's nil. The steps of a call are interleaved with      *)
(* those of other calls and with the Serve goroutines the calls leave      *)
(* behind, and net.Listen may fail for reasons outside the program.        *)
(* The gRPC server, the listener and sync.Map.Range are external.          *)
(*                                                                         *)
(* The fields t.lst and t.grpcServer and a descriptor's ServiceName are    *)
(* shared without a lock. A racing read sees the value of before or of     *)
(* after: keys are taken to have one length, so that a string is told by   *)
(* its pointer, and a half-written nil interface panics like a nil one.    *)
(***************************************************************************)
EXTENDS Naturals, FiniteSets

CONSTANTS
  Callers,     \* goroutines that call Start, RefreshService and Stop
  Keys,        \* interface keys of the services
  UnaryKeys,   \* keys whose service is no TripleGrpcService
  ReflectKey,  \* grpc.reflection.v1alpha.ServerReflection
  Misfits,     \* keys whose value lacks the interface asserted of it
  Descs,       \* the generated grpc.ServiceDesc variables
  DescOf,      \* the variable XXX_ServiceDesc() of a key's service points to
  MaxGen,      \* bound: how many times Start and RefreshService are called
  Serialized,  \* does the application serialize its calls?
  NoName       \* the ServiceName a descriptor is generated with

ASSUME ServerAssumption ==
  /\ UnaryKeys \subseteq Keys
  /\ Misfits \subseteq Keys
  /\ DescOf \in [Keys -> Descs]
  /\ MaxGen \in Nat
  /\ Serialized \in BOOLEAN
  /\ NoName \notin Keys

Gens == 1..MaxGen
nil == 0

VARIABLES
  rpcServiceMap,  \* keys stored so far
  registeredKey,  \* keys Start has registered
  lst,            \* t.lst
  grpcServer,     \* t.grpcServer
  obj,            \* per generation: gRPC server, listener, Serve goroutine
  serviceName,    \* ServiceName of each generated descriptor
  reflected,      \* the gRPC server the reflection service was given
  gens,           \* how many generations there are
  call,           \* per caller: its call of Start or RefreshService
  stopped,        \* generations whose listener Stop has closed
  refused,        \* has RefreshService's net.Listen failed from outside?
  crashed         \* why the process has died, or "no"

refs == <<lst, grpcServer>>
names == <<serviceName, reflected>>
world == <<rpcServiceMap, stopped, refused, crashed>>
vars == <<rpcServiceMap, registeredKey, lst, grpcServer, obj, serviceName,
          reflected, gens, call, stopped, refused, crashed>>

Steps == {"idle", "range", "register", "insert", "stopOld", "closeOld",
          "listen", "spawn", "setLst", "setServer"}

(* Of a gRPC server: its registrations are pairs of a name and the key of  *)
(* a service, conn says if it serves a connection it has accepted, and     *)
(* asked is what was stored when the call that builds it began, kept until *)
(* its Serve goroutine has had its turn.                                   *)
Objects == [server: {"none", "built", "stopped"},
            services: SUBSET ((Keys \cup {NoName}) \X Keys),
            asked: SUBSET Keys,
            conn: BOOLEAN,
            listener: {"none", "open", "closed"},
            serve: {"none", "spawned", "accepting", "returned"}]

Fresh == [server |-> "none", services |-> {}, asked |-> {}, conn |-> FALSE,
          listener |-> "none", serve |-> "none"]

(* Of a call: the keys Range has visited and the one being registered.     *)
CallRecords == [pc: Steps, op: {"none", "Start", "RefreshService"},
                gen: Gens \cup {nil}, visited: SUBSET Keys,
                key: Keys \cup {NoName}]

TypeOK ==
  /\ rpcServiceMap \subseteq Keys
  /\ registeredKey \subseteq Keys
  /\ lst \in Gens \cup {nil}
  /\ grpcServer \in Gens \cup {nil}
  /\ obj \in [Gens -> Objects]
  /\ serviceName \in [Descs -> Keys \cup {NoName}]
  /\ reflected \in Gens \cup {nil}
  /\ gens \in 0..MaxGen
  /\ call \in [Callers -> CallRecords]
  /\ stopped \subseteq Gens
  /\ refused \in BOOLEAN
  /\ crashed \in {"no", "listen", "refused", "nilServer", "nilListener",
                  "serveNil", "duplicate", "assertion"}

(* NewTripleServer: the map comes from the application, with services in   *)
(* it or not.                                                              *)
Init ==
  /\ rpcServiceMap \in SUBSET Keys
  /\ registeredKey = {}
  /\ lst = nil /\ grpcServer = nil
  /\ obj = [g \in Gens |-> Fresh]
  /\ serviceName = [d \in Descs |-> NoName]
  /\ reflected = nil
  /\ gens = 0
  /\ call = [c \in Callers |-> [pc |-> "idle", op |-> "none", gen |-> nil,
                                visited |-> {}, key |-> NoName]]
  /\ stopped = {}
  /\ refused = FALSE
  /\ crashed = "no"

-------------------------------------------------------------------------------
(* External: net.Listen fails on an address this process listens on, and   *)
(* may fail on any other (another process has it, it is no address, there  *)
(* are no descriptors left).                                               *)
PortFree == \A g \in Gens : obj[g].listener # "open"

Crash(why) ==
  /\ crashed' = why
  /\ UNCHANGED <<rpcServiceMap, stopped, refused, registeredKey, refs, names, obj,
                 gens, call>>

At(c, step) == call[c].pc = step

MayCall(c) == /\ At(c, "idle")
              /\ Serialized => \A d \in Callers : At(d, "idle")

(* A call of Start or RefreshService begins: newGrpcServerWithCodec.       *)
BuildServer(c, method, listener) ==
  /\ gens < MaxGen
  /\ gens' = gens + 1
  /\ obj' = [obj EXCEPT ![gens + 1].server = "built",
                        ![gens + 1].asked = rpcServiceMap,
                        ![gens + 1].listener = listener]
  /\ call' = [call EXCEPT ![c] = [pc |-> "range", op |-> method,
                                  gen |-> gens + 1, visited |-> {},
                                  key |-> NoName]]
  /\ UNCHANGED <<registeredKey, refs, names, world>>

Start(c) ==
  /\ MayCall(c)
  /\ \/ PortFree /\ BuildServer(c, "Start", "open")
     \/ ~PortFree /\ Crash("listen")
     \/ Crash("refused")

RefreshService(c) == MayCall(c) /\ BuildServer(c, "RefreshService", "none")

-------------------------------------------------------------------------------
(* rpcServiceMap.Range. Every key that is there when it begins is visited  *)
(* once, one stored meanwhile may be. grpcServer.RegisterService reads the *)
(* descriptor's name twice: it is fatal if a service has that name, and    *)
(* the service is then entered under the name that is read next.           *)

(* Do the type assertions on the value of k hold? Of a service that is no  *)
(* TripleGrpcService none holds for the reflection key.                    *)
Fits(k) == IF k \in UnaryKeys THEN k \notin Misfits \cup {ReflectKey}
           ELSE k = ReflectKey => k \notin Misfits

Visit(c, k) ==
  /\ At(c, "range") /\ k \in rpcServiceMap \ call[c].visited
  /\ UNCHANGED <<refs, reflected, gens, world>>

(* s.services[name] = info: what was there under the name is gone. *)
Register(c, name, k) ==
  obj' = [obj EXCEPT ![call[c].gen].services =
            {r \in @ : r[1] # name} \cup {<<name, k>>}]

NoteRegistered(c, k) ==
  registeredKey' = registeredKey \cup (IF call[c].op = "Start" THEN {k} ELSE {})

RegistersNewKeysOnly(c, k) ==
  /\ Visit(c, k) /\ k \in UnaryKeys
  /\ IF k \in registeredKey THEN UNCHANGED obj ELSE Register(c, k, k)
  /\ NoteRegistered(c, k)
  /\ call' = [call EXCEPT ![c].visited = @ \cup {k}]
  /\ UNCHANGED serviceName

(* createGrpcDesc makes a descriptor of its own, so the name is k and no   *)
(* other service of this gRPC server has it.                               *)
VisitUnary(c, k) ==
  \/ /\ Visit(c, k) /\ k \in UnaryKeys /\ Fits(k)
     /\ Register(c, k, k)
     /\ NoteRegistered(c, k)
     /\ call' = [call EXCEPT ![c].visited = @ \cup {k}]
     /\ UNCHANGED serviceName
  \/ /\ At(c, "range") /\ k \in rpcServiceMap \ call[c].visited
     /\ k \in UnaryKeys /\ ~Fits(k)
     /\ Crash("assertion")

NamesDesc(c, k, name) ==
  /\ Visit(c, k) /\ k \notin UnaryKeys
  /\ serviceName' = [serviceName EXCEPT ![DescOf[k]] = name]
  /\ call' = [call EXCEPT ![c].visited = @ \cup {k}, ![c].key = k,
                          ![c].pc = "register"]
  /\ UNCHANGED obj

(* desc := grpcService.XXX_ServiceDesc(); desc.ServiceName = key *)
VisitGrpc(c, k) == NamesDesc(c, k, k) /\ NoteRegistered(c, k)

Registered(c, name, k, reflect) ==
  /\ Register(c, name, k)
  /\ reflected' = IF reflect THEN call[c].gen ELSE reflected
  /\ call' = [call EXCEPT ![c].pc = "range", ![c].key = NoName]
  /\ UNCHANGED <<registeredKey, refs, serviceName, gens, world>>

(* One more step of a call, from one pc to another. *)
Moves(c, from, to) ==
  /\ At(c, from)
  /\ call' = [call EXCEPT ![c].pc = to]
  /\ UNCHANGED <<registeredKey, names, gens>>

Step(c, from, to) == Moves(c, from, to) /\ UNCHANGED world

(* grpcServer.RegisterService(desc, value): is the name that desc has by   *)
(* now registered?                                                         *)
RegisterService(c) ==
  LET name == serviceName[DescOf[call[c].key]]
      duplicate == \E r \in obj[call[c].gen].services : r[1] = name
  IN /\ At(c, "register")
     /\ \/ /\ ~duplicate
           /\ Step(c, "register", "insert")
           /\ UNCHANGED <<refs, obj>>
        \/ duplicate /\ Crash("duplicate")

ReflectsFirstServerOnly(c) ==
  LET k == call[c].key
  IN /\ At(c, "insert")
     /\ Registered(c, serviceName[DescOf[k]], k,
                   k = ReflectKey /\ call[c].op = "Start")

RegistersGeneratedName(c) ==
  LET k == call[c].key
  IN At(c, "insert") /\ Registered(c, NoName, k, k = ReflectKey)

(* The service is entered, with the name desc has by then, and the         *)
(* reflection service is given the server (SetGRPCServer).                 *)
InsertService(c) ==
  LET k == call[c].key
  IN /\ At(c, "insert")
     /\ \/ Fits(k) /\ Registered(c, serviceName[DescOf[k]], k, k = ReflectKey)
        \/ ~Fits(k) /\ Crash("assertion")

EndRange(c) ==
  /\ At(c, "range") /\ obj[call[c].gen].asked \subseteq call[c].visited
  /\ call' = [call EXCEPT ![c].visited = {},
                          ![c].pc = IF call[c].op = "Start" THEN "spawn"
                                    ELSE "stopOld"]
  /\ UNCHANGED <<registeredKey, refs, names, obj, gens, world>>

-------------------------------------------------------------------------------
(* RefreshService: t.grpcServer.Stop(), t.lst.Close(), net.Listen with its *)
(* error ignored. External: Stop closes every connection, and the listener *)
(* only if Serve has registered it.                                        *)

AfterStop(o) ==
  [o EXCEPT !.server = "stopped", !.conn = FALSE,
            !.listener = IF o.serve = "accepting" THEN "closed" ELSE @]

StopsGracefully(c) ==
  /\ Step(c, "stopOld", "closeOld")
  /\ obj' = [obj EXCEPT ![grpcServer].server = "stopped"]
  /\ UNCHANGED refs

StopOld(c) ==
  \/ /\ grpcServer # nil
     /\ Step(c, "stopOld", "closeOld")
     /\ obj' = [obj EXCEPT ![grpcServer] = AfterStop(@)]
     /\ UNCHANGED refs
  \/ At(c, "stopOld") /\ grpcServer = nil /\ Crash("nilServer")

TrustsStopToClose(c) ==
  Step(c, "closeOld", "listen") /\ UNCHANGED <<refs, obj>>

CloseOld(c) ==
  \/ /\ lst # nil
     /\ Step(c, "closeOld", "listen")
     /\ obj' = [obj EXCEPT ![lst].listener = "closed"]
     /\ UNCHANGED refs
  \/ At(c, "closeOld") /\ lst = nil /\ Crash("nilListener")

ListenAgain(c) ==
  /\ Moves(c, "listen", "spawn")
  /\ \/ /\ PortFree
        /\ obj' = [obj EXCEPT ![call[c].gen].listener = "open"]
        /\ UNCHANGED refused
     \/ ~PortFree /\ UNCHANGED <<obj, refused>>
     \/ refused' = TRUE /\ UNCHANGED obj
  /\ UNCHANGED <<refs, rpcServiceMap, stopped, crashed>>

AfterSpawn(c) == IF call[c].op = "Start" THEN "setLst" ELSE "setServer"

ServesOnStartOnly(c) ==
  /\ Step(c, "spawn", AfterSpawn(c))
  /\ obj' = IF call[c].op = "Start"
            THEN [obj EXCEPT ![call[c].gen].serve = "spawned"] ELSE obj
  /\ UNCHANGED refs

(* go grpcServer.Serve(lst) *)
SpawnServe(c) ==
  /\ Step(c, "spawn", AfterSpawn(c))
  /\ obj' = [obj EXCEPT ![call[c].gen].serve = "spawned"]
  /\ UNCHANGED refs

AfterLst(c) == IF call[c].op = "Start" THEN "setServer" ELSE "idle"

KeepsOldListener(c) ==
  /\ Step(c, "setLst", AfterLst(c))
  /\ lst' = IF call[c].op = "Start" THEN call[c].gen ELSE lst
  /\ UNCHANGED <<grpcServer, obj>>

(* Start assigns t.lst, then t.grpcServer; RefreshService the other way    *)
(* round, with t.lst nil when net.Listen has failed.                       *)
SetLst(c) ==
  /\ Step(c, "setLst", AfterLst(c))
  /\ lst' = IF obj[call[c].gen].listener = "none" THEN nil ELSE call[c].gen
  /\ UNCHANGED <<grpcServer, obj>>

SetServer(c) ==
  /\ Step(c, "setServer", IF call[c].op = "Start" THEN "idle" ELSE "setLst")
  /\ grpcServer' = call[c].gen
  /\ UNCHANGED <<lst, obj>>

Stop(c) ==
  /\ MayCall(c)
  /\ \/ /\ lst # nil
        /\ obj' = [obj EXCEPT ![lst].listener = "closed"]
        /\ stopped' = stopped \cup {lst}
        /\ UNCHANGED <<rpcServiceMap, refused, crashed, registeredKey, refs,
                       names, gens, call>>
     \/ lst = nil /\ Crash("nilListener")

-------------------------------------------------------------------------------
(* External: the Serve goroutine of generation g, and its clients. Serving *)
(* a nil listener panics, whether the server is stopped by then or not.    *)

Serving(g, object) ==
  /\ obj' = [obj EXCEPT ![g] = object]
  /\ UNCHANGED <<registeredKey, refs, names, gens, call, world>>

ServeBegins(g) ==
  /\ obj[g].serve = "spawned"
  /\ \/ /\ obj[g].listener # "none"
        /\ Serving(g, [obj[g] EXCEPT
                         !.asked = {},
                         !.serve = IF obj[g].server = "built" THEN "accepting"
                                   ELSE "returned",
                         !.listener = IF obj[g].server = "built" THEN @
                                      ELSE "closed"])
     \/ obj[g].listener = "none" /\ Crash("serveNil")

Accepts(g) ==
  /\ obj[g].serve = "accepting" /\ obj[g].listener = "open" /\ ~obj[g].conn
  /\ Serving(g, [obj[g] EXCEPT !.conn = TRUE])

ServeReturns(g) ==
  /\ obj[g].serve = "accepting" /\ obj[g].listener = "closed"
  /\ Serving(g, [obj[g] EXCEPT !.serve = "returned"])

PeerDisconnects(g) ==
  obj[g].conn /\ Serving(g, [obj[g] EXCEPT !.conn = FALSE])

(* The application stores a service, with or without a refresh to follow.  *)
Store(k) ==
  /\ k \notin rpcServiceMap
  /\ rpcServiceMap' = rpcServiceMap \cup {k}
  /\ UNCHANGED <<registeredKey, refs, names, obj, gens, call, stopped, refused,
                 crashed>>

-------------------------------------------------------------------------------
(* The steps of a call of Start or RefreshService that has begun. *)
CallStep(c) ==
  \/ \E k \in Keys : VisitUnary(c, k) \/ VisitGrpc(c, k)
  \/ RegisterService(c) \/ InsertService(c) \/ EndRange(c)
  \/ StopOld(c) \/ CloseOld(c) \/ ListenAgain(c)
  \/ SpawnServe(c) \/ SetLst(c) \/ SetServer(c)

ServeStep(g) == ServeBegins(g) \/ ServeReturns(g)

Next ==
  /\ crashed = "no"
  /\ \/ \E c \in Callers : \/ Start(c) \/ RefreshService(c) \/ Stop(c)
                            \/ CallStep(c)
     \/ \E g \in Gens : ServeStep(g) \/ Accepts(g) \/ PeerDisconnects(g)
     \/ \E k \in Keys : Store(k)

Spec == Init /\ [][Next]_vars

(* Goroutines that can run do: a call that has begun, and the Serve        *)
(* goroutines. Nothing is assumed of clients, of net.Listen, or of when    *)
(* the application calls.                                                  *)
Fairness == /\ \A c \in Callers : WF_vars(crashed = "no" /\ CallStep(c))
            /\ \A g \in Gens : WF_vars(crashed = "no" /\ ServeStep(g))

FairSpec == Spec /\ Fairness

-------------------------------------------------------------------------------
(* No call of Start or RefreshService is under way. *)
Quiet == crashed = "no" /\ \A c \in Callers : At(c, "idle")

RegisteredAs(g) == {k \in Keys : <<k, k>> \in obj[g].services}

Exposed(g) == {k \in Keys : \E name \in Keys : <<name, k>> \in obj[g].services}

Reachable == {g \in Gens : /\ crashed = "no"
                           /\ obj[g].serve = "accepting"
                           /\ obj[g].listener = "open"}

(* Properties of serialized calls.                                         *)

Alive == crashed = "no"
Want == [g \in Gens |-> obj[g].asked]
Turns == {g \in Gens : obj[g].serve \in {"accepting", "returned"}}
Current == IF Reachable = {} THEN nil ELSE CHOOSE g \in Reachable : TRUE
Offer == UNION {RegisteredAs(g) : g \in Reachable}
Clients == {g \in Gens : crashed = "no" /\ obj[g].conn}

Endpoint ==
  INSTANCE ServiceEndpoint WITH
    alive <- Alive, stored <- rpcServiceMap, built <- gens, want <- Want,
    turns <- Turns, current <- Current, offer <- Offer, clients <- Clients,
    left <- stopped

(* A server whose calls are serialized is a ServiceEndpoint: whatever      *)
(* order Serve goroutines, refreshes, stops and stores come in, a new      *)
(* generation is reached only after the one before has gone, with every    *)
(* service that was stored when it was asked for, under the service's own  *)
(* key although descriptors are shared and renamed, and no client stays    *)
(* behind unless Stop was called (dubbo3_server.go:254-306).               *)
ImplementsEndpoint == Endpoint!Spec

(* Between calls the only listener that may be open is the one Stop would  *)
(* close, and the gRPC server that serves it is the one RefreshService     *)
(* would stop: t.lst and t.grpcServer belong together (dubbo3_server.go:   *)
(* 278-279, 304-305).                                                      *)
NoListenerLeak ==
  Serialized /\ Quiet =>
    \A g \in Gens : obj[g].listener = "open" => g = lst /\ g = grpcServer

(* The reflection service, if it is offered, describes the server in use,  *)
(* not an earlier one (dubbo3_server.go:271-273, 295-297).                 *)
ReflectionFollowsServer ==
  Serialized /\ Quiet /\ grpcServer # nil =>
    (ReflectKey \in Exposed(grpcServer) => reflected = grpcServer)

(* The process dies in a call in these cases only: RefreshService or Stop  *)
(* before the first Start, a second Start while the first serves, a        *)
(* service without the interface its key or its kind calls for, or         *)
(* net.Listen failing from outside. Otherwise RefreshService, which checks *)
(* neither its fields nor net.Listen, never meets a nil or a listener of   *)
(* its own, and no service is registered twice                             *)
(* (dubbo3_server.go:78, 255-258, 268-272, 300-303).                       *)
CrashesExplained ==
  Serialized =>
    \/ crashed \in {"no", "refused"} \/ refused
    \/ crashed \in {"nilServer", "nilListener"} /\ lst = nil /\ grpcServer = nil
    \/ crashed = "listen" /\ lst # nil
    \/ crashed = "assertion" /\ \E k \in rpcServiceMap : ~Fits(k)

(* A service that was stored when a call of Start or RefreshService began  *)
(* is reachable later on, unless the application stops that server or the  *)
(* process dies (dubbo3_server.go:254-306).                                *)
RefreshLeadsToServing ==
  \A c \in Callers, k \in Keys :
    (call[c].pc # "idle" /\ k \in obj[call[c].gen].asked) ~>
      \/ \E g \in Reachable : k \in RegisteredAs(g)
      \/ call[c].gen \in stopped \/ crashed # "no"

(* Properties of calls that may run concurrently.                          *)

(* Concurrent calls can register a service under another one's key, but    *)
(* only among services that share a generated descriptor                   *)
(* (dubbo3_server.go:264-266, 288-290).                                    *)
MixUpsStayInDescriptor ==
  \A g \in Gens : \A r \in obj[g].services :
    r[1] # r[2] => /\ {r[1], r[2]} \subseteq Keys \ UnaryKeys
                   /\ DescOf[r[1]] = DescOf[r[2]]

(* The services that share the descriptor of k; a unary service has one of *)
(* its own.                                                                *)
Kin(k) == IF k \in UnaryKeys THEN {k}
          ELSE {j \in Keys \ UnaryKeys : DescOf[j] = DescOf[k]}

Covered(g) == {k \in Keys : Kin(k) \cap Exposed(g) # {}}

(* Concurrent calls can make the new server lose a service, as the name of *)
(* a shared descriptor may change between the check for a duplicate and    *)
(* the entry, but then a service of the same descriptor has taken its      *)
(* place: once Range has ended, every service that was stored when the     *)
(* call began and has a descriptor to itself is exposed                    *)
(* (dubbo3_server.go:260-274, 285-299).                                    *)
LossesStayInDescriptor ==
  \A c \in Callers :
    call[c].pc \notin {"idle", "range", "register", "insert"} =>
      obj[call[c].gen].asked \subseteq Covered(call[c].gen)

(* A gRPC server that RefreshService has stopped takes no client, even if  *)
(* its Serve goroutine is scheduled only after the Stop                    *)
(* (dubbo3_server.go:276, 300).                                            *)
StoppedServerIsEmpty ==
  \A g \in Gens : obj[g].server = "stopped" => ~obj[g].conn /\ g \notin Reachable

-------------------------------------------------------------------------------
(* What the properties above rest on, step by step.                        *)

Active(c) == call[c].pc # "idle"
InHand(c) == call[c].pc \in {"register", "insert"}

(* A call in progress has a generation of its own. *)
GenerationPart ==
  /\ lst <= gens /\ grpcServer <= gens
  /\ \A g \in Gens : g > gens => obj[g] = Fresh
  /\ \A c \in Callers : Active(c) => call[c].gen \in 1..gens
  /\ \A c, d \in Callers :
       Active(c) /\ Active(d) /\ call[c].gen = call[d].gen => c = d

(* A descriptor is only ever named after services that use it. *)
NamePart ==
  /\ \A d \in Descs : serviceName[d] # NoName =>
       serviceName[d] \in Keys \ UnaryKeys /\ DescOf[serviceName[d]] = d
  /\ \A c \in Callers : InHand(c) =>
       /\ call[c].key \in Keys \ UnaryKeys
       /\ serviceName[DescOf[call[c].key]] # NoName
  /\ MixUpsStayInDescriptor

(* What Range has visited is covered, but for the service in hand. *)
RangePart ==
  /\ \A c \in Callers :
       /\ At(c, "range") => call[c].visited \subseteq Covered(call[c].gen)
       /\ InHand(c) =>
            call[c].visited \subseteq Covered(call[c].gen) \cup {call[c].key}
  /\ LossesStayInDescriptor

(* Nothing serves before the goroutine is spawned, nor after a stop. *)
ServePart ==
  /\ \A c \in Callers :
       Active(c) /\ call[c].pc \notin {"setLst", "setServer"} =>
         obj[call[c].gen].serve = "none"
  /\ \A g \in Gens : obj[g].server = "stopped" =>
       /\ ~obj[g].conn
       /\ obj[g].serve = "accepting" => obj[g].listener # "open"

(* Whatever calls run concurrently: the steps of one never touch the       *)
(* generation of another, descriptors are renamed within their own         *)
(* services only, and a server that was stopped stays empty                *)
(* (dubbo3_server.go:254-306).                                             *)
ConcurrentInvariant == GenerationPart /\ NamePart /\ RangePart /\ ServePart

(* One call at a time, for the newest generation. *)
SerialPart ==
  /\ \A c \in Callers : Active(c) => call[c].gen = gens /\ call[c].op # "none"
  /\ \A c, d \in Callers : Active(c) /\ Active(d) => c = d

(* Has the call in progress replaced the listener that was there before?   *)
Replaced(c) == \/ Active(c) /\ call[c].op = "Start"
               \/ call[c].pc \in {"listen", "spawn", "setLst", "setServer"}

ListenerPart ==
  /\ \A g \in Gens : obj[g].listener = "open" =>
       /\ \A c \in Callers : Replaced(c) => g = gens
       /\ (\A c \in Callers : ~Replaced(c)) => g = lst /\ g = grpcServer
  /\ \A c \in Callers : Active(c) =>
       /\ call[c].op = "Start" => obj[gens].listener # "none"
       /\ call[c].op = "RefreshService" /\ obj[gens].listener # "none" =>
            call[c].pc \in {"spawn", "setLst", "setServer"}
       /\ call[c].pc \in {"spawn", "setLst", "setServer"}
            /\ obj[gens].listener = "none" => refused
  /\ \A g \in Gens :
       obj[g].serve # "none" /\ obj[g].listener = "none" => refused

(* Is the call between its two assignments to t.lst and t.grpcServer?      *)
Assigning(c) == \/ call[c].op = "Start" /\ At(c, "setServer")
                \/ call[c].op = "RefreshService" /\ At(c, "setLst")

FieldsPart ==
  /\ \A c \in Callers :
       /\ Assigning(c) /\ call[c].op = "Start" => lst = gens
       /\ Assigning(c) /\ call[c].op = "RefreshService" => grpcServer = gens
       /\ Active(c) /\ call[c].op = "RefreshService" => lst # gens
       /\ At(c, "closeOld") => grpcServer # nil
  /\ (\A c \in Callers : ~Assigning(c)) =>
       lst = grpcServer \/ (lst = nil /\ refused)

(* Every service is registered once, under its own key. *)
OwnKeyPart ==
  /\ \A g \in Gens : \A r \in obj[g].services : r[1] = r[2]
  /\ \A c \in Callers :
       /\ At(c, "range") \/ InHand(c) =>
            \A r \in obj[gens].services : r[1] \in call[c].visited
       /\ InHand(c) =>
            /\ call[c].key \in call[c].visited \cap rpcServiceMap
            /\ serviceName[DescOf[call[c].key]] = call[c].key
            /\ \A r \in obj[gens].services : r[1] # call[c].key

(* What Range has visited is exposed, but for the service in hand. *)
ExposedPart ==
  \A c \in Callers :
    /\ At(c, "range") => call[c].visited \subseteq Exposed(gens)
    /\ InHand(c) => call[c].visited \subseteq Exposed(gens) \cup {call[c].key}
    /\ Active(c) /\ ~At(c, "range") /\ ~InHand(c) =>
         obj[gens].asked \subseteq Exposed(gens)

ReflectPart ==
  /\ (\E c \in Callers : Active(c)) /\ ReflectKey \in Exposed(gens) =>
       reflected = gens
  /\ (\A c \in Callers : ~Active(c)) /\ grpcServer # nil
     /\ ReflectKey \in Exposed(grpcServer) => reflected = grpcServer

(* If the application serializes its calls, t.lst and t.grpcServer are     *)
(* those of one generation except between their assignments, the listener  *)
(* that is open is theirs or the call's own, and every service has its own *)
(* key, whatever Serve goroutines, clients and net.Listen do               *)
(* (dubbo3_server.go:254-312).                                             *)
SerializedInvariant ==
  Serialized =>
    /\ SerialPart /\ ListenerPart /\ FieldsPart
    /\ OwnKeyPart /\ ExposedPart /\ ReflectPart

(* RefreshService is about to stop the newest server but its own. *)
NewestPart ==
  /\ \A c \in Callers : Active(c) =>
       IF call[c].op = "RefreshService" /\ At(c, "setLst")
       THEN grpcServer = gens ELSE grpcServer + 1 = gens
  /\ (\A c \in Callers : ~Active(c)) => grpcServer = gens
  /\ \A c \in Callers : At(c, "closeOld") => obj[grpcServer].server = "stopped"

(* Connections are to a server that listens, or did until Stop. *)
ClientPart ==
  \A g \in Gens : obj[g].conn =>
    /\ obj[g].serve \in {"accepting", "returned"}
    /\ obj[g].listener = "open" \/ g \in stopped

(* Nothing is registered that was not stored, and nothing that was asked   *)
(* for is missing when the turn of Serve comes.                            *)
OfferPart ==
  \A g \in Gens :
    /\ \A r \in obj[g].services : r[2] \in rpcServiceMap
    /\ obj[g].serve = "spawned" => obj[g].asked \subseteq Exposed(g)

(* If the application serializes its calls, a refresh stops what its       *)
(* predecessor left, clients included, before the new generation can       *)
(* serve, and that one offers what was stored (dubbo3_server.go:281-306).  *)
EndpointInvariant ==
  Serialized => NewestPart /\ ClientPart /\ OfferPart

(* What every step of a call, of a Serve goroutine and of gRPC keeps, with *)
(* overlapping calls and without (dubbo3_server.go:254-312).               *)
InductiveInvariant ==
  TypeOK /\ ConcurrentInvariant /\ SerializedInvariant /\ EndpointInvariant

-------------------------------------------------------------------------------
(* A property the documentation states and the code does not have: "The    *)
(* key of serviceMap is the service id [...] The value is the exposed grpc *)
(* extended service" (docs/README.md:87), so that every service is         *)
(* registered under its own key.                                           *)
RegisteredUnderOwnKey == \A g \in Gens : \A r \in obj[g].services : r[1] = r[2]

===============================================================================
