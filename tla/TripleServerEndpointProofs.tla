---------------------- MODULE TripleServerEndpointProofs ----------------------
(***************************************************************************)
(* Proof that a TripleServer whose calls the application serializes is a   *)
(* ServiceEndpoint, for every set of services and descriptors and any      *)
(* number of refreshes: the invariant this needs beyond the one of         *)
(* TripleServerSerialProofs, and the step of the endpoint, if any, that    *)
(* each step of the server takes.                                          *)
(***************************************************************************)
EXTENDS TripleServerSerialProofs

EndpointStep == [Endpoint!Next]_(Endpoint!vars)

(* What the parts say of serialized calls. *)
LEMMA Parts ==
  ASSUME InductiveInvariant, Serialized
  PROVE  /\ TypeOK /\ ConcurrentInvariant /\ SerializedInvariant
         /\ SerialPart /\ ListenerPart /\ FieldsPart /\ OwnKeyPart
         /\ ExposedPart /\ NewestPart /\ ClientPart /\ OfferPart
BY DEF InductiveInvariant, SerializedInvariant, EndpointInvariant

(* No two listeners are open at a time. *)
LEMMA OneOpen ==
  ASSUME InductiveInvariant, Serialized, NEW g \in Gens, NEW h \in Gens,
         obj[g].listener = "open", obj[h].listener = "open"
  PROVE  g = h
<1>1. ListenerPart
  BY Parts
<1>2. CASE \E c \in Callers : Replaced(c)
  BY <1>1, <1>2 DEF ListenerPart
<1>3. CASE \A c \in Callers : ~Replaced(c)
  BY <1>1, <1>3 DEF ListenerPart
<1> QED BY <1>2, <1>3

LEMMA OnlyMember ==
  ASSUME NEW S, NEW g, S = {g}
  PROVE  (IF S = {} THEN nil ELSE CHOOSE h \in S : TRUE) = g
OBVIOUS

(* The generation in use, if there is one. *)
LEMMA ReachableOnly ==
  ASSUME InductiveInvariant, Serialized, NEW g \in Reachable
  PROVE  Reachable = {g} /\ Current = g /\ Offer = RegisteredAs(g)
<1>1. Reachable = {g}
  <2>1. \A h \in Reachable : h = g
    BY OneOpen DEF Reachable
  <2> QED BY <2>1
<1>2. Current = g
  BY <1>1, OnlyMember DEF Current
<1>3. Offer = RegisteredAs(g)
  BY <1>1 DEF Offer
<1> QED BY <1>1, <1>2, <1>3

(* A step that changes nothing of what clients can see. *)
LEMMA Stutters ==
  ASSUME UNCHANGED <<crashed, rpcServiceMap, gens, stopped>>,
         \A g \in Gens :
           /\ obj'[g].asked = obj[g].asked
           /\ obj'[g].conn = obj[g].conn
           /\ obj'[g].serve \in {"accepting", "returned"} <=>
                obj[g].serve \in {"accepting", "returned"}
           /\ obj'[g].serve = "accepting" /\ obj'[g].listener = "open" <=>
                obj[g].serve = "accepting" /\ obj[g].listener = "open"
           /\ obj[g].serve = "accepting" => obj'[g].services = obj[g].services
  PROVE  UNCHANGED Endpoint!vars
<1>1. Want' = Want /\ Turns' = Turns /\ Clients' = Clients /\ Alive' = Alive
  BY DEF Want, Turns, Clients, Alive
<1>2. Reachable' = Reachable
  BY DEF Reachable
<1>3. Current' = Current
  BY <1>2 DEF Current
<1>4. Offer' = Offer
  <2>1. \A g \in Reachable : RegisteredAs(g)' = RegisteredAs(g)
    BY DEF Reachable, RegisteredAs
  <2> QED BY <1>2, <2>1 DEF Offer
<1> QED BY <1>1, <1>3, <1>4 DEF Endpoint!vars

(* A panic or a Fatalf is the end of the endpoint. *)
LEMMA Dies ==
  ASSUME crashed = "no", NEW why, why # "no", Crash(why)
  PROVE  Endpoint!Die
<1>1. /\ crashed' # "no"
      /\ UNCHANGED <<rpcServiceMap, stopped, obj, gens>>
  BY DEF Crash
<1>2. Reachable' = {} /\ Clients' = {}
  BY <1>1 DEF Reachable, Clients
<1>3. Current' = nil /\ Offer' = {}
  BY <1>2 DEF Current, Offer
<1>4. Alive /\ Alive' = FALSE
  BY <1>1 DEF Alive
<1>5. Want' = Want /\ Turns' = Turns
  BY <1>1 DEF Want, Turns
<1> QED BY <1>1, <1>2, <1>3, <1>4, <1>5 DEF Endpoint!Die, Endpoint!nil, nil

-------------------------------------------------------------------------------
(* The steps of the server, one by one.                                    *)

(* Clients and offers are kept by a step that brings no connection, opens  *)
(* no listener that had one, and registers nothing.                        *)
LEMMA QuietStep ==
  ASSUME ClientPart, OfferPart, rpcServiceMap \subseteq rpcServiceMap',
         stopped \subseteq stopped',
         \A g \in Gens :
           /\ obj'[g].conn =>
                /\ obj[g].conn
                /\ obj[g].serve \in {"accepting", "returned"} =>
                     obj'[g].serve \in {"accepting", "returned"}
                /\ obj[g].listener = "open" =>
                     obj'[g].listener = "open" \/ g \in stopped'
           /\ obj'[g].services = obj[g].services
           /\ obj'[g].serve = "spawned" =>
                obj[g].serve = "spawned" /\ obj'[g].asked = obj[g].asked
  PROVE  ClientPart' /\ OfferPart'
<1>1. ClientPart'
  BY DEF ClientPart
<1>2. \A g \in Gens : Exposed(g)' = Exposed(g)
  BY DEF Exposed
<1>3. OfferPart'
  BY <1>2 DEF OfferPart
<1> QED BY <1>1, <1>3

(* Start and RefreshService begin: a new generation, asked for what is     *)
(* stored.                                                                 *)
LEMMA BuildEndpoint ==
  ASSUME InductiveInvariant, Serialized, crashed = "no", NEW c \in Callers,
         MayCall(c), NEW method \in {"Start", "RefreshService"},
         NEW listener \in {"none", "open"}, BuildServer(c, method, listener)
  PROVE  (NewestPart /\ ClientPart /\ OfferPart)' /\ EndpointStep
<1>0. /\ TypeOK /\ ConcurrentInvariant
      /\ NewestPart /\ ClientPart /\ OfferPart
  BY Parts
<1>1. /\ gens + 1 \in Gens /\ gens' = gens + 1
      /\ obj'[gens + 1] = [server |-> "built", services |-> {},
                           asked |-> rpcServiceMap, conn |-> FALSE,
                           listener |-> listener, serve |-> "none"]
      /\ \A g \in Gens : g # gens + 1 => obj'[g] = obj[g]
      /\ call' = [call EXCEPT ![c] =
                    [pc |-> "range", op |-> method, gen |-> gens + 1,
                     visited |-> {}, key |-> NoName]]
      /\ UNCHANGED <<grpcServer, rpcServiceMap, stopped, crashed>>
  BY <1>0, BuildEffect DEF BuildServer, world
<1>2. /\ \A d \in Callers : call[d].pc = "idle"
      /\ call'[c].pc = "range" /\ \A d \in Callers \ {c} : call'[d].pc = "idle"
  BY <1>0, <1>1 DEF MayCall, At, TypeOK
<1>3. obj[gens + 1] = Fresh /\ gens \in Nat
  BY <1>0, <1>1, ServerAssumption
     DEF ConcurrentInvariant, GenerationPart, TypeOK, Gens
<1>4. NewestPart'
  <2>1. grpcServer = gens
    BY <1>0, <1>2 DEF NewestPart, Active
  <2>2. \A d \in Callers : ~At(d, "setLst")' /\ ~At(d, "closeOld")'
    BY <1>2 DEF At
  <2>3. ~(\A d \in Callers : ~Active(d)')
    BY <1>2 DEF Active
  <2> QED BY <1>1, <2>1, <2>2, <2>3 DEF NewestPart
<1>5. ClientPart' /\ OfferPart'
  <2>1. \A g \in Gens :
          /\ obj'[g].conn => obj'[g] = obj[g]
          /\ obj'[g].services = obj[g].services
          /\ obj'[g].serve = "spawned" => obj'[g] = obj[g]
    <3>1. /\ ~obj'[gens + 1].conn /\ obj'[gens + 1].serve = "none"
          /\ obj'[gens + 1].services = {} /\ obj[gens + 1].services = {}
      BY <1>1, <1>3 DEF Fresh
    <3> QED BY <1>1, <3>1
  <2> QED BY <1>0, <1>1, <2>1, QuietStep
<1>6. Endpoint!Build
  <2>1. Want' = [Want EXCEPT ![gens + 1] = rpcServiceMap]
    <3>1. \A g \in Gens :
            obj'[g].asked = IF g = gens + 1 THEN rpcServiceMap ELSE obj[g].asked
      BY <1>1
    <3> QED BY <1>1, <3>1 DEF Want
  <2>2. \A g \in Gens : /\ obj'[g].conn <=> obj[g].conn
                        /\ obj'[g].serve = obj[g].serve
                        /\ obj[g].serve = "accepting" => obj'[g] = obj[g]
    <3>1. /\ ~obj[gens + 1].conn /\ ~obj'[gens + 1].conn
          /\ obj[gens + 1].serve = "none" /\ obj'[gens + 1].serve = "none"
      BY <1>1, <1>3 DEF Fresh
    <3> QED BY <1>1, <3>1
  <2>3. Turns' = Turns /\ Clients' = Clients /\ Reachable' = Reachable
    BY <1>1, <2>2 DEF Turns, Clients, Reachable
  <2>4. Offer' = Offer /\ Current' = Current
    <3>1. \A g \in Reachable : RegisteredAs(g)' = RegisteredAs(g)
      BY <2>2 DEF Reachable, RegisteredAs
    <3> QED BY <2>3, <3>1 DEF Offer, Current
  <2>5. gens < MaxGen
    BY DEF BuildServer
  <2> QED BY <1>1, <2>1, <2>3, <2>4, <2>5 DEF Endpoint!Build, Alive
<1> QED BY <1>4, <1>5, <1>6 DEF EndpointStep, Endpoint!Next

(* Range: the services of the call's own generation, which does not serve  *)
(* yet.                                                                    *)
LEMMA RangeEndpoint ==
  ASSUME InductiveInvariant, Serialized, crashed = "no", NEW c \in Callers,
         call[c].pc \in {"range", "register", "insert"},
         UNCHANGED <<gens, grpcServer, rpcServiceMap, stopped, crashed>>,
         \A d \in Callers \ {c} : call'[d] = call[d],
         call'[c].op = call[c].op,
         call'[c].pc \in {"range", "register", "insert"},
         \A g \in Gens :
           /\ g # call[c].gen => obj'[g] = obj[g]
           /\ obj'[g].server = obj[g].server
           /\ obj'[g].asked = obj[g].asked
           /\ obj'[g].conn = obj[g].conn
           /\ obj'[g].listener = obj[g].listener
           /\ obj'[g].serve = obj[g].serve,
         \A r \in obj'[call[c].gen].services : r[2] \in rpcServiceMap
  PROVE  (NewestPart /\ ClientPart /\ OfferPart)' /\ EndpointStep
<1>0. /\ TypeOK /\ ConcurrentInvariant /\ SerialPart
      /\ NewestPart /\ ClientPart /\ OfferPart
  BY Parts
<1>1. /\ Active(c) /\ call[c].gen = gens /\ gens \in Gens
      /\ \A d \in Callers : d # c => call[d].pc = "idle"
  BY <1>0, InProgress DEF Active
<1>2. obj[gens].serve = "none"
  BY <1>0, <1>1 DEF ConcurrentInvariant, ServePart
<1>3. NewestPart'
  <2>1. grpcServer + 1 = gens
    BY <1>0, <1>1 DEF NewestPart, At
  <2>2. Active(c)' /\ \A d \in Callers : ~At(d, "closeOld")' /\ ~At(d, "setLst")'
    BY <1>1 DEF Active, At
  <2> QED BY <2>1, <2>2 DEF NewestPart
<1>4. ClientPart'
  BY <1>0 DEF ClientPart
<1>5. OfferPart'
  <2>1. ASSUME NEW g \in Gens, g # gens
        PROVE  /\ \A r \in obj'[g].services : r[2] \in rpcServiceMap'
               /\ obj'[g].serve = "spawned" => obj'[g].asked \subseteq Exposed(g)'
    BY <1>0, <1>1, <2>1 DEF OfferPart, Exposed
  <2>2. /\ \A r \in obj'[gens].services : r[2] \in rpcServiceMap'
        /\ obj'[gens].serve # "spawned"
    BY <1>1, <1>2
  <2> QED BY <2>1, <2>2 DEF OfferPart
<1>6. UNCHANGED Endpoint!vars
  <2>1. \A g \in Gens : obj[g].serve = "accepting" =>
          obj'[g].services = obj[g].services
    BY <1>1, <1>2
  <2> QED BY <2>1, Stutters
<1> QED BY <1>3, <1>4, <1>5, <1>6 DEF EndpointStep

LEMMA VisitEndpoint ==
  ASSUME InductiveInvariant, Serialized, crashed = "no", NEW c \in Callers,
         NEW k \in Keys, (Fits(k) /\ VisitUnary(c, k)) \/ VisitGrpc(c, k)
  PROVE  (NewestPart /\ ClientPart /\ OfferPart)' /\ EndpointStep
<1>0. TypeOK /\ ConcurrentInvariant /\ OfferPart
  BY Parts
<1>1. Visit(c, k)
  BY DEF VisitUnary, VisitGrpc, NamesDesc
<1>2. /\ call[c].pc = "range" /\ k \in rpcServiceMap /\ Active(c)
      /\ UNCHANGED <<gens, grpcServer, rpcServiceMap, stopped, crashed>>
  BY <1>1 DEF Visit, At, Active, refs, world
<1>3. call[c] \in CallRecords /\ call[c].gen \in Gens
  BY <1>0, <1>2, OwnObject
<1>4. \A r \in obj[call[c].gen].services : r[2] \in rpcServiceMap
  BY <1>0, <1>3 DEF OfferPart
<1>5. CASE Fits(k) /\ VisitUnary(c, k)
  <2>1. /\ \A d \in Callers \ {c} : call'[d] = call[d]
        /\ call'[c].op = call[c].op /\ call'[c].pc = "range"
    BY <1>0, <1>2, <1>3, <1>5 DEF VisitUnary, TypeOK, CallRecords
  <2>2. Register(c, k, k) /\ MayBear(k, k)
    BY <1>5 DEF VisitUnary, MayBear
  <2>3. /\ \A g \in Gens :
             /\ g # call[c].gen => obj'[g] = obj[g]
             /\ obj'[g].server = obj[g].server
             /\ obj'[g].asked = obj[g].asked
             /\ obj'[g].conn = obj[g].conn
             /\ obj'[g].listener = obj[g].listener
             /\ obj'[g].serve = obj[g].serve
        /\ obj'[call[c].gen].services =
             {r \in obj[call[c].gen].services : r[1] # k} \cup {<<k, k>>}
    BY <1>0, <1>2, <2>2, RegisterEffect
  <2>4. \A r \in obj'[call[c].gen].services : r[2] \in rpcServiceMap
    BY <1>2, <1>4, <2>3
  <2> QED BY <1>2, <2>1, <2>3, <2>4, RangeEndpoint
<1>6. CASE VisitGrpc(c, k)
  <2>1. /\ \A d \in Callers \ {c} : call'[d] = call[d]
        /\ call'[c].op = call[c].op /\ call'[c].pc = "register"
        /\ call'[c].key = k
        /\ UNCHANGED obj
    BY <1>0, <1>2, <1>3, <1>6 DEF VisitGrpc, NamesDesc, TypeOK, CallRecords
  <2> QED BY <1>2, <1>4, <2>1, RangeEndpoint
<1> QED BY <1>5, <1>6

LEMMA RegisterEndpoint ==
  ASSUME InductiveInvariant, Serialized, crashed = "no", NEW c \in Callers,
         At(c, "insert"),
         Registered(c, serviceName[DescOf[call[c].key]], call[c].key,
                    call[c].key = ReflectKey)
  PROVE  (NewestPart /\ ClientPart /\ OfferPart)' /\ EndpointStep
<1> DEFINE k == call[c].key
           name == serviceName[DescOf[k]]
<1>0. TypeOK /\ ConcurrentInvariant /\ SerializedInvariant /\ OfferPart
  BY Parts
<1>1. /\ call[c].pc = "insert" /\ Active(c) /\ InHand(c)
      /\ UNCHANGED <<gens, grpcServer, rpcServiceMap, stopped, crashed>>
  BY DEF At, Active, InHand, Registered, refs, world
<1>2. call[c] \in CallRecords /\ call[c].gen \in Gens
  BY <1>0, <1>1, OwnObject
<1>3. /\ \A d \in Callers \ {c} : call'[d] = call[d]
      /\ call'[c].op = call[c].op /\ call'[c].pc = "range"
  BY <1>0, <1>2 DEF Registered, TypeOK, CallRecords
<1>4. /\ Register(c, name, k)
      /\ name = k /\ k \in rpcServiceMap /\ k \in Keys /\ MayBear(k, name)
  BY <1>0, <1>1, NoDuplicate DEF Registered, TypeOK, MayBear
<1> HIDE DEF k, name
<1>5. /\ \A g \in Gens :
           /\ g # call[c].gen => obj'[g] = obj[g]
           /\ obj'[g].server = obj[g].server
           /\ obj'[g].asked = obj[g].asked
           /\ obj'[g].conn = obj[g].conn
           /\ obj'[g].listener = obj[g].listener
           /\ obj'[g].serve = obj[g].serve
      /\ obj'[call[c].gen].services =
           {r \in obj[call[c].gen].services : r[1] # name} \cup {<<name, k>>}
  BY <1>0, <1>1, <1>4, RegisterEffect
<1>6. \A r \in obj'[call[c].gen].services : r[2] \in rpcServiceMap
  BY <1>0, <1>1, <1>2, <1>4, <1>5 DEF OfferPart
<1> QED BY <1>1, <1>3, <1>5, <1>6, RangeEndpoint

LEMMA CheckEndpoint ==
  ASSUME InductiveInvariant, Serialized, crashed = "no", NEW c \in Callers,
         Step(c, "register", "insert"), UNCHANGED <<refs, obj>>
  PROVE  (NewestPart /\ ClientPart /\ OfferPart)' /\ EndpointStep
<1>0. TypeOK /\ ConcurrentInvariant /\ OfferPart
  BY Parts
<1>1. /\ call[c].pc = "register" /\ call'[c].pc = "insert" /\ Active(c)
      /\ call'[c].op = call[c].op
      /\ UNCHANGED <<gens, grpcServer, rpcServiceMap, stopped, crashed, obj>>
  BY <1>0, StepEffect DEF Active, refs
<1>2. \A d \in Callers \ {c} : call'[d] = call[d]
  BY <1>0 DEF Step, Moves, TypeOK
<1>3. call[c].gen \in Gens
  BY <1>0, <1>1, OwnObject
<1>4. \A r \in obj'[call[c].gen].services : r[2] \in rpcServiceMap
  BY <1>0, <1>1, <1>3 DEF OfferPart
<1> QED BY <1>1, <1>2, <1>4, RangeEndpoint

LEMMA EndRangeEndpoint ==
  ASSUME InductiveInvariant, Serialized, crashed = "no", NEW c \in Callers,
         EndRange(c)
  PROVE  (NewestPart /\ ClientPart /\ OfferPart)' /\ EndpointStep
<1>0. /\ TypeOK /\ ConcurrentInvariant /\ SerialPart
      /\ NewestPart /\ ClientPart /\ OfferPart
  BY Parts
<1>1. /\ call[c].pc = "range" /\ Active(c)
      /\ UNCHANGED <<gens, grpcServer, rpcServiceMap, stopped, crashed, obj>>
  BY DEF EndRange, At, Active, refs, world
<1>2. /\ \A d \in Callers \ {c} : call'[d] = call[d]
      /\ call'[c].pc \in {"spawn", "stopOld"}
  BY <1>0 DEF EndRange, TypeOK, CallRecords
<1>3. \A d \in Callers : d # c => call[d].pc = "idle"
  BY <1>0, <1>1, InProgress
<1>4. NewestPart'
  <2>1. grpcServer + 1 = gens
    BY <1>0, <1>1 DEF NewestPart, At
  <2>2. Active(c)' /\ \A d \in Callers : ~At(d, "closeOld")' /\ ~At(d, "setLst")'
    BY <1>2, <1>3 DEF Active, At
  <2> QED BY <1>1, <2>1, <2>2 DEF NewestPart
<1>5. ClientPart' /\ OfferPart'
  BY <1>0, <1>1, QuietStep
<1>6. UNCHANGED Endpoint!vars
  BY <1>1, Stutters
<1> QED BY <1>4, <1>5, <1>6 DEF EndpointStep

(* The rest of a call: what a step of c leaves alone. *)
LEMMA CallMoves ==
  ASSUME InductiveInvariant, Serialized, NEW c \in Callers,
         NEW from \in {"stopOld", "closeOld", "listen", "spawn", "setLst",
                       "setServer"},
         NEW to \in {"closeOld", "listen", "spawn", "setLst", "setServer",
                     "idle"},
         Moves(c, from, to), UNCHANGED <<rpcServiceMap, stopped, crashed>>
  PROVE  /\ Active(c) /\ call[c].pc = from /\ call'[c].pc = to
         /\ call[c].gen = gens /\ gens \in Gens
         /\ call[c].op \in {"Start", "RefreshService"}
         /\ call'[c].op = call[c].op
         /\ \A d \in Callers : d # c => call[d].pc = "idle" /\ call'[d].pc = "idle"
         /\ UNCHANGED <<gens, rpcServiceMap, stopped, crashed>>
            /\ IF call[c].op = "RefreshService" /\ from = "setLst"
            THEN grpcServer = gens ELSE grpcServer + 1 = gens
         /\ from \notin {"setLst", "setServer"} => obj[gens].serve = "none"
<1>0. TypeOK /\ ConcurrentInvariant /\ SerialPart /\ NewestPart
  BY Parts
<1>1. /\ call[c].pc = from /\ call'[c].pc = to /\ call'[c].op = call[c].op
      /\ \A d \in Callers : d # c => call'[d].pc = call[d].pc
      /\ UNCHANGED <<gens, rpcServiceMap, stopped, crashed>>
  BY <1>0, MoveEffect
<1>2. Active(c)
  BY <1>1 DEF Active
<1>3. /\ call[c].gen = gens /\ gens \in Gens
      /\ call[c].op \in {"Start", "RefreshService"}
      /\ \A d \in Callers : d # c => call[d].pc = "idle"
  BY <1>0, <1>2, InProgress
<1>4. IF call[c].op = "RefreshService" /\ from = "setLst"
      THEN grpcServer = gens ELSE grpcServer + 1 = gens
  BY <1>0, <1>1, <1>2 DEF NewestPart, At
<1>5. from \notin {"setLst", "setServer"} => obj[gens].serve = "none"
  BY <1>0, <1>1, <1>2, <1>3 DEF ConcurrentInvariant, ServePart
<1> QED BY <1>1, <1>2, <1>3, <1>4, <1>5

(* What becomes of the generation in use when the listener of one, or the  *)
(* whole of it, is taken away.                                             *)
LEMMA Leaves ==
  ASSUME InductiveInvariant, Serialized, crashed = "no", NEW g \in Gens,
         UNCHANGED crashed,
         \A h \in Gens : h # g => obj'[h] = obj[h],
         obj'[g].serve = obj[g].serve, obj'[g].asked = obj[g].asked,
         ~(obj'[g].serve = "accepting" /\ obj'[g].listener = "open")
  PROVE  /\ Endpoint!Leave(g)
         /\ Want' = Want /\ Turns' = Turns /\ Alive /\ Alive'
<1>1. Reachable' = Reachable \ {g}
  BY DEF Reachable
<1>2. Want' = Want /\ Turns' = Turns
  BY DEF Want, Turns
<1>3. Endpoint!Leave(g)
  <2>1. CASE g \in Reachable
    <3>1. Reachable = {g} /\ Current = g
      BY <2>1, ReachableOnly
    <3>2. Reachable' = {}
      BY <1>1, <3>1
    <3>3. Current' = nil /\ Offer' = {}
      BY <3>2 DEF Current, Offer
    <3> QED BY <3>1, <3>3 DEF Endpoint!Leave, Endpoint!nil, nil
  <2>2. CASE g \notin Reachable
    <3>1. Reachable' = Reachable
      BY <1>1, <2>2
    <3>2. Current' = Current
      BY <3>1 DEF Current
    <3>3. Offer' = Offer
      <4>1. \A h \in Reachable : RegisteredAs(h)' = RegisteredAs(h)
        BY <2>2 DEF Reachable, RegisteredAs
      <4> QED BY <3>1, <4>1 DEF Offer
    <3>4. Current # g
      <4>1. CASE Reachable = {}
        BY <4>1, ServerAssumption DEF Current, nil, Gens
      <4>2. ASSUME NEW h \in Reachable PROVE Current # g
        BY <2>2, <4>2, ReachableOnly
      <4> QED BY <4>1, <4>2
    <3> QED BY <3>2, <3>3, <3>4 DEF Endpoint!Leave
  <2> QED BY <2>1, <2>2
<1> QED BY <1>2, <1>3 DEF Alive

(* t.grpcServer.Stop(): the generation in use goes, with its clients. *)
LEMMA StopOldEndpoint ==
  ASSUME InductiveInvariant, Serialized, crashed = "no", NEW c \in Callers,
         grpcServer # nil, StopOld(c)
  PROVE  (NewestPart /\ ClientPart /\ OfferPart)' /\ EndpointStep
<1> DEFINE g == grpcServer
<1>0. /\ TypeOK /\ ClientPart /\ OfferPart
  BY Parts
<1>1. /\ Moves(c, "stopOld", "closeOld") /\ UNCHANGED <<lst, grpcServer>>
      /\ UNCHANGED <<rpcServiceMap, stopped, crashed>>
      /\ obj' = [obj EXCEPT ![g] = AfterStop(@)]
  BY DEF StopOld, Step, refs, world
<1>2. /\ call'[c].pc = "closeOld" /\ call'[c].op = call[c].op
      /\ \A d \in Callers : d # c => call'[d].pc = "idle"
      /\ UNCHANGED <<gens, rpcServiceMap, stopped, crashed>>
      /\ grpcServer + 1 = gens
  BY <1>1, CallMoves
<1>3. g \in Gens /\ obj[g] \in Objects
  BY <1>0 DEF TypeOK
<1>4. /\ \A h \in Gens : h # g => obj'[h] = obj[h]
      /\ obj'[g].server = "stopped" /\ ~obj'[g].conn
      /\ obj'[g].serve = obj[g].serve /\ obj'[g].asked = obj[g].asked
      /\ obj'[g].services = obj[g].services
      /\ obj[g].serve = "accepting" => obj'[g].listener = "closed"
  BY <1>0, <1>1, <1>3 DEF AfterStop, TypeOK, Objects
<1>5. NewestPart'
  <2>1. Active(c)' /\ \A d \in Callers : ~At(d, "setLst")'
    BY <1>2 DEF Active, At
  <2> QED BY <1>1, <1>2, <1>4, <2>1 DEF NewestPart
<1> HIDE DEF g
<1>6. ClientPart' /\ OfferPart'
  <2>1. \A h \in Gens :
          /\ obj'[h].conn => obj'[h] = obj[h]
          /\ obj'[h].services = obj[h].services
          /\ obj'[h].serve = obj[h].serve /\ obj'[h].asked = obj[h].asked
    BY <1>4
  <2> QED BY <1>0, <1>2, <2>1, QuietStep
<1>7. Endpoint!Replace(g)
  <2>1. /\ Endpoint!Leave(g)
        /\ Want' = Want /\ Turns' = Turns /\ Alive /\ Alive'
    BY <1>2, <1>3, <1>4, Leaves
  <2>2. Clients' = Clients \ {g}
    BY <1>2, <1>4 DEF Clients
  <2>3. Alive' = Alive
    BY <1>2 DEF Alive
  <2> QED BY <1>2, <2>1, <2>2, <2>3 DEF Endpoint!Replace
<1>8. g \in Endpoint!Gens
  BY <1>3 DEF Gens, Endpoint!Gens
<1> QED BY <1>5, <1>6, <1>7, <1>8 DEF EndpointStep, Endpoint!Next

(* t.lst.Close(): the server that used the listener is stopped already. *)
LEMMA CloseOldEndpoint ==
  ASSUME InductiveInvariant, Serialized, crashed = "no", NEW c \in Callers,
         lst # nil, CloseOld(c)
  PROVE  (NewestPart /\ ClientPart /\ OfferPart)' /\ EndpointStep
<1>0. /\ TypeOK /\ ConcurrentInvariant /\ SerialPart /\ FieldsPart
      /\ NewestPart /\ ClientPart /\ OfferPart
  BY Parts
<1>1. /\ Moves(c, "closeOld", "listen") /\ UNCHANGED <<lst, grpcServer>>
      /\ UNCHANGED <<rpcServiceMap, stopped, crashed>>
      /\ obj' = [obj EXCEPT ![lst].listener = "closed"]
  BY DEF CloseOld, Step, refs, world
<1>2. /\ call[c].pc = "closeOld" /\ call'[c].pc = "listen"
      /\ \A d \in Callers : d # c => call[d].pc = "idle" /\ call'[d].pc = "idle"
      /\ UNCHANGED <<gens, rpcServiceMap, stopped, crashed>>
      /\ grpcServer + 1 = gens
  BY <1>1, CallMoves
<1>3. lst \in Gens /\ obj[lst] \in Objects
  BY <1>0 DEF TypeOK
<1>4. /\ \A h \in Gens : h # lst => obj'[h] = obj[h]
      /\ obj'[lst].serve = obj[lst].serve /\ obj'[lst].asked = obj[lst].asked
      /\ obj'[lst].conn = obj[lst].conn
      /\ obj'[lst].services = obj[lst].services
      /\ obj'[lst].listener = "closed"
  BY <1>0, <1>1, <1>3 DEF TypeOK, Objects
<1>5. lst = grpcServer
  BY <1>0, <1>2 DEF FieldsPart, Assigning, At
<1>6. ~obj[lst].conn /\ ~(obj[lst].serve = "accepting" /\ obj[lst].listener = "open")
  BY <1>0, <1>2, <1>3, <1>5 DEF NewestPart, ConcurrentInvariant, ServePart, At
<1>7. NewestPart'
  <2>1. Active(c)' /\ \A d \in Callers : ~At(d, "setLst")' /\ ~At(d, "closeOld")'
    BY <1>2 DEF Active, At
  <2> QED BY <1>1, <1>2, <2>1 DEF NewestPart
<1>8. ClientPart' /\ OfferPart'
  <2>1. \A h \in Gens :
          /\ obj'[h].conn => obj'[h] = obj[h]
          /\ obj'[h].services = obj[h].services
          /\ obj'[h].serve = obj[h].serve /\ obj'[h].asked = obj[h].asked
    BY <1>4, <1>6
  <2> QED BY <1>0, <1>2, <2>1, QuietStep
<1>9. UNCHANGED Endpoint!vars
  <2>1. \A h \in Gens :
          /\ obj'[h].services = obj[h].services /\ obj'[h].conn = obj[h].conn
          /\ obj'[h].serve = obj[h].serve /\ obj'[h].asked = obj[h].asked
          /\ obj'[h].serve = "accepting" /\ obj'[h].listener = "open" <=>
               obj[h].serve = "accepting" /\ obj[h].listener = "open"
    BY <1>4, <1>6
  <2> QED BY <1>2, <2>1, Stutters
<1> QED BY <1>7, <1>8, <1>9 DEF EndpointStep

(* net.Listen, and go grpcServer.Serve(lst): the new generation is not     *)
(* reachable before the goroutine has its turn.                            *)
LEMMA ListenSpawnEndpoint ==
  ASSUME InductiveInvariant, Serialized, crashed = "no", NEW c \in Callers,
         ListenAgain(c) \/ SpawnServe(c)
  PROVE  (NewestPart /\ ClientPart /\ OfferPart)' /\ EndpointStep
<1>0. /\ TypeOK /\ ExposedPart /\ NewestPart /\ ClientPart /\ OfferPart
  BY Parts
<1>1. PICK from \in {"listen", "spawn"}, to \in {"spawn", "setLst", "setServer"} :
        /\ Moves(c, from, to) /\ UNCHANGED <<lst, grpcServer>>
        /\ UNCHANGED <<rpcServiceMap, stopped, crashed>>
        /\ from = "listen" => to = "spawn"
        /\ to = "setLst" => call[c].op = "Start"
  BY DEF ListenAgain, SpawnServe, AfterSpawn, Step, refs, world
<1>2. /\ Active(c) /\ call[c].pc = from /\ call'[c].pc = to
      /\ call[c].gen = gens /\ gens \in Gens /\ call'[c].op = call[c].op
      /\ \A d \in Callers : d # c => call[d].pc = "idle" /\ call'[d].pc = "idle"
      /\ UNCHANGED <<gens, rpcServiceMap, stopped, crashed>>
      /\ grpcServer + 1 = gens
      /\ obj[gens].serve = "none"
  BY <1>1, CallMoves
<1>3. obj[gens] \in Objects
  BY <1>0, <1>2 DEF TypeOK
<1>4. /\ \A h \in Gens : h # gens => obj'[h] = obj[h]
      /\ obj'[gens].serve \in {"none", "spawned"}
      /\ obj'[gens].asked = obj[gens].asked
      /\ obj'[gens].conn = obj[gens].conn
      /\ obj'[gens].services = obj[gens].services
      /\ obj'[gens].serve = "spawned" => from = "spawn"
  <2>1. CASE ListenAgain(c)
    BY <1>0, <1>2, <1>3, <2>1 DEF ListenAgain, TypeOK, Objects
  <2>2. CASE SpawnServe(c)
    <3>1. from = "spawn"
      BY <1>2, <2>2 DEF SpawnServe, Step, Moves, At
    <3> QED BY <1>0, <1>2, <1>3, <2>2, <3>1 DEF SpawnServe, TypeOK, Objects
  <2> QED BY <2>1, <2>2
<1>5. ~obj[gens].conn
  BY <1>0, <1>2 DEF ClientPart
<1>6. NewestPart'
  <2>1. Active(c)' /\ \A d \in Callers : ~At(d, "closeOld")'
    BY <1>1, <1>2 DEF Active, At
  <2>2. \A d \in Callers :
          ~(Active(d)' /\ call'[d].op = "RefreshService" /\ At(d, "setLst")')
    BY <1>1, <1>2 DEF Active, At
  <2> QED BY <1>1, <1>2, <2>1, <2>2 DEF NewestPart
<1>7. ClientPart'
  <2>1. \A h \in Gens : obj'[h].conn => obj'[h] = obj[h]
    BY <1>4, <1>5
  <2> QED BY <1>0, <1>2, <2>1 DEF ClientPart
<1>8. OfferPart'
  <2>1. \A h \in Gens : /\ obj'[h].services = obj[h].services
                        /\ Exposed(h)' = Exposed(h)
                        /\ obj'[h].asked = obj[h].asked
    BY <1>4 DEF Exposed
  <2>2. from = "spawn" => obj[gens].asked \subseteq Exposed(gens)
    BY <1>0, <1>2 DEF ExposedPart, InHand, At
  <2>3. \A h \in Gens : obj'[h].serve = "spawned" => obj'[h].asked \subseteq Exposed(h)'
    BY <1>0, <1>2, <1>4, <2>1, <2>2 DEF OfferPart
  <2> QED BY <1>0, <1>2, <2>1, <2>3 DEF OfferPart
<1>9. UNCHANGED Endpoint!vars
  <2>1. \A h \in Gens :
          /\ obj'[h].asked = obj[h].asked
          /\ obj'[h].conn = obj[h].conn
          /\ obj'[h].services = obj[h].services
          /\ obj'[h].serve \in {"accepting", "returned"} <=>
               obj[h].serve \in {"accepting", "returned"}
          /\ obj'[h].serve = "accepting" /\ obj'[h].listener = "open" <=>
               obj[h].serve = "accepting" /\ obj[h].listener = "open"
    BY <1>2, <1>4
  <2> QED BY <1>2, <2>1, Stutters
<1> QED BY <1>6, <1>7, <1>8, <1>9 DEF EndpointStep

(* The assignments to t.lst and t.grpcServer. *)
LEMMA AssignEndpoint ==
  ASSUME InductiveInvariant, Serialized, crashed = "no", NEW c \in Callers,
         SetLst(c) \/ SetServer(c)
  PROVE  (NewestPart /\ ClientPart /\ OfferPart)' /\ EndpointStep
<1>0. ClientPart /\ OfferPart
  BY Parts
<1>1. PICK from \in {"setLst", "setServer"}, to \in {"setLst", "setServer", "idle"} :
        /\ Moves(c, from, to)
        /\ UNCHANGED <<rpcServiceMap, stopped, crashed, obj>>
        /\ from = "setLst" => grpcServer' = grpcServer /\ to = AfterLst(c)
        /\ from = "setServer" =>
             /\ grpcServer' = call[c].gen
             /\ to = IF call[c].op = "Start" THEN "idle" ELSE "setLst"
  BY DEF SetLst, SetServer, AfterLst, Step, world
<1>2. /\ Active(c) /\ call[c].pc = from /\ call'[c].pc = to
      /\ call[c].gen = gens /\ gens \in Gens
      /\ call[c].op \in {"Start", "RefreshService"} /\ call'[c].op = call[c].op
      /\ \A d \in Callers : d # c => call'[d].pc = "idle"
      /\ UNCHANGED <<gens, rpcServiceMap, stopped, crashed>>
      /\ IF call[c].op = "RefreshService" /\ from = "setLst"
         THEN grpcServer = gens ELSE grpcServer + 1 = gens
  BY <1>1, CallMoves
<1>3. NewestPart'
  <2>1. \A d \in Callers : ~At(d, "closeOld")' /\ (d # c => ~Active(d)')
    BY <1>1, <1>2 DEF At, Active
  <2>2. Active(c)' <=> to # "idle"
    BY <1>2 DEF Active
  <2>3. At(c, "setLst")' <=> to = "setLst"
    BY <1>2 DEF At
  <2>4. CASE call[c].op = "Start"
    BY <1>1, <1>2, <2>1, <2>2, <2>3, <2>4 DEF NewestPart, AfterLst
  <2>5. CASE call[c].op = "RefreshService"
    BY <1>1, <1>2, <2>1, <2>2, <2>3, <2>5 DEF NewestPart, AfterLst
  <2> QED BY <1>2, <2>4, <2>5
<1>4. ClientPart' /\ OfferPart'
  BY <1>0, <1>1, <1>2, QuietStep
<1>5. UNCHANGED Endpoint!vars
  BY <1>1, <1>2, Stutters
<1> QED BY <1>3, <1>4, <1>5 DEF EndpointStep

LEMMA StopEndpoint ==
  ASSUME InductiveInvariant, Serialized, crashed = "no", NEW c \in Callers,
         lst # nil, Stop(c)
  PROVE  (NewestPart /\ ClientPart /\ OfferPart)' /\ EndpointStep
<1>0. TypeOK /\ NewestPart /\ ClientPart /\ OfferPart
  BY Parts
<1>1. /\ obj' = [obj EXCEPT ![lst].listener = "closed"]
      /\ stopped' = stopped \cup {lst}
      /\ UNCHANGED <<rpcServiceMap, crashed, lst, grpcServer, gens, call>>
  BY DEF Stop, refs
<1>2. lst \in Gens /\ obj[lst] \in Objects
  BY <1>0 DEF TypeOK
<1>3. /\ \A h \in Gens : h # lst => obj'[h] = obj[h]
      /\ obj'[lst].serve = obj[lst].serve /\ obj'[lst].asked = obj[lst].asked
      /\ obj'[lst].conn = obj[lst].conn
      /\ obj'[lst].services = obj[lst].services
      /\ obj'[lst].listener = "closed"
  BY <1>0, <1>1, <1>2 DEF TypeOK, Objects
<1>4. NewestPart'
  <2>1. \A d \in Callers : call[d].pc = "idle"
    BY DEF Stop, MayCall, At
  <2> QED BY <1>0, <1>1, <2>1 DEF NewestPart, Active, At
<1>5. ClientPart' /\ OfferPart'
  <2>1. \A h \in Gens :
          /\ obj'[h].services = obj[h].services /\ obj'[h].conn = obj[h].conn
          /\ obj'[h].serve = obj[h].serve /\ obj'[h].asked = obj[h].asked
          /\ obj'[h].listener = obj[h].listener \/ h \in stopped'
    BY <1>1, <1>3
  <2> QED BY <1>0, <1>1, <2>1, QuietStep
<1>6. Endpoint!Stop(lst)
  <2>1. /\ Endpoint!Leave(lst)
        /\ Want' = Want /\ Turns' = Turns /\ Alive /\ Alive'
    BY <1>1, <1>2, <1>3, Leaves
  <2>2. Clients' = Clients
    BY <1>1, <1>3 DEF Clients
  <2>3. Alive' = Alive
    BY <1>1 DEF Alive
  <2> QED BY <1>1, <2>1, <2>2, <2>3 DEF Endpoint!Stop
<1>7. lst \in Endpoint!Gens
  BY <1>2 DEF Gens, Endpoint!Gens
<1> QED BY <1>4, <1>5, <1>6, <1>7 DEF EndpointStep, Endpoint!Next

(* A generation whose listener is open and whose Serve goroutine has not   *)
(* run is newer than all that have had their turn, and nobody is left on   *)
(* one of those unless Stop was called.                                    *)
LEMMA TurnOfNewest ==
  ASSUME InductiveInvariant, Serialized, NEW g \in Gens,
         obj[g].serve = "spawned", obj[g].listener = "open"
  PROVE  /\ Reachable = {} /\ Clients \subseteq stopped
         /\ \A h \in Turns : h < g
<1>0. /\ TypeOK /\ ConcurrentInvariant /\ SerialPart /\ ListenerPart
      /\ NewestPart /\ ClientPart
  BY Parts
<1>1. Reachable = {}
  BY OneOpen DEF Reachable
<1>2. Clients \subseteq stopped
  <2>1. ASSUME NEW h \in Gens, obj[h].conn
        PROVE  h \in stopped
    BY <1>0, <2>1, OneOpen DEF ClientPart
  <2> QED BY <2>1 DEF Clients
<1>3. \A h \in Turns : h \in Gens /\ h <= gens /\ h # g
  <2>1. \A h \in Gens : h > gens => obj[h].serve = "none"
    BY <1>0 DEF ConcurrentInvariant, GenerationPart, Fresh
  <2>2. gens \in Nat /\ Gens \subseteq Nat
    BY <1>0, ServerAssumption DEF TypeOK, Gens
  <2> QED BY <2>1, <2>2 DEF Turns
<1>4. gens \in Nat /\ g \in Nat /\ grpcServer \in Nat /\ \A h \in Turns : h \in Nat
  BY <1>0, <1>3, ServerAssumption DEF TypeOK, Gens, nil
<1>5. CASE \E c \in Callers : Replaced(c)
  <2>1. g = gens
    BY <1>0, <1>5 DEF ListenerPart
  <2> QED BY <1>1, <1>2, <1>3, <1>4, <2>1
<1>6. CASE \A c \in Callers : ~Replaced(c)
  <2>1. g = grpcServer
    BY <1>0, <1>6 DEF ListenerPart
  <2>2. CASE \A c \in Callers : ~Active(c)
    <3>1. g = gens
      BY <1>0, <2>1, <2>2 DEF NewestPart
    <3> QED BY <1>1, <1>2, <1>3, <1>4, <3>1
  <2>3. ASSUME NEW c \in Callers, Active(c)
        PROVE  \A h \in Turns : h < g
    <3>1. call[c].gen = gens /\ gens \in Gens
      BY <1>0, <2>3, InProgress
    <3>2. call[c].pc \notin {"setLst", "setServer"}
      BY <1>6 DEF Replaced
    <3>3. obj[gens].serve = "none"
      BY <1>0, <2>3, <3>1, <3>2 DEF ConcurrentInvariant, ServePart
    <3>4. gens \notin Turns
      BY <3>3 DEF Turns
    <3>5. grpcServer + 1 = gens
      BY <1>0, <2>3, <3>2 DEF NewestPart, At
    <3> QED BY <1>3, <1>4, <2>1, <3>4, <3>5
  <2> QED BY <1>1, <1>2, <2>2, <2>3
<1> QED BY <1>5, <1>6

(* What Serve goroutines and clients leave alone. *)
LEMMA ServingEffect ==
  ASSUME TypeOK, NEW g \in Gens, NEW object, Serving(g, object)
  PROVE  /\ obj'[g] = object /\ \A h \in Gens : h # g => obj'[h] = obj[h]
         /\ UNCHANGED <<lst, grpcServer, gens, call, rpcServiceMap, stopped,
                        refused, crashed>>
BY DEF Serving, TypeOK, refs, world

LEMMA ServingNewest ==
  ASSUME InductiveInvariant, Serialized, NEW g \in Gens, NEW object,
         Serving(g, object), object.server = obj[g].server
  PROVE  NewestPart'
<1>0. TypeOK /\ NewestPart /\ FieldsPart
  BY Parts
<1>1. /\ obj'[g] = object /\ \A h \in Gens : h # g => obj'[h] = obj[h]
      /\ UNCHANGED <<grpcServer, gens, call>>
  BY <1>0, ServingEffect
<1>2. \A h \in Gens : obj'[h].server = obj[h].server
  BY <1>1
<1>3. \A c \in Callers : At(c, "closeOld") => grpcServer \in Gens
  BY <1>0 DEF FieldsPart, TypeOK
<1>4. \A c \in Callers : /\ At(c, "closeOld")' <=> At(c, "closeOld")
                         /\ At(c, "setLst")' <=> At(c, "setLst")
                         /\ Active(c)' <=> Active(c)
  BY <1>1 DEF At, Active
<1> QED BY <1>0, <1>1, <1>2, <1>3, <1>4 DEF NewestPart

(* Serve begins: the generation opens, or it is too late. *)
LEMMA ServeBeginsEndpoint ==
  ASSUME InductiveInvariant, Serialized, crashed = "no", NEW g \in Gens,
         obj[g].listener # "none", ServeBegins(g)
  PROVE  (NewestPart /\ ClientPart /\ OfferPart)' /\ EndpointStep
<1>0. /\ TypeOK /\ ConcurrentInvariant /\ OwnKeyPart
      /\ NewestPart /\ ClientPart /\ OfferPart
  BY Parts
<1> DEFINE object ==
      [obj[g] EXCEPT !.asked = {},
                     !.serve = IF obj[g].server = "built" THEN "accepting"
                               ELSE "returned",
                     !.listener = IF obj[g].server = "built" THEN @
                                  ELSE "closed"]
<1>1. Serving(g, object) /\ obj[g].serve = "spawned"
  BY DEF ServeBegins
<1>2. obj[g] \in Objects
  BY <1>0 DEF TypeOK
<1>3. /\ object.server = obj[g].server /\ object.services = obj[g].services
      /\ object.conn = obj[g].conn /\ object.asked = {}
      /\ object.serve = IF obj[g].server = "built" THEN "accepting" ELSE "returned"
      /\ object.listener = IF obj[g].server = "built" THEN obj[g].listener
                           ELSE "closed"
  BY <1>2 DEF Objects
<1> HIDE DEF object
<1>4. /\ obj'[g] = object /\ \A h \in Gens : h # g => obj'[h] = obj[h]
      /\ UNCHANGED <<gens, call, rpcServiceMap, stopped, crashed>>
  BY <1>0, <1>1, ServingEffect
<1>5. ~obj[g].conn
  BY <1>0, <1>1 DEF ClientPart
<1>6. NewestPart'
  BY <1>1, <1>3, ServingNewest
<1>7. ClientPart' /\ OfferPart'
  <2>1. \A h \in Gens :
          /\ obj'[h].conn => obj'[h] = obj[h]
          /\ obj'[h].services = obj[h].services
          /\ obj'[h].serve = "spawned" => obj'[h] = obj[h]
    BY <1>3, <1>4, <1>5
  <2> QED BY <1>0, <1>4, <2>1, QuietStep
<1>8. Endpoint!Turn(g)
  <2>1. Turns' = Turns \cup {g}
    BY <1>3, <1>4 DEF Turns
  <2>2. Want' = [Want EXCEPT ![g] = {}]
    <3>1. \A h \in Gens : obj'[h].asked = IF h = g THEN {} ELSE obj[h].asked
      BY <1>3, <1>4
    <3> QED BY <3>1 DEF Want
  <2> QED BY <2>1, <2>2 DEF Endpoint!Turn
<1>9. /\ Clients' = Clients /\ Alive' = Alive /\ Alive
      /\ g <= gens /\ g \in Endpoint!Gens
  <2>1. \A h \in Gens : obj'[h].conn = obj[h].conn
    BY <1>3, <1>4
  <2>2. g <= gens
    <3>1. obj[g] # Fresh
      BY <1>1 DEF Fresh
    <3>2. gens \in Nat /\ g \in Nat
      BY <1>0, ServerAssumption DEF TypeOK, Gens
    <3> QED BY <1>0, <3>1, <3>2 DEF ConcurrentInvariant, GenerationPart
  <2> QED BY <1>4, <2>1, <2>2 DEF Clients, Alive, Gens, Endpoint!Gens
<1>10. CASE obj[g].server = "built" /\ obj[g].listener = "open"
  <2>1. /\ Reachable = {} /\ Clients \subseteq stopped
        /\ \A h \in Turns : h < g
    BY <1>1, <1>10, TurnOfNewest
  <2>2. Reachable' = {g}
    <3>1. g \in Reachable'
      BY <1>3, <1>4, <1>10 DEF Reachable
    <3>2. \A h \in Reachable' : h = g
      BY <1>4, <2>1 DEF Reachable
    <3> QED BY <3>1, <3>2
  <2>3. Current = nil /\ Current' = g
    BY <2>1, <2>2, OnlyMember DEF Current
  <2>4. Offer' = RegisteredAs(g)'
    BY <2>2 DEF Offer
  <2>5. RegisteredAs(g)' = Exposed(g)
    <3>1. RegisteredAs(g)' = RegisteredAs(g)
      BY <1>3, <1>4 DEF RegisteredAs
    <3>2. RegisteredAs(g) = Exposed(g)
      BY <1>0 DEF RegisteredAs, Exposed, OwnKeyPart
    <3> QED BY <3>1, <3>2
  <2>6. obj[g].asked \subseteq Exposed(g) /\ Exposed(g) \subseteq rpcServiceMap
    BY <1>0, <1>1 DEF OfferPart, Exposed
  <2>7. Want[g] = obj[g].asked
    BY DEF Want
  <2>8. Endpoint!Open(g)
    BY <1>4, <1>8, <1>9, <2>1, <2>3, <2>4, <2>5, <2>6, <2>7
       DEF Endpoint!Open, Endpoint!nil, nil
  <2> QED BY <1>6, <1>7, <1>9, <2>8 DEF EndpointStep, Endpoint!Next
<1>11. CASE ~(obj[g].server = "built" /\ obj[g].listener = "open")
  <2>1. Reachable' = Reachable
    BY <1>1, <1>3, <1>4, <1>11 DEF Reachable
  <2>2. Current' = Current
    BY <2>1 DEF Current
  <2>3. Offer' = Offer
    <3>1. \A h \in Reachable : RegisteredAs(h)' = RegisteredAs(h)
      BY <1>1, <1>4 DEF Reachable, RegisteredAs
    <3> QED BY <2>1, <3>1 DEF Offer
  <2>4. Endpoint!Skip(g)
    BY <1>4, <1>8, <1>9, <2>2, <2>3 DEF Endpoint!Skip
  <2> QED BY <1>6, <1>7, <1>9, <2>4 DEF EndpointStep, Endpoint!Next
<1> QED BY <1>10, <1>11

(* Clients come and go, and Serve returns from a closed listener. *)
LEMMA ClientsEndpoint ==
  ASSUME InductiveInvariant, Serialized, crashed = "no", NEW g \in Gens,
         Accepts(g) \/ ServeReturns(g) \/ PeerDisconnects(g)
  PROVE  (NewestPart /\ ClientPart /\ OfferPart)' /\ EndpointStep
<1>0. TypeOK /\ ConcurrentInvariant /\ NewestPart /\ ClientPart /\ OfferPart
  BY Parts
<1>1. obj[g] \in Objects /\ g \in Endpoint!Gens
  BY <1>0 DEF TypeOK, Gens, Endpoint!Gens
<1>2. PICK object :
        /\ Serving(g, object)
        /\ object.server = obj[g].server /\ object.services = obj[g].services
        /\ object.asked = obj[g].asked /\ object.listener = obj[g].listener
        /\ \/ /\ Accepts(g) /\ object.conn /\ object.serve = obj[g].serve
           \/ /\ ServeReturns(g) /\ object.conn = obj[g].conn
              /\ object.serve = "returned"
           \/ /\ PeerDisconnects(g) /\ ~object.conn
              /\ object.serve = obj[g].serve
  <2>1. CASE Accepts(g)
    BY <1>1, <2>1 DEF Accepts, Objects
  <2>2. CASE ServeReturns(g)
    BY <1>1, <2>2 DEF ServeReturns, Objects
  <2>3. CASE PeerDisconnects(g)
    <3> DEFINE after == [obj[g] EXCEPT !.conn = FALSE]
    <3>1. Serving(g, after)
      BY <2>3 DEF PeerDisconnects
    <3>2. /\ after.server = obj[g].server /\ after.services = obj[g].services
          /\ after.asked = obj[g].asked /\ after.listener = obj[g].listener
          /\ ~after.conn /\ after.serve = obj[g].serve
      BY <1>1 DEF Objects
    <3> QED BY <2>3, <3>1, <3>2
  <2> QED BY <2>1, <2>2, <2>3
<1>3. /\ obj'[g] = object /\ \A h \in Gens : h # g => obj'[h] = obj[h]
      /\ UNCHANGED <<gens, call, rpcServiceMap, stopped, crashed>>
  BY <1>0, <1>2, ServingEffect
<1>4. NewestPart'
  BY <1>2, ServingNewest
<1>5. ClientPart'
  <2>1. \A h \in Gens : h # g => (obj'[h].conn =>
          /\ obj'[h].serve \in {"accepting", "returned"}
          /\ obj'[h].listener = "open" \/ h \in stopped')
    BY <1>0, <1>3 DEF ClientPart
  <2>2. obj'[g].conn => /\ obj'[g].serve \in {"accepting", "returned"}
                        /\ obj'[g].listener = "open" \/ g \in stopped'
    BY <1>0, <1>2, <1>3 DEF ClientPart, Accepts
  <2> QED BY <2>1, <2>2 DEF ClientPart
<1>6. OfferPart'
  <2>1. \A h \in Gens : /\ obj'[h].services = obj[h].services
                        /\ Exposed(h)' = Exposed(h)
                        /\ obj'[h].asked = obj[h].asked
                        /\ obj'[h].serve = "spawned" => obj[h].serve = "spawned"
    BY <1>2, <1>3 DEF Exposed
  <2> QED BY <1>0, <1>3, <2>1 DEF OfferPart, At
<1>7. \A h \in Gens :
        /\ obj'[h].asked = obj[h].asked
        /\ obj'[h].services = obj[h].services
        /\ obj'[h].serve \in {"accepting", "returned"} <=>
             obj[h].serve \in {"accepting", "returned"}
        /\ obj'[h].serve = "accepting" /\ obj'[h].listener = "open" <=>
             obj[h].serve = "accepting" /\ obj[h].listener = "open"
  BY <1>2, <1>3 DEF ServeReturns
<1>8. /\ Want' = Want /\ Turns' = Turns /\ Alive' = Alive /\ Alive
      /\ Reachable' = Reachable
  BY <1>3, <1>7 DEF Want, Turns, Alive, Reachable
<1>9. Current' = Current /\ Offer' = Offer
  <2>1. \A h \in Reachable : RegisteredAs(h)' = RegisteredAs(h)
    BY <1>7 DEF Reachable, RegisteredAs
  <2> QED BY <1>8, <2>1 DEF Current, Offer
<1>10. CASE Accepts(g) /\ object.conn
  <2>1. g \in Reachable
    BY <1>10 DEF Accepts, Reachable
  <2>2. Current = g
    BY <2>1, ReachableOnly
  <2>3. Clients' = Clients \cup {g}
    BY <1>3, <1>10 DEF Clients
  <2>4. g # nil
    BY ServerAssumption DEF Gens, nil
  <2>5. Endpoint!Connect
    BY <1>3, <1>8, <1>9, <2>2, <2>3, <2>4
       DEF Endpoint!Connect, Endpoint!nil, nil
  <2> QED BY <1>4, <1>5, <1>6, <2>5 DEF EndpointStep, Endpoint!Next
<1>11. CASE ServeReturns(g) /\ object.conn = obj[g].conn
  <2>1. UNCHANGED Endpoint!vars
    BY <1>3, <1>7, <1>11, Stutters
  <2> QED BY <1>4, <1>5, <1>6, <2>1 DEF EndpointStep
<1>12. CASE PeerDisconnects(g) /\ ~object.conn
  <2>1. Clients' = Clients \ {g}
    BY <1>3, <1>12 DEF Clients
  <2>2. Endpoint!Disconnect(g)
    BY <1>3, <1>8, <1>9, <2>1 DEF Endpoint!Disconnect
  <2> QED BY <1>1, <1>4, <1>5, <1>6, <2>2 DEF EndpointStep, Endpoint!Next
<1> QED BY <1>2, <1>10, <1>11, <1>12

(* The application stores a service, or the process dies: the server       *)
(* itself stays as it is.                                                  *)
LEMMA ElsewhereEndpoint ==
  ASSUME InductiveInvariant, Serialized, crashed = "no",
         \/ \E k \in Keys : Store(k)
         \/ UNCHANGED vars
         \/ \E why \in {"listen", "refused", "nilServer", "nilListener",
                        "serveNil", "duplicate", "assertion"} : Crash(why)
  PROVE  (NewestPart /\ ClientPart /\ OfferPart)' /\ EndpointStep
<1>0. NewestPart /\ ClientPart /\ OfferPart
  BY Parts
<1>1. /\ UNCHANGED <<grpcServer, obj, gens, call, stopped>>
      /\ rpcServiceMap \subseteq rpcServiceMap'
  BY DEF Store, vars, Crash, refs
<1>2. NewestPart'
  BY <1>0, <1>1 DEF NewestPart, Active, At
<1>3. ClientPart' /\ OfferPart'
  BY <1>0, <1>1, QuietStep
<1>4. ASSUME NEW k \in Keys, Store(k)
      PROVE  EndpointStep
  <2>1. /\ k \notin rpcServiceMap /\ rpcServiceMap' = rpcServiceMap \cup {k}
        /\ UNCHANGED <<obj, gens, stopped, crashed>>
    BY <1>4 DEF Store
  <2>2. /\ Want' = Want /\ Turns' = Turns /\ Clients' = Clients /\ Alive' = Alive
        /\ Alive /\ Reachable' = Reachable
    BY <2>1 DEF Want, Turns, Clients, Alive, Reachable
  <2>3. Current' = Current /\ Offer' = Offer
    <3>1. \A g \in Reachable : RegisteredAs(g)' = RegisteredAs(g)
      BY <2>1 DEF RegisteredAs
    <3> QED BY <2>2, <3>1 DEF Current, Offer
  <2>4. Endpoint!Store(k)
    BY <2>1, <2>2, <2>3 DEF Endpoint!Store
  <2> QED BY <2>4 DEF EndpointStep, Endpoint!Next
<1>5. CASE UNCHANGED vars
  <2>1. UNCHANGED <<obj, gens, stopped, crashed, rpcServiceMap>>
    BY <1>5 DEF vars
  <2>2. UNCHANGED Endpoint!vars
    BY <2>1, Stutters
  <2> QED BY <1>2, <1>3, <2>2 DEF EndpointStep
<1>6. ASSUME NEW why \in {"listen", "refused", "nilServer", "nilListener",
                          "serveNil", "duplicate", "assertion"}, Crash(why)
      PROVE  EndpointStep
  BY <1>6, Dies DEF EndpointStep, Endpoint!Next
<1> QED BY <1>2, <1>3, <1>4, <1>5, <1>6

-------------------------------------------------------------------------------
(* The theorems.                                                           *)

LEMMA InitEndpoint == Init => EndpointInvariant
<1> SUFFICES ASSUME Init PROVE EndpointInvariant
  OBVIOUS
<1>1. /\ \A c \in Callers : call[c].pc = "idle"
      /\ \A g \in Gens : /\ obj[g].services = {} /\ obj[g].serve = "none"
                         /\ ~obj[g].conn
      /\ grpcServer = nil /\ gens = 0
  BY DEF Init, Fresh
<1> QED BY <1>1 DEF EndpointInvariant, NewestPart, ClientPart, OfferPart, Active,
                    At, nil

LEMMA NextEndpoint ==
  ASSUME InductiveInvariant, Serialized, [Next]_vars
  PROVE  (NewestPart /\ ClientPart /\ OfferPart)' /\ EndpointStep
<1>1. CASE UNCHANGED vars
  <2>1. NewestPart /\ ClientPart /\ OfferPart
    BY Parts
  <2>2. (NewestPart /\ ClientPart /\ OfferPart)'
    BY <1>1, <2>1 DEF vars, NewestPart, ClientPart, OfferPart, Active, At, Exposed
  <2>3. UNCHANGED Endpoint!vars
    BY <1>1, Stutters DEF vars
  <2> QED BY <2>2, <2>3 DEF EndpointStep
<1>2. CASE Next
  <2>1. crashed = "no"
    BY <1>2 DEF Next
  <2>2. ASSUME NEW c \in Callers, Start(c) \/ RefreshService(c) \/ Stop(c)
        PROVE  (NewestPart /\ ClientPart /\ OfferPart)' /\ EndpointStep
    BY <2>1, <2>2, BuildEndpoint, StopEndpoint, ElsewhereEndpoint
       DEF Start, RefreshService, Stop
  <2>3. ASSUME NEW c \in Callers, CallStep(c)
        PROVE  (NewestPart /\ ClientPart /\ OfferPart)' /\ EndpointStep
    <3>1. ASSUME NEW k \in Keys, VisitUnary(c, k) \/ VisitGrpc(c, k)
          PROVE  (NewestPart /\ ClientPart /\ OfferPart)' /\ EndpointStep
      <4>1. CASE (Fits(k) /\ VisitUnary(c, k)) \/ VisitGrpc(c, k)
        BY <2>1, <4>1, VisitEndpoint
      <4>2. CASE ~Fits(k) /\ VisitUnary(c, k)
        BY <2>1, <4>2, ElsewhereEndpoint DEF VisitUnary
      <4> QED BY <3>1, <4>1, <4>2
    <3>2. CASE RegisterService(c)
      BY <2>1, <3>2, CheckEndpoint, ElsewhereEndpoint DEF RegisterService
    <3>8. CASE InsertService(c)
      BY <2>1, <3>8, RegisterEndpoint, ElsewhereEndpoint DEF InsertService
    <3>3. CASE EndRange(c)
      BY <2>1, <3>3, EndRangeEndpoint
    <3>4. CASE StopOld(c)
      BY <2>1, <3>4, StopOldEndpoint, ElsewhereEndpoint DEF StopOld
    <3>5. CASE CloseOld(c)
      BY <2>1, <3>5, CloseOldEndpoint, ElsewhereEndpoint DEF CloseOld
    <3>6. CASE ListenAgain(c) \/ SpawnServe(c)
      BY <2>1, <3>6, ListenSpawnEndpoint
    <3>7. CASE SetLst(c) \/ SetServer(c)
      BY <2>1, <3>7, AssignEndpoint
    <3> QED BY <2>3, <3>1, <3>2, <3>3, <3>4, <3>5, <3>6, <3>7, <3>8 DEF CallStep
  <2>4. ASSUME NEW g \in Gens, ServeStep(g) \/ Accepts(g) \/ PeerDisconnects(g)
        PROVE  (NewestPart /\ ClientPart /\ OfferPart)' /\ EndpointStep
    <3>1. CASE ServeBegins(g)
      BY <2>1, <3>1, ServeBeginsEndpoint, ElsewhereEndpoint DEF ServeBegins
    <3>2. CASE ServeReturns(g) \/ Accepts(g) \/ PeerDisconnects(g)
      BY <2>1, <3>2, ClientsEndpoint
    <3> QED BY <2>4, <3>1, <3>2 DEF ServeStep
  <2>5. CASE \E k \in Keys : Store(k)
    BY <2>1, <2>5, ElsewhereEndpoint
  <2> QED BY <1>2, <2>2, <2>3, <2>4, <2>5 DEF Next
<1> QED BY <1>1, <1>2

(* The server's invariant holds of every behaviour, for any callers, keys, *)
(* descriptors and generations, whether calls overlap or not               *)
(* (dubbo3_server.go:254-312).                                             *)
THEOREM ServerCorrect == Spec => []InductiveInvariant
<1>1. Init => InductiveInvariant
  BY InitTyped, InitConcurrent, InitSerial, InitEndpoint DEF InductiveInvariant
<1>2. InductiveInvariant /\ [Next]_vars => InductiveInvariant'
  <2> SUFFICES ASSUME InductiveInvariant, [Next]_vars PROVE InductiveInvariant'
    OBVIOUS
  <2>1. TypeOK' /\ ConcurrentInvariant' /\ SerializedInvariant'
    BY NextTyped, NextConcurrent, NextSerial DEF InductiveInvariant
  <2>2. EndpointInvariant'
    BY NextEndpoint DEF EndpointInvariant
  <2> QED BY <2>1, <2>2 DEF InductiveInvariant
<1> QED BY <1>1, <1>2, PTL DEF Spec

(* A server whose calls the application serializes is a ServiceEndpoint:   *)
(* one generation is reachable at a time, each newer than the last and     *)
(* with all that was stored when it was asked for, and no client stays on  *)
(* an older one unless Stop was called (dubbo3_server.go:254-312).         *)
THEOREM Implements ==
  ASSUME Serialized
  PROVE  Spec => ImplementsEndpoint
<1>1. Init => Endpoint!Init
  <2> SUFFICES ASSUME Init PROVE Endpoint!Init
    OBVIOUS
  <2>1. /\ \A g \in Gens : /\ obj[g].asked = {} /\ obj[g].serve = "none"
                           /\ ~obj[g].conn
        /\ gens = 0 /\ crashed = "no" /\ stopped = {}
        /\ rpcServiceMap \in SUBSET Keys
    BY DEF Init, Fresh
  <2>2. Reachable = {} /\ Turns = {} /\ Clients = {} /\ Alive = TRUE
    BY <2>1 DEF Reachable, Turns, Clients, Alive
  <2>3. Current = nil /\ Offer = {}
    BY <2>2 DEF Current, Offer
  <2>4. Want = [g \in Endpoint!Gens |-> {}]
    BY <2>1 DEF Want, Gens, Endpoint!Gens
  <2> QED BY <2>1, <2>2, <2>3, <2>4 DEF Endpoint!Init, Endpoint!nil, nil
<1>2. InductiveInvariant /\ [Next]_vars => [Endpoint!Next]_(Endpoint!vars)
  BY NextEndpoint DEF EndpointStep
<1> QED BY <1>1, <1>2, ServerCorrect, PTL DEF Spec, ImplementsEndpoint, Endpoint!Spec

===============================================================================
