-------------------------- MODULE TripleServerProofs --------------------------
(***************************************************************************)
(* Proofs about a TripleServer, for every set of callers, services and     *)
(* descriptors and any number of refreshes: what holds of calls that run   *)
(* concurrently, and what holds if the application serializes them.        *)
(***************************************************************************)
EXTENDS TripleServer, TLAPS

-------------------------------------------------------------------------------
(* Type correctness. *)

LEMMA InitTyped == Init => TypeOK
<1>1. Fresh \in Objects
  BY DEF Fresh, Objects
<1>2. [pc |-> "idle", op |-> "none", gen |-> nil, visited |-> {}, key |-> NoName]
        \in CallRecords
  BY DEF CallRecords, Steps
<1>3. 0 \in 0..MaxGen
  BY ServerAssumption
<1> QED BY <1>1, <1>2, <1>3 DEF Init, TypeOK

LEMMA CrashTyped ==
  ASSUME TypeOK,
         NEW why \in {"listen", "refused", "nilServer", "nilListener",
                      "serveNil", "duplicate", "assertion"},
         Crash(why)
  PROVE  TypeOK'
BY DEF TypeOK, Crash, refs, names

(* An object of the type replaces one of a generation. *)
LEMMA ServingTyped ==
  ASSUME TypeOK, NEW g \in Gens, NEW object \in Objects, Serving(g, object)
  PROVE  TypeOK'
BY DEF TypeOK, Serving, refs, names, world

LEMMA BuildTyped ==
  ASSUME TypeOK, NEW c \in Callers, NEW method \in {"Start", "RefreshService"},
         NEW listener \in {"none", "open"}, BuildServer(c, method, listener)
  PROVE  TypeOK'
<1>1. gens + 1 \in Gens /\ gens' \in 0..MaxGen
  BY ServerAssumption DEF TypeOK, BuildServer, Gens
<1>2. obj[gens + 1] \in Objects
  BY <1>1 DEF TypeOK
<1>3. obj' \in [Gens -> Objects]
  BY <1>1, <1>2 DEF BuildServer, Objects, TypeOK
<1>4. call' \in [Callers -> CallRecords]
  BY <1>1 DEF BuildServer, CallRecords, Steps, TypeOK
<1> QED BY <1>1, <1>3, <1>4 DEF BuildServer, TypeOK, refs, names, world

LEMMA MoveTyped ==
  ASSUME TypeOK, NEW c \in Callers, NEW from, NEW to \in Steps,
         Moves(c, from, to), obj' \in [Gens -> Objects],
         lst' \in Gens \cup {nil}, grpcServer' \in Gens \cup {nil},
         refused' \in BOOLEAN, UNCHANGED <<rpcServiceMap, stopped, crashed>>
  PROVE  TypeOK'
<1>1. call[c] \in CallRecords
  BY DEF TypeOK
<1>2. call' \in [Callers -> CallRecords]
  BY <1>1 DEF Moves, TypeOK, CallRecords
<1> QED BY <1>2 DEF TypeOK, Moves, names

LEMMA StepTyped ==
  ASSUME TypeOK, NEW c \in Callers, NEW from, NEW to \in Steps,
         Step(c, from, to), obj' \in [Gens -> Objects],
         lst' \in Gens \cup {nil}, grpcServer' \in Gens \cup {nil}
  PROVE  TypeOK'
BY MoveTyped DEF Step, world, TypeOK

(* A call in progress has an object, and one that registers has a key. *)
LEMMA OwnObject ==
  ASSUME TypeOK, ConcurrentInvariant, NEW c \in Callers, Active(c)
  PROVE  /\ call[c] \in CallRecords
         /\ call[c].gen \in Gens /\ call[c].gen <= gens
         /\ obj[call[c].gen] \in Objects
         /\ InHand(c) => call[c].key \in Keys \ UnaryKeys
<1>1. call[c] \in CallRecords
  BY DEF TypeOK
<1>2. call[c].gen \in 1..gens /\ gens \in 0..MaxGen
  BY DEF TypeOK, ConcurrentInvariant, GenerationPart
<1>3. call[c].gen \in Gens /\ call[c].gen <= gens
  BY <1>2, ServerAssumption DEF Gens
<1> QED BY <1>1, <1>3 DEF TypeOK, ConcurrentInvariant, NamePart

(* The registrations of a call go to its own gRPC server. *)
LEMMA RegisterTyped ==
  ASSUME TypeOK, ConcurrentInvariant, NEW c \in Callers, Active(c),
         NEW name \in Keys \cup {NoName}, NEW k \in Keys, Register(c, name, k)
  PROVE  obj' \in [Gens -> Objects]
<1>1. call[c].gen \in Gens /\ obj[call[c].gen] \in Objects
  BY OwnObject
<1>2. {r \in obj[call[c].gen].services : r[1] # name} \cup {<<name, k>>}
        \in SUBSET ((Keys \cup {NoName}) \X Keys)
  BY <1>1 DEF Objects
<1> QED BY <1>1, <1>2 DEF Register, Objects, TypeOK

LEMMA RangeTyped ==
  ASSUME TypeOK, ConcurrentInvariant, NEW c \in Callers, NEW k \in Keys,
         \/ VisitUnary(c, k) \/ VisitGrpc(c, k)
         \/ RegisterService(c) \/ InsertService(c)
  PROVE  TypeOK'
<1>0. Active(c)
  BY DEF Active, VisitUnary, VisitGrpc, NamesDesc, Visit, RegisterService,
         InsertService, At
<1>1. call[c] \in CallRecords
  BY DEF TypeOK
<1>2. CASE VisitUnary(c, k)
  <2>0. CASE Crash("assertion")
    BY <2>0, CrashTyped
  <2>1. CASE /\ Visit(c, k) /\ Register(c, k, k) /\ NoteRegistered(c, k)
             /\ call' = [call EXCEPT ![c].visited = @ \cup {k}]
             /\ UNCHANGED serviceName
    <3>1. obj' \in [Gens -> Objects]
      BY <1>0, <2>1, RegisterTyped
    <3>2. call' \in [Callers -> CallRecords]
      BY <1>1, <2>1 DEF TypeOK, CallRecords
    <3>3. registeredKey' \subseteq Keys
      BY <2>1 DEF NoteRegistered, TypeOK
    <3> QED BY <2>1, <3>1, <3>2, <3>3 DEF Visit, TypeOK, refs, world
  <2> QED BY <1>2, <2>0, <2>1 DEF VisitUnary
<1>3. CASE VisitGrpc(c, k)
  <2>1. NamesDesc(c, k, k) /\ NoteRegistered(c, k)
    BY <1>3 DEF VisitGrpc
  <2>2. call' \in [Callers -> CallRecords]
    BY <1>1, <2>1 DEF NamesDesc, TypeOK, CallRecords, Steps
  <2>3. registeredKey' \subseteq Keys
    BY <2>1 DEF NoteRegistered, TypeOK
  <2>4. serviceName' \in [Descs -> Keys \cup {NoName}]
    BY <2>1 DEF NamesDesc, TypeOK
  <2> QED BY <2>1, <2>2, <2>3, <2>4 DEF NamesDesc, Visit, TypeOK, refs, world
<1>4. CASE InsertService(c)
  <2> DEFINE key == call[c].key
             name == serviceName[DescOf[key]]
  <2>1. CASE Registered(c, name, key, key = ReflectKey)
    <3>1. key \in Keys /\ call[c].gen \in Gens
      BY <1>0, <1>4, OwnObject DEF InsertService, InHand, At
    <3>2. name \in Keys \cup {NoName}
      BY <3>1, ServerAssumption DEF TypeOK
    <3>3. obj' \in [Gens -> Objects]
      BY <1>0, <2>1, <3>1, <3>2, RegisterTyped DEF Registered
    <3>4. call' \in [Callers -> CallRecords]
      BY <1>1, <2>1 DEF Registered, TypeOK, CallRecords, Steps
    <3>5. reflected' \in Gens \cup {nil}
      BY <2>1, <3>1 DEF Registered, TypeOK
    <3> QED BY <2>1, <3>3, <3>4, <3>5 DEF Registered, TypeOK, refs, world
  <2> QED BY <1>4, <2>1, CrashTyped DEF InsertService
<1>5. CASE RegisterService(c)
  <2>1. CASE Step(c, "register", "insert") /\ UNCHANGED <<refs, obj>>
    BY <2>1, StepTyped DEF Steps, TypeOK, refs
  <2> QED BY <1>5, <2>1, CrashTyped DEF RegisterService
<1> QED BY <1>2, <1>3, <1>4, <1>5

LEMMA ReplaceTyped ==
  ASSUME TypeOK, ConcurrentInvariant, NEW c \in Callers,
         \/ StopOld(c) \/ CloseOld(c) \/ ListenAgain(c)
         \/ SpawnServe(c) \/ SetLst(c) \/ SetServer(c)
  PROVE  TypeOK'
<1> USE DEF Steps
<1>1. CASE StopOld(c)
  <2>1. CASE grpcServer # nil /\ Step(c, "stopOld", "closeOld")
             /\ obj' = [obj EXCEPT ![grpcServer] = AfterStop(@)]
             /\ UNCHANGED refs
    <3>1. obj[grpcServer] \in Objects
      BY <2>1 DEF TypeOK
    <3>2. AfterStop(obj[grpcServer]) \in Objects
      BY <3>1 DEF AfterStop, Objects
    <3>3. obj' \in [Gens -> Objects]
      BY <2>1, <3>2 DEF TypeOK
    <3> QED BY <2>1, <3>3, StepTyped DEF refs, TypeOK
  <2> QED BY <1>1, <2>1, CrashTyped DEF StopOld
<1>2. CASE CloseOld(c)
  <2>1. CASE lst # nil /\ Step(c, "closeOld", "listen")
             /\ obj' = [obj EXCEPT ![lst].listener = "closed"]
             /\ UNCHANGED refs
    <3>1. obj[lst] \in Objects
      BY <2>1 DEF TypeOK
    <3>2. obj' \in [Gens -> Objects]
      BY <2>1, <3>1 DEF TypeOK, Objects
    <3> QED BY <2>1, <3>2, StepTyped DEF refs, TypeOK
  <2> QED BY <1>2, <2>1, CrashTyped DEF CloseOld
<1>3. CASE ListenAgain(c) \/ SpawnServe(c)
  <2>0. Active(c)
    BY <1>3 DEF ListenAgain, SpawnServe, Step, Moves, Active, At
  <2>1. call[c].gen \in Gens /\ obj[call[c].gen] \in Objects
    BY <2>0, OwnObject
  <2>2. obj' \in [Gens -> Objects]
    BY <1>3, <2>1 DEF ListenAgain, SpawnServe, Objects, TypeOK
  <2>3. CASE ListenAgain(c)
    <3>1. /\ Moves(c, "listen", "spawn") /\ UNCHANGED refs
          /\ refused' \in BOOLEAN /\ UNCHANGED <<rpcServiceMap, stopped, crashed>>
      BY <2>3 DEF ListenAgain, TypeOK
    <3> QED BY <2>2, <3>1, MoveTyped DEF refs, TypeOK
  <2> QED BY <1>3, <2>2, <2>3, StepTyped DEF SpawnServe, AfterSpawn, refs, TypeOK
<1>4. CASE SetLst(c) \/ SetServer(c)
  <2>0. Active(c)
    BY <1>4 DEF SetLst, SetServer, Step, Moves, Active, At
  <2>1. call[c].gen \in Gens
    BY <2>0, OwnObject
  <2> QED BY <1>4, <2>1, StepTyped DEF SetLst, SetServer, AfterLst, TypeOK
<1> QED BY <1>1, <1>2, <1>3, <1>4

LEMMA ServeTyped ==
  ASSUME TypeOK, NEW g \in Gens,
         ServeStep(g) \/ Accepts(g) \/ PeerDisconnects(g)
  PROVE  TypeOK'
<1>0. obj[g] \in Objects
  BY DEF TypeOK
<1>1. ASSUME NEW object \in Objects, Serving(g, object)
      PROVE  TypeOK'
  BY <1>1, ServingTyped
<1>2. CASE ServeBegins(g)
  <2> DEFINE o == [obj[g] EXCEPT
                     !.asked = {},
                     !.serve = IF obj[g].server = "built" THEN "accepting"
                               ELSE "returned",
                     !.listener = IF obj[g].server = "built" THEN @
                                  ELSE "closed"]
  <2>1. o \in Objects
    BY <1>0 DEF Objects
  <2>2. CASE Serving(g, o)
    BY <1>1, <2>1, <2>2
  <2> QED BY <1>2, <2>2, CrashTyped DEF ServeBegins
<1>3. CASE Accepts(g)
  BY <1>0, <1>1, <1>3 DEF Accepts, Objects
<1>4. CASE ServeReturns(g)
  BY <1>0, <1>1, <1>4 DEF ServeReturns, Objects
<1>5. CASE PeerDisconnects(g)
  BY <1>0, <1>1, <1>5 DEF PeerDisconnects, Objects
<1> QED BY <1>2, <1>3, <1>4, <1>5 DEF ServeStep

LEMMA NextTyped ==
  TypeOK /\ ConcurrentInvariant /\ [Next]_vars => TypeOK'
<1> SUFFICES ASSUME TypeOK, ConcurrentInvariant, [Next]_vars PROVE TypeOK'
  OBVIOUS
<1>1. ASSUME NEW c \in Callers, Start(c) \/ RefreshService(c)
      PROVE  TypeOK'
  BY <1>1, BuildTyped, CrashTyped DEF Start, RefreshService
<1>2. ASSUME NEW c \in Callers, Stop(c)
      PROVE  TypeOK'
  <2>1. CASE lst = nil /\ Crash("nilListener")
    BY <2>1, CrashTyped
  <2>2. CASE /\ lst # nil
             /\ obj' = [obj EXCEPT ![lst].listener = "closed"]
             /\ stopped' = stopped \cup {lst}
             /\ UNCHANGED <<rpcServiceMap, refused, crashed, registeredKey, refs,
                            names, gens, call>>
    <3>1. obj[lst] \in Objects /\ lst \in Gens
      BY <2>2 DEF TypeOK
    <3>2. obj' \in [Gens -> Objects]
      BY <2>2, <3>1 DEF TypeOK, Objects
    <3> QED BY <2>2, <3>1, <3>2 DEF TypeOK, refs, names
  <2> QED BY <1>2, <2>1, <2>2 DEF Stop
<1>3. ASSUME NEW c \in Callers, CallStep(c)
      PROVE  TypeOK'
  <2>1. ASSUME NEW k \in Keys, VisitUnary(c, k) \/ VisitGrpc(c, k)
        PROVE  TypeOK'
    BY <2>1, RangeTyped
  <2>2. CASE RegisterService(c) \/ InsertService(c)
    <3>1. Active(c) /\ InHand(c)
      BY <2>2 DEF RegisterService, InsertService, Active, InHand, At
    <3>2. call[c].key \in Keys
      BY <3>1, OwnObject
    <3> QED BY <2>2, <3>2, RangeTyped
  <2>3. CASE EndRange(c)
    <3>1. call[c] \in CallRecords
      BY DEF TypeOK
    <3>2. call' \in [Callers -> CallRecords]
      BY <2>3, <3>1 DEF EndRange, TypeOK, CallRecords, Steps
    <3> QED BY <2>3, <3>2 DEF EndRange, TypeOK, refs, names, world
  <2> QED BY <1>3, <2>1, <2>2, <2>3, ReplaceTyped DEF CallStep
<1>4. ASSUME NEW g \in Gens, ServeStep(g) \/ Accepts(g) \/ PeerDisconnects(g)
      PROVE  TypeOK'
  BY <1>4, ServeTyped
<1>5. ASSUME NEW k \in Keys, Store(k)
      PROVE  TypeOK'
  BY <1>5 DEF Store, TypeOK, refs, names
<1>7. CASE UNCHANGED vars
  BY <1>7 DEF vars, TypeOK
<1> QED BY <1>1, <1>2, <1>3, <1>4, <1>5, <1>7 DEF Next

-------------------------------------------------------------------------------
(* ConcurrentInvariant is inductive. *)

LEMMA InitConcurrent == Init => ConcurrentInvariant
<1> SUFFICES ASSUME Init PROVE ConcurrentInvariant
  OBVIOUS
<1>1. \A c \in Callers : call[c].pc = "idle"
  BY DEF Init
<1>2. GenerationPart
  BY <1>1 DEF Init, GenerationPart, Active, nil
<1>3. \A g \in Gens : obj[g].services = {} /\ obj[g].server = "none"
  BY DEF Init, Fresh
<1>4. NamePart
  BY <1>1, <1>3 DEF Init, NamePart, MixUpsStayInDescriptor, InHand
<1>5. RangePart
  BY <1>1 DEF RangePart, LossesStayInDescriptor, InHand, At
<1>6. ServePart
  BY <1>1, <1>3 DEF ServePart, Active
<1> QED BY <1>2, <1>4, <1>5, <1>6 DEF ConcurrentInvariant

(* What most steps have in common: they register nothing and begin no      *)
(* call. Only ServePart needs a look at what they do.                      *)
Ordinary ==
  /\ UNCHANGED <<gens, serviceName>>
  /\ lst' <= gens /\ grpcServer' <= gens
  /\ \A c \in Callers :
       /\ call'[c].gen = call[c].gen
       /\ call'[c].key = call[c].key
       /\ call'[c].visited = call[c].visited
       /\ call'[c].op = call[c].op
       /\ \/ call'[c].pc = call[c].pc
          \/ call[c].pc = "register" /\ call'[c].pc = "insert"
          \/ /\ call[c].pc \in Steps \ {"idle", "range", "register", "insert"}
             /\ call'[c].pc \in Steps \ {"range", "register", "insert"}
  /\ \A g \in Gens :
       /\ obj'[g].services = obj[g].services
       /\ obj'[g].asked \subseteq obj[g].asked
       /\ g > gens => obj'[g] = obj[g]

LEMMA OrdinaryStep ==
  ASSUME TypeOK, ConcurrentInvariant, Ordinary, ServePart'
  PROVE  ConcurrentInvariant'
<1>0. \A c \in Callers : (Active(c)' => Active(c)) /\ call'[c].gen = call[c].gen
  BY DEF Ordinary, Active
<1>1. GenerationPart'
  <2>1. \A g \in Gens : g > gens' => obj'[g] = Fresh
    BY DEF Ordinary, ConcurrentInvariant, GenerationPart
  <2>2. lst' <= gens' /\ grpcServer' <= gens' /\ gens' = gens
    BY DEF Ordinary
  <2>3. \A c \in Callers : Active(c)' => call'[c].gen \in 1..gens'
    BY <1>0, <2>2 DEF ConcurrentInvariant, GenerationPart
  <2>4. \A c, d \in Callers :
          Active(c)' /\ Active(d)' /\ call'[c].gen = call'[d].gen => c = d
    BY <1>0 DEF ConcurrentInvariant, GenerationPart
  <2> QED BY <2>1, <2>2, <2>3, <2>4 DEF GenerationPart
<1>2. ASSUME NEW g \in Gens
      PROVE  Covered(g)' = Covered(g)
  <2>1. obj'[g].services = obj[g].services
    BY DEF Ordinary
  <2>2. Exposed(g)' = Exposed(g)
    BY <2>1 DEF Exposed
  <2> QED BY <2>2 DEF Covered, Kin
<1>3. NamePart'
  <2>1. \A c \in Callers : InHand(c)' =>
          InHand(c) /\ call'[c].key = call[c].key
    BY DEF Ordinary, InHand
  <2>2. serviceName' = serviceName
    BY DEF Ordinary
  <2>3. MixUpsStayInDescriptor'
    BY DEF Ordinary, ConcurrentInvariant, NamePart, MixUpsStayInDescriptor
  <2> QED BY <2>1, <2>2, <2>3 DEF ConcurrentInvariant, NamePart
<1>4. RangePart'
  <2>1. ASSUME NEW c \in Callers, Active(c)'
        PROVE  Active(c) /\ call[c].gen \in Gens
    BY <2>1, OwnObject DEF Ordinary, Active
  <2>2. ASSUME NEW c \in Callers
        PROVE  /\ At(c, "range")' =>
                    call'[c].visited \subseteq Covered(call[c].gen)'
               /\ InHand(c)' =>
                    call'[c].visited \subseteq Covered(call[c].gen)'
                                                 \cup {call'[c].key}
    BY <1>2, <2>1, <2>2
       DEF Ordinary, ConcurrentInvariant, RangePart, At, InHand, Active
  <2>3. ASSUME NEW c \in Callers, call'[c].pc \notin {"idle", "range", "register", "insert"}
        PROVE  obj'[call[c].gen].asked \subseteq Covered(call[c].gen)'
    <3>1. call[c].gen \in Gens /\ call[c].pc \notin {"idle", "range", "register", "insert"}
      BY <2>1, <2>3 DEF Ordinary, Active
    <3>2. obj[call[c].gen].asked \subseteq Covered(call[c].gen)
      BY <3>1 DEF ConcurrentInvariant, RangePart, LossesStayInDescriptor
    <3> QED BY <1>2, <3>1, <3>2 DEF Ordinary
  <2> QED BY <2>2, <2>3 DEF RangePart, LossesStayInDescriptor, Ordinary
<1> QED BY <1>1, <1>3, <1>4 DEF ConcurrentInvariant

(* A call begins: its generation is new, so nothing that is known of the   *)
(* others is disturbed.                                                    *)
LEMMA BuildEffect ==
  ASSUME TypeOK, ConcurrentInvariant, NEW c \in Callers,
         NEW method \in {"Start", "RefreshService"},
         NEW listener \in {"none", "open"}, BuildServer(c, method, listener)
  PROVE  /\ gens + 1 \in Gens /\ gens' = gens + 1
         /\ obj'[gens + 1] = [server |-> "built", services |-> {},
                               asked |-> rpcServiceMap, conn |-> FALSE,
                               listener |-> listener, serve |-> "none"]
         /\ \A g \in Gens : g # gens + 1 => obj'[g] = obj[g]
         /\ call' = [call EXCEPT ![c] =
                       [pc |-> "range", op |-> method, gen |-> gens + 1,
                        visited |-> {}, key |-> NoName]]
         /\ UNCHANGED <<lst, grpcServer, serviceName>>
<1>1. gens + 1 \in Gens /\ gens' = gens + 1
  BY ServerAssumption DEF TypeOK, BuildServer, Gens
<1>2. obj[gens + 1] = Fresh
  BY <1>1 DEF ConcurrentInvariant, GenerationPart, TypeOK
<1>3. obj'[gens + 1] = [Fresh EXCEPT !.server = "built", !.asked = rpcServiceMap,
                                      !.listener = listener]
  BY <1>1, <1>2 DEF BuildServer, TypeOK
<1>4. \A g \in Gens : g # gens + 1 => obj'[g] = obj[g]
  BY <1>1 DEF BuildServer, TypeOK
<1> QED BY <1>1, <1>3, <1>4 DEF BuildServer, Fresh, refs, names

LEMMA BuildConcurrent ==
  ASSUME TypeOK, ConcurrentInvariant, NEW c \in Callers,
         NEW method \in {"Start", "RefreshService"},
         NEW listener \in {"none", "open"}, BuildServer(c, method, listener)
  PROVE  ConcurrentInvariant'
<1> DEFINE new == [server |-> "built", services |-> {}, asked |-> rpcServiceMap,
                   conn |-> FALSE, listener |-> listener, serve |-> "none"]
<1>1. /\ gens + 1 \in Gens /\ gens' = gens + 1
      /\ UNCHANGED <<lst, grpcServer, serviceName>>
  BY BuildEffect
<1>2. /\ call'[c].pc = "range" /\ call'[c].gen = gens + 1
      /\ call'[c].visited = {}
      /\ \A d \in Callers \ {c} : call'[d] = call[d]
  BY BuildEffect DEF TypeOK
<1>3. /\ obj'[gens + 1] = new
      /\ \A g \in Gens : g # gens + 1 => obj'[g] = obj[g]
  BY BuildEffect
<1>4. \A d \in Callers \ {c} : Active(d)' =>
        Active(d) /\ call'[d].gen \in Gens /\ call'[d].gen # gens + 1
        /\ call'[d].gen <= gens
  BY <1>2, OwnObject DEF Active, TypeOK, Gens
<1>5. GenerationPart'
  <2>1. lst' <= gens' /\ grpcServer' <= gens'
    BY <1>1 DEF ConcurrentInvariant, GenerationPart, TypeOK, Gens, nil
  <2>2. \A g \in Gens : g > gens' => obj'[g] = Fresh
    BY <1>1, <1>3 DEF ConcurrentInvariant, GenerationPart, TypeOK, Gens
  <2>3. \A d \in Callers : Active(d)' => call'[d].gen \in 1..gens'
    BY <1>1, <1>2, <1>4 DEF TypeOK, Gens
  <2>4. \A d, e \in Callers :
          Active(d)' /\ Active(e)' /\ call'[d].gen = call'[e].gen => d = e
    BY <1>2, <1>4 DEF ConcurrentInvariant, GenerationPart
  <2> QED BY <2>1, <2>2, <2>3, <2>4 DEF GenerationPart
<1>6. NamePart'
  <2>1. \A d \in Callers : InHand(d)' =>
          InHand(d) /\ call'[d].key = call[d].key
    BY <1>2 DEF InHand
  <2>2. MixUpsStayInDescriptor'
    BY <1>3 DEF ConcurrentInvariant, NamePart, MixUpsStayInDescriptor
  <2> QED BY <1>1, <2>1, <2>2 DEF ConcurrentInvariant, NamePart
<1>7. RangePart'
  <2>1. ASSUME NEW g \in Gens, g # gens + 1
        PROVE  Covered(g)' = Covered(g)
    <3>1. Exposed(g)' = Exposed(g)
      BY <1>3, <2>1 DEF Exposed
    <3> QED BY <3>1 DEF Covered, Kin
  <2>2. ASSUME NEW d \in Callers, d # c, Active(d)'
        PROVE  /\ At(d, "range")' =>
                    call'[d].visited \subseteq Covered(call[d].gen)'
               /\ InHand(d)' =>
                    call'[d].visited \subseteq Covered(call[d].gen)'
                                                 \cup {call'[d].key}
               /\ call'[d].pc \notin {"idle", "range", "register", "insert"} =>
                    obj'[call'[d].gen].asked \subseteq Covered(call[d].gen)'
    <3>1. call'[d] = call[d] /\ call[d].gen \in Gens /\ call[d].gen # gens + 1
      BY <1>2, <1>4, <2>2
    <3>2. Covered(call[d].gen)' = Covered(call[d].gen)
          /\ obj'[call'[d].gen] = obj[call[d].gen]
      BY <1>3, <2>1, <3>1
    <3> QED BY <3>1, <3>2
            DEF ConcurrentInvariant, RangePart, LossesStayInDescriptor, At, InHand
  <2> QED BY <1>2, <2>2 DEF RangePart, LossesStayInDescriptor, At, InHand, Active
<1>8. ServePart'
  <2>1. \A d \in Callers :
          Active(d)' /\ call'[d].pc \notin {"setLst", "setServer"} =>
            obj'[call'[d].gen].serve = "none"
    BY <1>2, <1>3, <1>4 DEF ConcurrentInvariant, ServePart, Active
  <2>2. \A g \in Gens : obj'[g].server = "stopped" =>
          /\ ~obj'[g].conn
          /\ obj'[g].serve = "accepting" => obj'[g].listener # "open"
    BY <1>3 DEF ConcurrentInvariant, ServePart
  <2> QED BY <2>1, <2>2 DEF ServePart
<1> QED BY <1>5, <1>6, <1>7, <1>8 DEF ConcurrentInvariant

(* May a service with key k be entered under the name? *)
MayBear(k, name) ==
  /\ name \in Keys
  /\ name # k => {name, k} \subseteq Keys \ UnaryKeys /\ DescOf[name] = DescOf[k]

(* Registering a service concerns the call's own gRPC server. An entry it  *)
(* takes away is of the service's own kin.                                 *)
LEMMA RegisterEffect ==
  ASSUME TypeOK, ConcurrentInvariant, NEW c \in Callers, Active(c),
         NEW name, NEW k \in Keys, MayBear(k, name), Register(c, name, k)
  PROVE  /\ \A g \in Gens :
              /\ g # call[c].gen => obj'[g] = obj[g]
              /\ obj'[g].server = obj[g].server
              /\ obj'[g].asked = obj[g].asked
              /\ obj'[g].conn = obj[g].conn
              /\ obj'[g].listener = obj[g].listener
              /\ obj'[g].serve = obj[g].serve
              /\ Covered(g) \subseteq Covered(g)'
         /\ obj'[call[c].gen].services =
              {r \in obj[call[c].gen].services : r[1] # name} \cup {<<name, k>>}
         /\ \A g \in Gens : g = call[c].gen => k \in Exposed(g)' \cap Covered(g)'
<1>1. call[c].gen \in Gens /\ obj[call[c].gen] \in Objects
  BY OwnObject
<1>2. ASSUME NEW g \in Gens
      PROVE  /\ g # call[c].gen => obj'[g] = obj[g]
             /\ obj'[g].server = obj[g].server
             /\ obj'[g].asked = obj[g].asked
             /\ obj'[g].conn = obj[g].conn
             /\ obj'[g].listener = obj[g].listener
             /\ obj'[g].serve = obj[g].serve
  BY <1>1 DEF Register, TypeOK, Objects
<1>3. obj'[call[c].gen].services =
        {r \in obj[call[c].gen].services : r[1] # name} \cup {<<name, k>>}
  BY <1>1 DEF Register, TypeOK, Objects
<1>4. ASSUME NEW g \in Gens, g = call[c].gen
      PROVE  k \in Exposed(g)'
  BY <1>3, <1>4 DEF Exposed, MayBear
<1>5. ASSUME NEW g \in Gens
      PROVE  Covered(g) \subseteq Covered(g)'
  <2>1. CASE g # call[c].gen
    <3>1. Exposed(g)' = Exposed(g)
      BY <1>2, <2>1 DEF Exposed
    <3> QED BY <3>1 DEF Covered
  <2>2. CASE g = call[c].gen
    <3> SUFFICES ASSUME NEW j \in Covered(g)
                 PROVE  Kin(j) \cap Exposed(g)' # {} /\ j \in Keys
      BY DEF Covered
    <3>0. j \in Keys /\ Kin(j) \cap Exposed(g) # {}
      BY DEF Covered
    <3>1. PICK i \in Keys : i \in Kin(j) /\ i \in Exposed(g)
      BY <3>0 DEF Exposed
    <3>2. PICK n \in Keys : <<n, i>> \in obj[g].services
      BY <3>1 DEF Exposed
    <3>3. CASE n # name
      <4>1. <<n, i>> \in obj'[g].services
        BY <1>3, <2>2, <3>2, <3>3
      <4>2. i \in Exposed(g)'
        BY <4>1 DEF Exposed
      <4> QED BY <3>0, <3>1, <4>2
    <3>4. CASE n = name
      <4>1. name # i => {name, i} \subseteq Keys \ UnaryKeys
                        /\ DescOf[name] = DescOf[i]
        <5>1. <<n, i>>[1] = name /\ <<n, i>>[2] = i
          BY <3>4
        <5> QED BY <3>2, <5>1
                DEF ConcurrentInvariant, NamePart, MixUpsStayInDescriptor
      <4>2. k \in Kin(j)
        BY <3>0, <3>1, <4>1 DEF Kin, MayBear
      <4> QED BY <1>4, <2>2, <3>0, <4>2
    <3> QED BY <3>3, <3>4
  <2> QED BY <2>1, <2>2
<1>6. k \in Kin(k)
  BY DEF Kin
<1>7. ASSUME NEW g \in Gens, g = call[c].gen
      PROVE  k \in Covered(g)'
  BY <1>4, <1>6, <1>7 DEF Covered
<1> QED BY <1>2, <1>3, <1>4, <1>5, <1>7

(* A step of Range: c has visited a key, another call is not concerned. *)
LEMMA RangeConcurrent ==
  ASSUME TypeOK, ConcurrentInvariant, NEW c \in Callers, Active(c),
         UNCHANGED <<gens, lst, grpcServer>>,
         \A d \in Callers \ {c} : call'[d] = call[d],
         call'[c].gen = call[c].gen,
         call'[c].pc \in {"range", "register", "insert"},
         call[c].pc \in {"range", "register", "insert"},
         \A g \in Gens :
           /\ g # call[c].gen => obj'[g] = obj[g]
           /\ obj'[g].server = obj[g].server
           /\ obj'[g].asked = obj[g].asked
           /\ obj'[g].conn = obj[g].conn
           /\ obj'[g].listener = obj[g].listener
           /\ obj'[g].serve = obj[g].serve
           /\ Covered(g) \subseteq Covered(g)',
         \A g \in Gens : g = call[c].gen =>
           call'[c].visited \subseteq
             Covered(g)' \cup (IF call'[c].pc = "range" THEN {} ELSE {call'[c].key}),
         NamePart'
  PROVE  ConcurrentInvariant'
<1>0. call[c].gen \in Gens /\ call[c].gen <= gens
  BY OwnObject
<1>1. \A d \in Callers : /\ Active(d)' = Active(d)
                         /\ call'[d].gen = call[d].gen
                         /\ Active(d) => call[d].gen \in Gens
  BY OwnObject DEF Active
<1>2. GenerationPart'
  <2>1. \A g \in Gens : g > gens' => obj'[g] = Fresh
    BY <1>0 DEF ConcurrentInvariant, GenerationPart, TypeOK, Gens
  <2> QED BY <1>1, <2>1 DEF ConcurrentInvariant, GenerationPart
<1>3. RangePart'
  <2>1. ASSUME NEW d \in Callers, d # c, Active(d)
        PROVE  /\ At(d, "range")' =>
                    call'[d].visited \subseteq Covered(call[d].gen)'
               /\ InHand(d)' =>
                    call'[d].visited \subseteq Covered(call[d].gen)'
                                                 \cup {call'[d].key}
               /\ call'[d].pc \notin {"idle", "range", "register", "insert"} =>
                    obj'[call'[d].gen].asked \subseteq Covered(call[d].gen)'
    <3>1. call'[d] = call[d] /\ call[d].gen \in Gens
      BY <1>1, <2>1
    <3>2. Covered(call[d].gen) \subseteq Covered(call[d].gen)'
          /\ obj'[call'[d].gen].asked = obj[call[d].gen].asked
      BY <3>1
    <3> QED BY <3>1, <3>2
            DEF ConcurrentInvariant, RangePart, LossesStayInDescriptor, At, InHand
  <2>2. /\ At(c, "range")' => call'[c].visited \subseteq Covered(call[c].gen)'
        /\ InHand(c)' => call'[c].visited \subseteq
                                   Covered(call[c].gen)' \cup {call'[c].key}
    BY <1>0 DEF At, InHand
  <2> QED BY <1>1, <2>1, <2>2 DEF RangePart, LossesStayInDescriptor, At, InHand, Active
<1>4. ServePart'
  <2>1. \A d \in Callers :
          Active(d)' /\ call'[d].pc \notin {"setLst", "setServer"} =>
            obj'[call'[d].gen].serve = "none"
    BY <1>1 DEF ConcurrentInvariant, ServePart
  <2>2. \A g \in Gens : obj'[g].server = "stopped" =>
          /\ ~obj'[g].conn
          /\ obj'[g].serve = "accepting" => obj'[g].listener # "open"
    BY DEF ConcurrentInvariant, ServePart
  <2> QED BY <2>1, <2>2 DEF ServePart
<1> QED BY <1>2, <1>3, <1>4 DEF ConcurrentInvariant

LEMMA VisitConcurrent ==
  ASSUME TypeOK, ConcurrentInvariant, NEW c \in Callers, NEW k \in Keys,
         (Fits(k) /\ VisitUnary(c, k)) \/ VisitGrpc(c, k)
  PROVE  ConcurrentInvariant'
<1>0. Visit(c, k)
  BY DEF VisitUnary, VisitGrpc, NamesDesc
<1>1. /\ Active(c) /\ call[c].pc = "range" /\ call[c].gen \in Gens
      /\ UNCHANGED <<gens, lst, grpcServer>>
  BY <1>0, OwnObject DEF Visit, Active, At, refs
<1>2. call[c] \in CallRecords
  BY DEF TypeOK
<1>3. call[c].visited \subseteq Covered(call[c].gen)
  BY <1>1 DEF ConcurrentInvariant, RangePart, At
<1>4. CASE Fits(k) /\ VisitUnary(c, k)
  <2>0. MayBear(k, k)
    BY DEF MayBear
  <2>1. Register(c, k, k) /\ UNCHANGED serviceName
    BY <1>4 DEF VisitUnary
  <2>2. /\ \A d \in Callers \ {c} : call'[d] = call[d]
        /\ call'[c].pc = "range" /\ call'[c].gen = call[c].gen
        /\ call'[c].visited = call[c].visited \cup {k}
    BY <1>1, <1>2, <1>4 DEF VisitUnary, TypeOK, CallRecords
  <2>3. NamePart'
    <3>1. MixUpsStayInDescriptor'
      <4>1. ASSUME NEW g \in Gens, NEW r \in obj'[g].services, r[1] # r[2]
            PROVE  r \in obj[g].services
        <5>1. CASE g = call[c].gen
          <6>1. r \in obj[g].services \cup {<<k, k>>}
            BY <1>1, <2>0, <2>1, <4>1, <5>1, RegisterEffect
          <6> QED BY <4>1, <6>1
        <5>2. CASE g # call[c].gen
          BY <1>1, <2>0, <2>1, <4>1, <5>2, RegisterEffect
        <5> QED BY <5>1, <5>2
      <4> QED BY <4>1 DEF ConcurrentInvariant, NamePart, MixUpsStayInDescriptor
    <3>2. \A d \in Callers : InHand(d)' =>
            InHand(d) /\ call'[d].key = call[d].key
      BY <2>2 DEF InHand
    <3> QED BY <2>1, <3>1, <3>2 DEF ConcurrentInvariant, NamePart
  <2>4. \A g \in Gens : g = call[c].gen => call'[c].visited \subseteq Covered(g)'
    BY <1>1, <1>3, <2>0, <2>1, <2>2, RegisterEffect
  <2>5. \A g \in Gens :
          /\ g # call[c].gen => obj'[g] = obj[g]
          /\ obj'[g].server = obj[g].server
          /\ obj'[g].asked = obj[g].asked
          /\ obj'[g].conn = obj[g].conn
          /\ obj'[g].listener = obj[g].listener
          /\ obj'[g].serve = obj[g].serve
          /\ Covered(g) \subseteq Covered(g)'
    BY <1>1, <2>0, <2>1, RegisterEffect
  <2> QED BY <1>1, <2>2, <2>3, <2>4, <2>5, RangeConcurrent
<1>5. CASE VisitGrpc(c, k)
  <2>1. NamesDesc(c, k, k) /\ UNCHANGED obj
    BY <1>5 DEF VisitGrpc, NamesDesc
  <2>2. /\ \A d \in Callers \ {c} : call'[d] = call[d]
        /\ call'[c].pc = "register" /\ call'[c].gen = call[c].gen
        /\ call'[c].visited = call[c].visited \cup {k} /\ call'[c].key = k
    BY <1>1, <1>2, <2>1 DEF NamesDesc, TypeOK, CallRecords
  <2>3. NamePart'
    <3>0. k \in Keys \ UnaryKeys /\ DescOf[k] \in Descs
          /\ serviceName' = [serviceName EXCEPT ![DescOf[k]] = k]
      BY <2>1, ServerAssumption DEF NamesDesc
    <3>1. \A d \in Descs : serviceName'[d] = IF d = DescOf[k] THEN k
                                             ELSE serviceName[d]
      BY <3>0 DEF TypeOK
    <3>2. MixUpsStayInDescriptor'
      BY <2>1 DEF ConcurrentInvariant, NamePart, MixUpsStayInDescriptor
    <3>3. \A d \in Descs : serviceName'[d] # NoName =>
            serviceName'[d] \in Keys \ UnaryKeys /\ DescOf[serviceName'[d]] = d
      BY <3>0, <3>1 DEF ConcurrentInvariant, NamePart
    <3>4. \A d \in Callers : InHand(d)' =>
            /\ call'[d].key \in Keys \ UnaryKeys
            /\ serviceName'[DescOf[call'[d].key]] # NoName
      BY <2>2, <3>0, <3>1, ServerAssumption
         DEF ConcurrentInvariant, NamePart, InHand
    <3> QED BY <3>2, <3>3, <3>4 DEF NamePart
  <2>4. \A g \in Gens : Covered(g)' = Covered(g)
    BY <2>1 DEF Covered, Exposed
  <2>5. \A g \in Gens : g = call[c].gen =>
          call'[c].visited \subseteq Covered(g)' \cup {call'[c].key}
    BY <1>3, <2>2, <2>4
  <2> QED BY <1>1, <2>1, <2>2, <2>3, <2>4, <2>5, RangeConcurrent
<1> QED BY <1>4, <1>5

LEMMA RegisterConcurrent ==
  ASSUME TypeOK, ConcurrentInvariant, NEW c \in Callers, At(c, "insert"),
         Registered(c, serviceName[DescOf[call[c].key]], call[c].key,
                    call[c].key = ReflectKey)
  PROVE  ConcurrentInvariant'
<1> DEFINE k == call[c].key
           name == serviceName[DescOf[k]]
<1>1. /\ Active(c) /\ call[c].pc = "insert" /\ call[c].gen \in Gens
      /\ k \in Keys \ UnaryKeys
      /\ UNCHANGED <<gens, lst, grpcServer, serviceName>>
      /\ Register(c, name, k)
  BY OwnObject DEF Active, InHand, At, refs, Registered
<1>2. name # NoName /\ DescOf[k] \in Descs
  BY <1>1, ServerAssumption DEF ConcurrentInvariant, NamePart, InHand
<1>3. name \in Keys \ UnaryKeys /\ DescOf[name] = DescOf[k] /\ MayBear(k, name)
  BY <1>1, <1>2 DEF ConcurrentInvariant, NamePart, MayBear
<1>4. call[c] \in CallRecords
  BY DEF TypeOK
<1>5. /\ \A d \in Callers \ {c} : call'[d] = call[d]
      /\ call'[c].pc = "range" /\ call'[c].gen = call[c].gen
      /\ call'[c].visited = call[c].visited
  BY <1>4 DEF Registered, TypeOK, CallRecords
<1>6. NamePart'
  <2>1. MixUpsStayInDescriptor'
    <3>1. ASSUME NEW g \in Gens, NEW r \in obj'[g].services
          PROVE  r \in obj[g].services \/ r = <<name, k>>
      BY <1>1, <1>3, <3>1, RegisterEffect
    <3>2. {name, k} \subseteq Keys \ UnaryKeys
      BY <1>1, <1>3
    <3> QED BY <1>3, <3>1, <3>2
            DEF ConcurrentInvariant, NamePart, MixUpsStayInDescriptor
  <2>2. \A d \in Callers : InHand(d)' =>
          InHand(d) /\ call'[d].key = call[d].key
    BY <1>5 DEF InHand
  <2> QED BY <1>1, <2>1, <2>2 DEF ConcurrentInvariant, NamePart
<1>7. \A g \in Gens : g = call[c].gen => call'[c].visited \subseteq Covered(g)'
  <2>1. call[c].visited \subseteq Covered(call[c].gen) \cup {k}
    BY <1>1 DEF ConcurrentInvariant, RangePart, InHand
  <2> QED BY <1>1, <1>3, <1>5, <2>1, RegisterEffect
<1>8. \A g \in Gens :
        /\ g # call[c].gen => obj'[g] = obj[g]
        /\ obj'[g].server = obj[g].server
        /\ obj'[g].asked = obj[g].asked
        /\ obj'[g].conn = obj[g].conn
        /\ obj'[g].listener = obj[g].listener
        /\ obj'[g].serve = obj[g].serve
        /\ Covered(g) \subseteq Covered(g)'
  BY <1>1, <1>3, RegisterEffect
<1> QED BY <1>1, <1>5, <1>6, <1>7, <1>8, RangeConcurrent

LEMMA EndRangeConcurrent ==
  ASSUME TypeOK, ConcurrentInvariant, NEW c \in Callers, EndRange(c)
  PROVE  ConcurrentInvariant'
<1>1. call[c] \in CallRecords /\ call[c].pc = "range"
  BY DEF TypeOK, EndRange, At
<1>2. /\ \A d \in Callers \ {c} : call'[d] = call[d]
      /\ call'[c].pc \in {"spawn", "stopOld"} /\ call'[c].gen = call[c].gen
  BY <1>1 DEF EndRange, TypeOK, CallRecords
<1>3. UNCHANGED <<gens, lst, grpcServer, serviceName, obj>>
  BY DEF EndRange, refs, names
<1>4. GenerationPart'
  BY <1>1, <1>2, <1>3 DEF ConcurrentInvariant, GenerationPart, Active
<1>5. NamePart'
  BY <1>2, <1>3 DEF ConcurrentInvariant, NamePart, MixUpsStayInDescriptor, InHand
<1>6. RangePart'
  <2>2. obj[call[c].gen].asked \subseteq Covered(call[c].gen)
    BY <1>1 DEF EndRange, ConcurrentInvariant, RangePart, At
  <2>3. Covered(call[c].gen)' = Covered(call[c].gen)
    BY <1>2, <1>3 DEF Covered, Exposed
  <2>4. ASSUME NEW d \in Callers, d # c
        PROVE  Covered(call[d].gen)' = Covered(call[d].gen)
    BY <1>2, <1>3, <2>4 DEF Covered, Exposed
  <2>5. \A d \in Callers : At(d, "range")' \/ InHand(d)' => d # c
    BY <1>2 DEF At, InHand
  <2> QED BY <1>2, <1>3, <2>2, <2>3, <2>4, <2>5
          DEF ConcurrentInvariant, RangePart, LossesStayInDescriptor, At, InHand
<1>7. ServePart'
  BY <1>1, <1>2, <1>3 DEF ConcurrentInvariant, ServePart, Active
<1> QED BY <1>4, <1>5, <1>6, <1>7 DEF ConcurrentInvariant

(* One more step of a call changes nothing of it but its pc. *)
LEMMA MoveEffect ==
  ASSUME TypeOK, NEW c \in Callers, NEW from, NEW to, Moves(c, from, to)
  PROVE  /\ UNCHANGED <<gens, serviceName, reflected>>
         /\ \A d \in Callers : /\ call'[d].gen = call[d].gen
                               /\ call'[d].key = call[d].key
                               /\ call'[d].visited = call[d].visited
                               /\ call'[d].op = call[d].op
                               /\ d # c => call'[d].pc = call[d].pc
         /\ call[c].pc = from /\ call'[c].pc = to
<1>1. call[c] \in CallRecords
  BY DEF TypeOK
<1> QED BY <1>1 DEF Moves, At, TypeOK, CallRecords, names

LEMMA StepEffect ==
  ASSUME TypeOK, NEW c \in Callers, NEW from, NEW to, Step(c, from, to)
  PROVE  /\ UNCHANGED <<gens, serviceName, reflected, rpcServiceMap, stopped,
                        refused, crashed>>
         /\ \A d \in Callers : /\ call'[d].gen = call[d].gen
                               /\ call'[d].key = call[d].key
                               /\ call'[d].visited = call[d].visited
                               /\ call'[d].op = call[d].op
                               /\ d # c => call'[d].pc = call[d].pc
         /\ call[c].pc = from /\ call'[c].pc = to
<1>1. Moves(c, from, to) /\ UNCHANGED <<rpcServiceMap, stopped, refused, crashed>>
  BY DEF Step, world
<1> QED BY <1>1, MoveEffect

(* The check for a duplicate changes nothing but the pc. *)
LEMMA CheckConcurrent ==
  ASSUME TypeOK, ConcurrentInvariant, NEW c \in Callers,
         Step(c, "register", "insert"), UNCHANGED <<refs, obj>>
  PROVE  ConcurrentInvariant'
<1>1. Ordinary
  BY StepEffect DEF Ordinary, refs, ConcurrentInvariant, GenerationPart
<1>2. \A d \in Callers :
        Active(d)' /\ call'[d].pc \notin {"setLst", "setServer"} =>
          /\ Active(d) /\ call[d].pc \notin {"setLst", "setServer"}
          /\ call'[d].gen = call[d].gen
  BY StepEffect DEF Active
<1>3. ServePart'
  BY <1>2 DEF ConcurrentInvariant, ServePart
<1> QED BY <1>1, <1>3, OrdinaryStep

(* What can be done to the object of a generation that exists. *)
LEMMA ServingOrdinary ==
  ASSUME TypeOK, ConcurrentInvariant, NEW g \in Gens, g <= gens,
         UNCHANGED <<gens, serviceName, lst, grpcServer, call>>,
         \A h \in Gens : h # g => obj'[h] = obj[h],
         obj'[g].services = obj[g].services,
         obj'[g].asked \subseteq obj[g].asked
  PROVE  Ordinary
<1>1. lst <= gens /\ grpcServer <= gens
  BY DEF ConcurrentInvariant, GenerationPart
<1>2. \A h \in Gens : h > gens => obj'[h] = obj[h]
  BY DEF TypeOK, Gens
<1> QED BY <1>1, <1>2 DEF Ordinary

LEMMA ReplaceConcurrent ==
  ASSUME TypeOK, ConcurrentInvariant, NEW c \in Callers,
         \/ (grpcServer # nil /\ StopOld(c)) \/ (lst # nil /\ CloseOld(c))
         \/ ListenAgain(c) \/ SpawnServe(c) \/ SetLst(c) \/ SetServer(c)
  PROVE  ConcurrentInvariant'
<1> DEFINE own == call[c].gen
<1>0. lst <= gens /\ grpcServer <= gens /\ gens \in 0..MaxGen
  BY DEF ConcurrentInvariant, GenerationPart, TypeOK
<1>1. Active(c)
  BY DEF Active, At, StopOld, CloseOld, ListenAgain, SpawnServe, SetLst,
         SetServer, Step, Moves
<1>2. own \in Gens /\ own <= gens /\ obj[own] \in Objects
  BY <1>1, OwnObject
<1>3. ASSUME NEW from \in Steps \ {"idle", "range", "register", "insert"},
             NEW to \in Steps \ {"range", "register", "insert"},
             Moves(c, from, to),
             lst' <= gens, grpcServer' <= gens, NEW g \in Gens, g <= gens,
             \A h \in Gens : h # g => obj'[h] = obj[h],
             obj'[g].services = obj[g].services, obj'[g].asked = obj[g].asked
      PROVE  Ordinary
  <2>1. \A h \in Gens : h > gens => obj'[h] = obj[h]
    BY <1>0, <1>3 DEF Gens
  <2> QED BY <1>3, <2>1, MoveEffect DEF Ordinary
<1>4. CASE grpcServer # nil /\ StopOld(c)
  <2>1. /\ Step(c, "stopOld", "closeOld") /\ UNCHANGED refs
        /\ obj' = [obj EXCEPT ![grpcServer] = AfterStop(obj[grpcServer])]
        /\ grpcServer \in Gens /\ obj[grpcServer] \in Objects
    BY <1>4 DEF StopOld, TypeOK
  <2>2. \A h \in Gens : /\ h # grpcServer => obj'[h] = obj[h]
                        /\ h = grpcServer => obj'[h] = AfterStop(obj[h])
    BY <2>1 DEF TypeOK
  <2>3. /\ AfterStop(obj[grpcServer]).services = obj[grpcServer].services
        /\ AfterStop(obj[grpcServer]).asked = obj[grpcServer].asked
        /\ AfterStop(obj[grpcServer]).serve = obj[grpcServer].serve
        /\ AfterStop(obj[grpcServer]).conn = FALSE
        /\ AfterStop(obj[grpcServer]).serve = "accepting" =>
             AfterStop(obj[grpcServer]).listener = "closed"
    BY <2>1 DEF AfterStop, Objects
  <2>4. Ordinary
    BY <1>0, <1>3, <2>1, <2>2, <2>3 DEF Steps, Step, refs
  <2>5. ServePart'
    <3>1. \A h \in Gens : obj'[h].serve = obj[h].serve
      BY <2>2, <2>3
    <3>2. \A d \in Callers :
            Active(d)' /\ call'[d].pc \notin {"setLst", "setServer"} =>
              /\ Active(d) /\ call[d].pc \notin {"setLst", "setServer"}
              /\ call'[d].gen = call[d].gen
      BY <2>1, StepEffect DEF Active
    <3>3. \A h \in Gens : obj'[h].server = "stopped" =>
            /\ ~obj'[h].conn
            /\ obj'[h].serve = "accepting" => obj'[h].listener # "open"
      BY <2>2, <2>3 DEF ConcurrentInvariant, ServePart
    <3> QED BY <3>1, <3>2, <3>3, OwnObject DEF ConcurrentInvariant, ServePart
  <2> QED BY <2>4, <2>5, OrdinaryStep
<1>5. CASE lst # nil /\ CloseOld(c)
  <2>1. /\ Step(c, "closeOld", "listen") /\ UNCHANGED refs
        /\ obj' = [obj EXCEPT ![lst].listener = "closed"]
        /\ lst \in Gens /\ obj[lst] \in Objects
    BY <1>5 DEF CloseOld, TypeOK
  <2>2. /\ \A h \in Gens : /\ h # lst => obj'[h] = obj[h]
                           /\ obj'[h].serve = obj[h].serve
                           /\ obj'[h].server = obj[h].server
                           /\ obj'[h].conn = obj[h].conn
        /\ obj'[lst].services = obj[lst].services
        /\ obj'[lst].asked = obj[lst].asked
        /\ obj'[lst].listener = "closed"
    BY <2>1 DEF TypeOK, Objects
  <2>4. Ordinary
    BY <1>0, <1>3, <2>1, <2>2 DEF Steps, Step, refs
  <2>5. ServePart'
    <3>2. \A d \in Callers :
            Active(d)' /\ call'[d].pc \notin {"setLst", "setServer"} =>
              /\ Active(d) /\ call[d].pc \notin {"setLst", "setServer"}
              /\ call'[d].gen = call[d].gen
      BY <2>1, StepEffect DEF Active
    <3>3. \A h \in Gens : obj'[h].server = "stopped" =>
            /\ ~obj'[h].conn
            /\ obj'[h].serve = "accepting" => obj'[h].listener # "open"
      BY <2>1, <2>2 DEF ConcurrentInvariant, ServePart
    <3> QED BY <2>2, <3>2, <3>3, OwnObject DEF ConcurrentInvariant, ServePart
  <2> QED BY <2>4, <2>5, OrdinaryStep
<1>6. CASE ListenAgain(c)
  <2>1. Moves(c, "listen", "spawn") /\ UNCHANGED refs
    BY <1>6 DEF ListenAgain
  <2>2. \A h \in Gens : /\ h # own => obj'[h] = obj[h]
                        /\ obj'[h].serve = obj[h].serve
                        /\ obj'[h].server = obj[h].server
                        /\ obj'[h].conn = obj[h].conn
                        /\ obj'[h].services = obj[h].services
                        /\ obj'[h].asked = obj[h].asked
    BY <1>2, <1>6 DEF ListenAgain, TypeOK, Objects
  <2>3. call[c].pc = "listen"
    BY <2>1, MoveEffect
  <2>4. Ordinary
    BY <1>0, <1>2, <1>3, <2>1, <2>2 DEF Steps, Step, refs
  <2>5. ServePart'
    <3>1. obj[own].serve = "none"
      BY <1>1, <2>3 DEF ConcurrentInvariant, ServePart
    <3>2. \A d \in Callers :
            Active(d)' /\ call'[d].pc \notin {"setLst", "setServer"} =>
              /\ Active(d) /\ call[d].pc \notin {"setLst", "setServer"}
              /\ call'[d].gen = call[d].gen
      BY <2>1, MoveEffect DEF Active
    <3>3. \A h \in Gens : obj'[h].server = "stopped" =>
            /\ ~obj'[h].conn
            /\ obj'[h].serve = "accepting" => obj'[h].listener # "open"
      BY <2>2, <3>1 DEF ConcurrentInvariant, ServePart
    <3> QED BY <2>2, <3>2, <3>3, OwnObject DEF ConcurrentInvariant, ServePart
  <2> QED BY <2>4, <2>5, OrdinaryStep
<1>7. CASE SpawnServe(c)
  <2>1. Step(c, "spawn", AfterSpawn(c)) /\ UNCHANGED refs
        /\ AfterSpawn(c) \in {"setLst", "setServer"}
    BY <1>7 DEF SpawnServe, AfterSpawn
  <2>2. \A h \in Gens : /\ h # own => obj'[h] = obj[h]
                        /\ obj'[h].server = obj[h].server
                        /\ obj'[h].conn = obj[h].conn
                        /\ obj'[h].services = obj[h].services
                        /\ obj'[h].asked = obj[h].asked
                        /\ obj'[h].listener = obj[h].listener
    BY <1>2, <1>7 DEF SpawnServe, TypeOK, Objects
  <2>3. obj'[own].serve = "spawned"
    BY <1>2, <1>7 DEF SpawnServe, TypeOK, Objects
  <2>4. Ordinary
    BY <1>0, <1>2, <1>3, <2>1, <2>2 DEF Steps, Step, refs
  <2>5. ServePart'
    <3>2. \A d \in Callers :
            Active(d)' /\ call'[d].pc \notin {"setLst", "setServer"} =>
              /\ Active(d) /\ call[d].pc \notin {"setLst", "setServer"}
              /\ call'[d].gen = call[d].gen /\ call[d].gen # own
      BY <1>1, <2>1, StepEffect
         DEF Active, ConcurrentInvariant, GenerationPart
    <3>3. \A h \in Gens : obj'[h].server = "stopped" =>
            /\ ~obj'[h].conn
            /\ obj'[h].serve = "accepting" => obj'[h].listener # "open"
      BY <2>2, <2>3 DEF ConcurrentInvariant, ServePart
    <3> QED BY <2>2, <3>2, <3>3, OwnObject DEF ConcurrentInvariant, ServePart
  <2> QED BY <2>4, <2>5, OrdinaryStep
<1>8. CASE SetLst(c) \/ SetServer(c)
  <2>1. /\ \/ Step(c, "setLst", AfterLst(c))
           \/ Step(c, "setServer", IF call[c].op = "Start" THEN "idle" ELSE "setLst")
        /\ UNCHANGED obj /\ lst' \in {nil, own, lst}
        /\ grpcServer' \in {own, grpcServer}
        /\ AfterLst(c) \in {"setServer", "idle"}
    BY <1>8 DEF SetLst, SetServer, AfterLst
  <2>2. lst' <= gens /\ grpcServer' <= gens
    BY <1>0, <1>2, <2>1 DEF nil
  <2>4. Ordinary
    BY <1>2, <1>3, <2>1, <2>2 DEF Steps, Step
  <2>5. ServePart'
    <3>1. \A d \in Callers :
            Active(d)' /\ call'[d].pc \notin {"setLst", "setServer"} =>
              /\ Active(d) /\ call[d].pc \notin {"setLst", "setServer"}
              /\ call'[d].gen = call[d].gen
      BY <2>1, StepEffect DEF Active
    <3> QED BY <2>1, <3>1 DEF ConcurrentInvariant, ServePart
  <2> QED BY <2>4, <2>5, OrdinaryStep
<1> QED BY <1>4, <1>5, <1>6, <1>7, <1>8

(* A crash leaves everything as it was. *)
LEMMA CrashConcurrent ==
  ASSUME TypeOK, ConcurrentInvariant,
         UNCHANGED <<lst, grpcServer, obj, serviceName, gens, call>>
  PROVE  ConcurrentInvariant'
<1>1. Ordinary
  BY DEF Ordinary, ConcurrentInvariant, GenerationPart
<1>2. ServePart'
  BY DEF ConcurrentInvariant, ServePart, Active
<1> QED BY <1>1, <1>2, OrdinaryStep

LEMMA StopConcurrent ==
  ASSUME TypeOK, ConcurrentInvariant, lst # nil,
         obj' = [obj EXCEPT ![lst].listener = "closed"],
         UNCHANGED <<lst, grpcServer, serviceName, gens, call>>
  PROVE  ConcurrentInvariant'
<1>1. lst \in Gens /\ lst <= gens /\ obj[lst] \in Objects
  BY DEF TypeOK, ConcurrentInvariant, GenerationPart
<1>2. /\ \A h \in Gens : /\ h # lst => obj'[h] = obj[h]
                         /\ obj'[h].serve = obj[h].serve
                         /\ obj'[h].server = obj[h].server
                         /\ obj'[h].conn = obj[h].conn
      /\ obj'[lst].services = obj[lst].services
      /\ obj'[lst].asked = obj[lst].asked
      /\ obj'[lst].listener = "closed"
  BY <1>1 DEF TypeOK, Objects
<1>3. Ordinary
  BY <1>1, <1>2, ServingOrdinary
<1>4. ServePart'
  <2>1. \A h \in Gens : obj'[h].server = "stopped" =>
          /\ ~obj'[h].conn
          /\ obj'[h].serve = "accepting" => obj'[h].listener # "open"
    BY <1>2 DEF ConcurrentInvariant, ServePart
  <2> QED BY <1>2, <2>1, OwnObject DEF ConcurrentInvariant, ServePart, Active
<1> QED BY <1>3, <1>4, OrdinaryStep

(* The Serve goroutine of g, or a client of it, takes a step. *)
LEMMA ServingConcurrent ==
  ASSUME TypeOK, ConcurrentInvariant, NEW g \in Gens, NEW object,
         Serving(g, object), obj[g] # Fresh,
         object.services = obj[g].services,
         object.asked \subseteq obj[g].asked,
         object.serve = obj[g].serve \/ obj[g].serve # "none",
         object.server = "stopped" =>
           /\ ~object.conn
           /\ object.serve = "accepting" => object.listener # "open"
  PROVE  ConcurrentInvariant'
<1>1. g <= gens
  BY DEF ConcurrentInvariant, GenerationPart, TypeOK, Gens
<1>2. /\ obj'[g] = object /\ \A h \in Gens : h # g => obj'[h] = obj[h]
      /\ UNCHANGED <<lst, grpcServer, serviceName, gens, call>>
  BY DEF Serving, refs, names, TypeOK
<1>3. Ordinary
  BY <1>1, <1>2, ServingOrdinary
<1>4. ServePart'
  <2>1. \A h \in Gens : obj'[h].server = "stopped" =>
          /\ ~obj'[h].conn
          /\ obj'[h].serve = "accepting" => obj'[h].listener # "open"
    BY <1>2 DEF ConcurrentInvariant, ServePart
  <2>2. \A d \in Callers :
          Active(d) /\ call[d].pc \notin {"setLst", "setServer"} =>
            obj'[call[d].gen].serve = "none"
    BY <1>2, OwnObject DEF ConcurrentInvariant, ServePart
  <2> QED BY <1>2, <2>1, <2>2 DEF ServePart, Active
<1> QED BY <1>3, <1>4, OrdinaryStep

LEMMA ServeConcurrent ==
  ASSUME TypeOK, ConcurrentInvariant, NEW g \in Gens,
         \/ obj[g].listener # "none" /\ ServeBegins(g)
         \/ ServeReturns(g) \/ Accepts(g) \/ PeerDisconnects(g)
  PROVE  ConcurrentInvariant'
<1>0. obj[g] \in Objects
  BY DEF TypeOK
<1>1. obj[g].server = "stopped" =>
        /\ ~obj[g].conn
        /\ obj[g].serve = "accepting" => obj[g].listener # "open"
  BY DEF ConcurrentInvariant, ServePart
<1>2. Fresh.serve = "none" /\ ~Fresh.conn
  BY DEF Fresh
<1>3. CASE obj[g].listener # "none" /\ ServeBegins(g)
  <2> DEFINE o == [obj[g] EXCEPT
                     !.asked = {},
                     !.serve = IF obj[g].server = "built" THEN "accepting"
                               ELSE "returned",
                     !.listener = IF obj[g].server = "built" THEN @
                                  ELSE "closed"]
  <2>1. Serving(g, o) /\ obj[g].serve = "spawned"
    BY <1>3 DEF ServeBegins
  <2>2. /\ o.services = obj[g].services /\ o.asked = {}
        /\ o.server = obj[g].server /\ o.conn = obj[g].conn
        /\ o.server = "stopped" => o.serve = "returned"
    BY <1>0 DEF Objects
  <2> HIDE DEF o
  <2> QED BY <1>1, <1>2, <2>1, <2>2, ServingConcurrent
<1>4. CASE ServeReturns(g)
  <2> DEFINE o == [obj[g] EXCEPT !.serve = "returned"]
  <2>1. Serving(g, o) /\ obj[g].serve = "accepting"
    BY <1>4 DEF ServeReturns
  <2>2. /\ o.services = obj[g].services /\ o.asked = obj[g].asked
        /\ o.server = obj[g].server /\ o.conn = obj[g].conn
        /\ o.serve = "returned"
    BY <1>0 DEF Objects
  <2> HIDE DEF o
  <2> QED BY <1>1, <1>2, <2>1, <2>2, ServingConcurrent
<1>5. CASE Accepts(g)
  <2> DEFINE o == [obj[g] EXCEPT !.conn = TRUE]
  <2>1. /\ Serving(g, o) /\ obj[g].serve = "accepting"
        /\ obj[g].server # "stopped"
    BY <1>1, <1>5 DEF Accepts
  <2>2. /\ o.services = obj[g].services /\ o.asked = obj[g].asked
        /\ o.server = obj[g].server /\ o.serve = obj[g].serve
    BY <1>0 DEF Objects
  <2> HIDE DEF o
  <2> QED BY <1>2, <2>1, <2>2, ServingConcurrent
<1>6. CASE PeerDisconnects(g)
  <2> DEFINE o == [obj[g] EXCEPT !.conn = FALSE]
  <2>1. Serving(g, o) /\ obj[g].conn
    BY <1>6 DEF PeerDisconnects
  <2>2. /\ o.services = obj[g].services /\ o.asked = obj[g].asked
        /\ o.server = obj[g].server /\ o.serve = obj[g].serve
        /\ o.listener = obj[g].listener /\ ~o.conn
    BY <1>0 DEF Objects
  <2> HIDE DEF o
  <2> QED BY <1>1, <1>2, <2>1, <2>2, ServingConcurrent
<1> QED BY <1>3, <1>4, <1>5, <1>6

LEMMA NextConcurrent ==
  TypeOK /\ ConcurrentInvariant /\ [Next]_vars => ConcurrentInvariant'
<1> SUFFICES ASSUME TypeOK, ConcurrentInvariant, [Next]_vars
             PROVE  ConcurrentInvariant'
  OBVIOUS
<1>0. ASSUME NEW why, Crash(why)
      PROVE  ConcurrentInvariant'
  BY <1>0, CrashConcurrent DEF Crash, refs, names
<1>1. ASSUME NEW c \in Callers, Start(c) \/ RefreshService(c)
      PROVE  ConcurrentInvariant'
  BY <1>0, <1>1, BuildConcurrent DEF Start, RefreshService
<1>2. ASSUME NEW c \in Callers, Stop(c)
      PROVE  ConcurrentInvariant'
  BY <1>0, <1>2, StopConcurrent DEF Stop, refs, names
<1>3. ASSUME NEW c \in Callers, CallStep(c)
      PROVE  ConcurrentInvariant'
  <2>1. ASSUME NEW k \in Keys, VisitUnary(c, k) \/ VisitGrpc(c, k)
        PROVE  ConcurrentInvariant'
    BY <1>0, <2>1, VisitConcurrent DEF VisitUnary
  <2>2. CASE RegisterService(c)
    BY <1>0, <2>2, CheckConcurrent DEF RegisterService
  <2>7. CASE InsertService(c)
    BY <1>0, <2>7, RegisterConcurrent DEF InsertService
  <2>3. CASE EndRange(c)
    BY <2>3, EndRangeConcurrent
  <2>4. CASE StopOld(c)
    BY <1>0, <2>4, ReplaceConcurrent DEF StopOld
  <2>5. CASE CloseOld(c)
    BY <1>0, <2>5, ReplaceConcurrent DEF CloseOld
  <2>6. CASE ListenAgain(c) \/ SpawnServe(c) \/ SetLst(c) \/ SetServer(c)
    BY <2>6, ReplaceConcurrent
  <2> QED BY <1>3, <2>1, <2>2, <2>3, <2>4, <2>5, <2>6, <2>7 DEF CallStep
<1>4. ASSUME NEW g \in Gens, ServeStep(g) \/ Accepts(g) \/ PeerDisconnects(g)
      PROVE  ConcurrentInvariant'
  BY <1>0, <1>4, ServeConcurrent DEF ServeStep, ServeBegins
<1>5. CASE \/ \E k \in Keys : Store(k)
           \/ UNCHANGED vars
  BY <1>5, CrashConcurrent DEF Store, vars, refs, names
<1> QED BY <1>1, <1>2, <1>3, <1>4, <1>5 DEF Next

(* Calls that run concurrently keep to their own generations, and the      *)
(* server's state is well formed (dubbo3_server.go:254-306).               *)
THEOREM ConcurrentCorrect == Spec => [](TypeOK /\ ConcurrentInvariant)
<1>1. Init => TypeOK /\ ConcurrentInvariant
  BY InitTyped, InitConcurrent
<1>2. TypeOK /\ ConcurrentInvariant /\ [Next]_vars
        => (TypeOK /\ ConcurrentInvariant)'
  BY NextTyped, NextConcurrent
<1> QED BY <1>1, <1>2, PTL DEF Spec

(* The state of the server and of its calls is well formed at all times.   *)
THEOREM TypeCorrect == Spec => []TypeOK
BY ConcurrentCorrect, PTL

(* However calls are interleaved, a service is registered under another    *)
(* one's key only if they share a generated descriptor                     *)
(* (dubbo3_server.go:264-266, 288-290).                                    *)
THEOREM MixUpsContained == Spec => []MixUpsStayInDescriptor
<1>1. ConcurrentInvariant => MixUpsStayInDescriptor
  BY DEF ConcurrentInvariant, NamePart
<1> QED BY <1>1, ConcurrentCorrect, PTL

(* However calls are interleaved, a server that is done registering        *)
(* exposes every service that was stored when its call began, or a service *)
(* of the same shared descriptor that took its entry                       *)
(* (dubbo3_server.go:260-274, 285-299).                                    *)
THEOREM LossesContained == Spec => []LossesStayInDescriptor
<1>1. ConcurrentInvariant => LossesStayInDescriptor
  BY DEF ConcurrentInvariant, RangePart
<1> QED BY <1>1, ConcurrentCorrect, PTL

(* However calls are interleaved, a gRPC server that was stopped takes no  *)
(* client (dubbo3_server.go:276, 300).                                     *)
THEOREM StoppedStaysEmpty == Spec => []StoppedServerIsEmpty
<1>1. ConcurrentInvariant => StoppedServerIsEmpty
  BY DEF ConcurrentInvariant, ServePart, StoppedServerIsEmpty, Reachable
<1> QED BY <1>1, ConcurrentCorrect, PTL

===============================================================================
