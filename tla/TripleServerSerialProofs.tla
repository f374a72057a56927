----------------------- MODULE TripleServerSerialProofs -----------------------
(***************************************************************************)
(* Proofs about a TripleServer whose calls the application serializes: no  *)
(* listener leaks, the reflection service follows the server in use, and   *)
(* the process dies for the reasons that CrashesExplained names only.      *)
(***************************************************************************)
EXTENDS TripleServerProofs

LEMMA InitSerial == Init => SerializedInvariant
<1> SUFFICES ASSUME Init PROVE SerializedInvariant
  OBVIOUS
<1>1. /\ \A c \in Callers : call[c].pc = "idle"
      /\ \A g \in Gens : /\ obj[g].services = {} /\ obj[g].serve = "none"
                         /\ obj[g].listener = "none"
      /\ lst = nil /\ grpcServer = nil
  BY DEF Init, Fresh
<1>2. SerialPart /\ FieldsPart
  BY <1>1 DEF SerialPart, FieldsPart, Active, Assigning, At
<1>3. ListenerPart /\ OwnKeyPart /\ ExposedPart
  BY <1>1 DEF ListenerPart, OwnKeyPart, ExposedPart, Active, InHand, At
<1>4. ReflectPart
  BY <1>1 DEF ReflectPart, Active
<1> QED BY <1>2, <1>3, <1>4 DEF SerializedInvariant

(* Steps of Serve goroutines and clients, and Stop: they close listeners   *)
(* at most, and leave the call in progress alone.                          *)
LEMMA BystanderSerial ==
  ASSUME TypeOK, ConcurrentInvariant, SerializedInvariant,
         UNCHANGED <<gens, lst, grpcServer, serviceName, reflected, call>>,
         refused => refused', rpcServiceMap \subseteq rpcServiceMap',
         \A g \in Gens :
           /\ obj'[g].services = obj[g].services
           /\ obj'[g].asked \subseteq obj[g].asked
           /\ obj'[g].listener = "open" => obj[g].listener = "open"
           /\ obj'[g].listener = "none" => obj[g].listener = "none"
           /\ (\E c \in Callers : Active(c)) /\ obj[g].listener = "none" =>
                obj'[g].listener = "none"
           /\ obj'[g].serve = "none" <=> obj[g].serve = "none"
  PROVE  SerializedInvariant'
<1> SUFFICES ASSUME Serialized
             PROVE  (SerialPart /\ ListenerPart /\ FieldsPart /\ OwnKeyPart
                     /\ ExposedPart /\ ReflectPart)'
  BY DEF SerializedInvariant
<1>0. /\ SerialPart /\ ListenerPart /\ FieldsPart
      /\ OwnKeyPart /\ ExposedPart /\ ReflectPart
  BY DEF SerializedInvariant
<1>1. \A c \in Callers : /\ Active(c)' <=> Active(c)
                         /\ Replaced(c)' <=> Replaced(c)
                         /\ Assigning(c)' <=> Assigning(c)
                         /\ Active(c) => gens \in Gens
  BY <1>0, OwnObject DEF Active, Replaced, Assigning, At, SerialPart
<1>2. SerialPart'
  BY <1>0, <1>1 DEF SerialPart
<1>3. ListenerPart'
  BY <1>0, <1>1 DEF ListenerPart
<1>4. FieldsPart'
  BY <1>0, <1>1 DEF FieldsPart, At
<1>5. OwnKeyPart'
  <2>1. \A c \in Callers : At(c, "range") \/ InHand(c) => gens \in Gens
    BY <1>1 DEF Active, InHand, At
  <2> QED BY <1>0, <2>1 DEF OwnKeyPart, InHand, At
<1>7. ExposedPart'
  <2>1. ASSUME NEW c \in Callers, Active(c)
        PROVE  /\ Exposed(gens)' = Exposed(gens)
               /\ obj'[gens].asked \subseteq obj[gens].asked
    BY <1>1, <2>1 DEF Exposed
  <2> QED BY <1>0, <1>1, <2>1 DEF ExposedPart, Active, InHand, At
<1>6. ReflectPart'
  <2>1. ASSUME NEW g \in Gens
        PROVE  Exposed(g)' = Exposed(g)
    BY DEF Exposed
  <2>2. grpcServer # nil => grpcServer \in Gens
    BY DEF TypeOK
  <2>3. /\ (\E c \in Callers : Active(c)) => Exposed(gens)' = Exposed(gens)
        /\ grpcServer # nil => Exposed(grpcServer)' = Exposed(grpcServer)
    BY <1>1, <2>1, <2>2
  <2> QED BY <1>0, <1>1, <2>3 DEF ReflectPart
<1> QED BY <1>2, <1>3, <1>4, <1>5, <1>6, <1>7

(* A call begins while no other is under way; Start has found the port     *)
(* free.                                                                   *)
LEMMA BuildSerial ==
  ASSUME TypeOK, ConcurrentInvariant, SerializedInvariant, NEW c \in Callers,
         MayCall(c), NEW method \in {"Start", "RefreshService"},
         NEW listener \in {"none", "open"}, BuildServer(c, method, listener),
         IF method = "Start" THEN PortFree /\ listener = "open"
         ELSE listener = "none"
  PROVE  SerializedInvariant'
<1> SUFFICES ASSUME Serialized
             PROVE  (SerialPart /\ ListenerPart /\ FieldsPart /\ OwnKeyPart
                     /\ ExposedPart /\ ReflectPart)'
  BY DEF SerializedInvariant
<1>0. /\ SerialPart /\ ListenerPart /\ FieldsPart
      /\ OwnKeyPart /\ ExposedPart /\ ReflectPart
  BY DEF SerializedInvariant
<1> DEFINE new == [server |-> "built", services |-> {}, asked |-> rpcServiceMap,
                   conn |-> FALSE, listener |-> listener, serve |-> "none"]
<1>1. /\ gens + 1 \in Gens /\ gens' = gens + 1 /\ gens \in Nat
      /\ lst <= gens /\ lst' # gens'
      /\ UNCHANGED <<lst, grpcServer, serviceName, reflected, refused>>
  <2>1. gens + 1 \in Gens /\ gens' = gens + 1
    BY BuildEffect
  <2>2. UNCHANGED <<lst, grpcServer, serviceName, reflected, refused>>
    BY DEF BuildServer, refs, names, world
  <2>3. gens \in Nat /\ lst \in Nat /\ lst <= gens
    BY ServerAssumption DEF TypeOK, ConcurrentInvariant, GenerationPart, Gens, nil
  <2> QED BY <2>1, <2>2, <2>3
<1>2. /\ call'[c].pc = "range" /\ call'[c].gen = gens + 1
      /\ call'[c].op = method /\ call'[c].visited = {}
      /\ \A d \in Callers \ {c} : call'[d] = call[d]
  BY BuildEffect DEF TypeOK
<1>3. /\ obj'[gens + 1] = new
      /\ \A g \in Gens : g # gens + 1 => obj'[g] = obj[g]
  BY BuildEffect
<1>4. \A d \in Callers : call[d].pc = "idle"
  BY DEF MayCall, At
<1>5. \A d \in Callers : /\ Active(d)' <=> d = c
                         /\ Replaced(d)' <=> d = c /\ method = "Start"
                         /\ ~Assigning(d)' /\ ~Assigning(d)
                         /\ ~Active(d) /\ ~Replaced(d)
  BY <1>2, <1>4 DEF Active, Replaced, Assigning, At
<1>6. SerialPart'
  BY <1>1, <1>2, <1>5 DEF SerialPart
<1>7. ListenerPart'
  <2>1. \A g \in Gens : obj'[g].listener = "open" =>
          /\ \A d \in Callers : Replaced(d)' => g = gens'
          /\ (\A d \in Callers : ~Replaced(d)') => g = lst' /\ g = grpcServer'
    BY <1>0, <1>1, <1>3, <1>5 DEF ListenerPart, PortFree
  <2>2. \A d \in Callers : Active(d)' =>
          /\ call'[d].op = "Start" => obj'[gens'].listener # "none"
          /\ call'[d].op = "RefreshService" => obj'[gens'].listener = "none"
          /\ call'[d].pc = "range"
    BY <1>1, <1>2, <1>3, <1>5
  <2>3. \A g \in Gens : obj'[g].serve # "none" /\ obj'[g].listener = "none" => refused'
    BY <1>0, <1>1, <1>3 DEF ListenerPart
  <2> QED BY <2>1, <2>2, <2>3 DEF ListenerPart
<1>8. FieldsPart'
  <2>1. \A d \in Callers : ~At(d, "closeOld")'
    BY <1>2, <1>4 DEF At
  <2> QED BY <1>0, <1>1, <1>5, <2>1 DEF FieldsPart
<1>9. OwnKeyPart'
  <2>1. \A d \in Callers : d # c => call'[d].pc = "idle"
    BY <1>2, <1>4
  <2> QED BY <1>0, <1>1, <1>2, <1>3, <2>1 DEF OwnKeyPart, InHand, At
<1>11. ExposedPart'
  <2>1. \A d \in Callers : d # c => call'[d].pc = "idle"
    BY <1>2, <1>4
  <2> QED BY <1>2, <2>1 DEF ExposedPart, Active, InHand, At
<1>10. ReflectPart'
  <2>1. ~(ReflectKey \in Exposed(gens)')
    BY <1>1, <1>3 DEF Exposed
  <2> QED BY <1>5, <2>1 DEF ReflectPart
<1> QED BY <1>6, <1>7, <1>8, <1>9, <1>10, <1>11

(* Range visits and registers; c is the call in progress. *)
LEMMA RangeSerial ==
  ASSUME TypeOK, ConcurrentInvariant, SerialPart, ListenerPart, FieldsPart,
         NEW c \in Callers, call[c].pc \in {"range", "register", "insert"},
         UNCHANGED <<gens, lst, grpcServer, refused>>,
         \A d \in Callers \ {c} : call'[d] = call[d],
         call'[c].gen = call[c].gen, call'[c].op = call[c].op,
         call'[c].pc \in {"range", "register", "insert"},
         \A g \in Gens : /\ obj'[g].listener = obj[g].listener
                         /\ obj'[g].serve = obj[g].serve
  PROVE  SerialPart' /\ ListenerPart' /\ FieldsPart'
<1>1. \A d \in Callers : /\ Active(d)' <=> Active(d)
                         /\ Replaced(d)' <=> Replaced(d)
                         /\ Assigning(d)' <=> Assigning(d)
                         /\ Active(d) => gens \in Gens
                         /\ call'[d].op = call[d].op
                         /\ call'[d].gen = call[d].gen
                         /\ At(d, "closeOld")' <=> At(d, "closeOld")
  BY OwnObject DEF Active, Replaced, Assigning, At, SerialPart
<1>2. SerialPart'
  BY <1>1 DEF SerialPart
<1>3. ListenerPart'
  <2>1. \A g \in Gens : obj'[g].listener = "open" =>
          /\ \A d \in Callers : Replaced(d)' => g = gens'
          /\ (\A d \in Callers : ~Replaced(d)') => g = lst' /\ g = grpcServer'
    BY <1>1 DEF ListenerPart
  <2>2. \A d \in Callers : Active(d)' => d = c
    BY <1>1 DEF SerialPart, Active
  <2>3. Active(c)' => /\ call'[c].op = "Start" => obj'[gens'].listener # "none"
                      /\ call'[c].op = "RefreshService" =>
                           obj'[gens'].listener = "none"
    BY <1>1 DEF ListenerPart
  <2>4. \A g \in Gens : obj'[g].serve # "none" /\ obj'[g].listener = "none" => refused'
    BY DEF ListenerPart
  <2> QED BY <2>1, <2>2, <2>3, <2>4 DEF ListenerPart
<1>4. FieldsPart'
  BY <1>1 DEF FieldsPart
<1> QED BY <1>2, <1>3, <1>4

(* The one call in progress, and what it may have registered so far. *)
LEMMA InProgress ==
  ASSUME TypeOK, ConcurrentInvariant, SerialPart, NEW c \in Callers, Active(c)
  PROVE  /\ call[c].gen = gens /\ gens \in Gens /\ gens # nil
         /\ call[c].op \in {"Start", "RefreshService"}
         /\ \A d \in Callers : d # c => call[d].pc = "idle"
         /\ \A d \in Callers : Active(d) => d = c
<1>1. call[c] \in CallRecords /\ call[c].gen \in Gens
  BY OwnObject
<1> QED BY <1>1, ServerAssumption DEF SerialPart, Active, CallRecords, Gens, nil

LEMMA VisitSerial ==
  ASSUME TypeOK, ConcurrentInvariant, SerializedInvariant, NEW c \in Callers,
         NEW k \in Keys, (Fits(k) /\ VisitUnary(c, k)) \/ VisitGrpc(c, k)
  PROVE  SerializedInvariant'
<1> SUFFICES ASSUME Serialized
             PROVE  (SerialPart /\ ListenerPart /\ FieldsPart /\ OwnKeyPart
                     /\ ExposedPart /\ ReflectPart)'
  BY DEF SerializedInvariant
<1>0. /\ SerialPart /\ ListenerPart /\ FieldsPart
      /\ OwnKeyPart /\ ExposedPart /\ ReflectPart
  BY DEF SerializedInvariant
<1>1. Visit(c, k)
  BY DEF VisitUnary, VisitGrpc, NamesDesc
<1>2. /\ Active(c) /\ call[c].pc = "range" /\ k \in rpcServiceMap \ call[c].visited
      /\ UNCHANGED <<gens, lst, grpcServer, reflected, refused, rpcServiceMap>>
  BY <1>1 DEF Visit, Active, At, refs, world
<1>3. /\ call[c].gen = gens /\ gens \in Gens
      /\ \A d \in Callers : d # c => call[d].pc = "idle"
  BY <1>0, <1>2, InProgress
<1>4. call[c] \in CallRecords
  BY DEF TypeOK
<1>5. /\ \A d \in Callers \ {c} : call'[d] = call[d]
      /\ call'[c].gen = call[c].gen /\ call'[c].op = call[c].op
      /\ call'[c].visited = call[c].visited \cup {k}
      /\ call'[c].pc \in {"range", "register"}
  BY <1>2, <1>4 DEF VisitUnary, VisitGrpc, NamesDesc, TypeOK, CallRecords
<1>6. \A r \in obj[gens].services : r[1] \in call[c].visited /\ r[1] # k
  BY <1>0, <1>2 DEF OwnKeyPart, At
<1>9. call[c].visited \subseteq Exposed(gens)
  BY <1>0, <1>2 DEF ExposedPart, At
<1>10. \A d \in Callers : d # c => call'[d].pc = "idle"
  BY <1>3, <1>5
<1>7. CASE Fits(k) /\ VisitUnary(c, k)
  <2>1. Register(c, k, k) /\ k \in UnaryKeys /\ MayBear(k, k)
    BY <1>7 DEF VisitUnary, MayBear
  <2>2. /\ \A g \in Gens : /\ obj'[g].listener = obj[g].listener
                           /\ obj'[g].serve = obj[g].serve
                           /\ g # gens => obj'[g] = obj[g]
        /\ obj'[gens].services = obj[gens].services \cup {<<k, k>>}
    BY <1>2, <1>3, <1>6, <2>1, RegisterEffect
  <2>3. SerialPart' /\ ListenerPart' /\ FieldsPart'
    BY <1>0, <1>2, <1>5, <2>2, RangeSerial
  <2>4. call'[c].pc = "range"
    BY <1>2, <1>4, <1>7 DEF VisitUnary, TypeOK, CallRecords
  <2>5. OwnKeyPart'
    <3>1. \A g \in Gens : \A r \in obj'[g].services : r[1] = r[2]
      BY <1>0, <2>2 DEF OwnKeyPart
    <3>2. \A r \in obj'[gens].services : r[1] \in call'[c].visited
      BY <1>5, <1>6, <2>2
    <3> QED BY <1>2, <1>10, <2>4, <3>1, <3>2 DEF OwnKeyPart, InHand, At
  <2>7. ExposedPart'
    <3>1. Exposed(gens) \cup {k} \subseteq Exposed(gens)'
      BY <1>2, <1>3, <2>2 DEF Exposed
    <3> QED BY <1>2, <1>5, <1>9, <1>10, <2>4, <3>1
            DEF ExposedPart, Active, InHand, At
  <2>6. ReflectPart'
    <3>1. ReflectKey \in Exposed(gens)' => ReflectKey \in Exposed(gens)
      <4>1. k # ReflectKey
        BY <1>7, <2>1 DEF Fits
      <4> QED BY <1>2, <2>2, <4>1 DEF Exposed
    <3>2. Active(c)'
      BY <2>4 DEF Active
    <3> QED BY <1>0, <1>2, <3>1, <3>2 DEF ReflectPart
  <2> QED BY <2>3, <2>5, <2>6, <2>7
<1>8. CASE VisitGrpc(c, k)
  <2>1. NamesDesc(c, k, k)
    BY <1>8 DEF VisitGrpc
  <2>2. UNCHANGED obj
    BY <2>1 DEF NamesDesc
  <2>3. SerialPart' /\ ListenerPart' /\ FieldsPart'
    BY <1>0, <1>2, <1>5, <2>2, RangeSerial
  <2>4. call'[c].pc = "register" /\ call'[c].key = k
    BY <1>4, <2>1 DEF NamesDesc, TypeOK, CallRecords
  <2>5. serviceName'[DescOf[k]] = k
    BY <2>1, ServerAssumption DEF NamesDesc, TypeOK
  <2>6. OwnKeyPart'
    <3>1. \A g \in Gens : \A r \in obj'[g].services : r[1] = r[2]
      BY <1>0, <2>2 DEF OwnKeyPart
    <3>2. \A r \in obj'[gens].services : r[1] \in call'[c].visited /\ r[1] # k
      BY <1>5, <1>6, <2>2
    <3>3. k \in call'[c].visited \cap rpcServiceMap'
      BY <1>2, <1>5
    <3> QED BY <1>2, <1>10, <2>4, <2>5, <3>1, <3>2, <3>3
            DEF OwnKeyPart, InHand, At
  <2>8. Exposed(gens)' = Exposed(gens)
    BY <1>2, <2>2 DEF Exposed
  <2>9. ExposedPart'
    BY <1>2, <1>5, <1>9, <1>10, <2>4, <2>8 DEF ExposedPart, Active, InHand, At
  <2>7. ReflectPart'
    <3>2. Active(c)'
      BY <2>4 DEF Active
    <3> QED BY <1>0, <1>2, <2>8, <3>2 DEF ReflectPart
  <2> QED BY <2>3, <2>6, <2>7, <2>9
<1> QED BY <1>7, <1>8

(* The name a descriptor is registered with is the service's own. *)
LEMMA NoDuplicate ==
  ASSUME TypeOK, ConcurrentInvariant, SerializedInvariant, Serialized,
         NEW c \in Callers, InHand(c)
  PROVE  /\ serviceName[DescOf[call[c].key]] = call[c].key
         /\ \A r \in obj[call[c].gen].services : r[1] # call[c].key
         /\ call[c].key \in call[c].visited \cap rpcServiceMap
<1>1. SerialPart /\ OwnKeyPart
  BY DEF SerializedInvariant
<1>2. Active(c)
  BY DEF Active, InHand
<1>3. call[c].gen = gens
  BY <1>1, <1>2, InProgress
<1> QED BY <1>1, <1>3 DEF OwnKeyPart

LEMMA CheckSerial ==
  ASSUME TypeOK, ConcurrentInvariant, SerializedInvariant, NEW c \in Callers,
         Step(c, "register", "insert"), UNCHANGED <<refs, obj>>
  PROVE  SerializedInvariant'
<1> SUFFICES ASSUME Serialized
             PROVE  (SerialPart /\ ListenerPart /\ FieldsPart /\ OwnKeyPart
                     /\ ExposedPart /\ ReflectPart)'
  BY DEF SerializedInvariant
<1>0. /\ SerialPart /\ ListenerPart /\ FieldsPart
      /\ OwnKeyPart /\ ExposedPart /\ ReflectPart
  BY DEF SerializedInvariant
<1>1. /\ call[c].pc = "register" /\ call'[c].pc = "insert"
      /\ UNCHANGED <<gens, lst, grpcServer, serviceName, reflected, refused,
                    rpcServiceMap, obj>>
      /\ \A d \in Callers : /\ call'[d].gen = call[d].gen
                            /\ call'[d].key = call[d].key
                            /\ call'[d].visited = call[d].visited
                            /\ call'[d].op = call[d].op
                            /\ d # c => call'[d].pc = call[d].pc
  BY StepEffect DEF refs
<1>2. \A d \in Callers : /\ Active(d)' <=> Active(d)
                         /\ Replaced(d)' <=> Replaced(d)
                         /\ Assigning(d)' <=> Assigning(d)
                         /\ InHand(d)' <=> InHand(d)
                         /\ At(d, "range")' <=> At(d, "range")
                         /\ At(d, "closeOld")' <=> At(d, "closeOld")
                         /\ d # c => call'[d].pc = call[d].pc
  BY <1>1 DEF Active, Replaced, Assigning, InHand, At
<1>3. SerialPart'
  BY <1>0, <1>1, <1>2 DEF SerialPart
<1>4. ListenerPart'
  BY <1>0, <1>1, <1>2 DEF ListenerPart
<1>5. FieldsPart'
  BY <1>0, <1>1, <1>2 DEF FieldsPart
<1>6. OwnKeyPart'
  BY <1>0, <1>1, <1>2 DEF OwnKeyPart
<1>7. Exposed(gens)' = Exposed(gens)
  BY <1>1 DEF Exposed
<1>8. ExposedPart'
  BY <1>0, <1>1, <1>2, <1>7 DEF ExposedPart
<1>9. ReflectPart'
  <2>1. Active(c) /\ Active(c)'
    BY <1>1 DEF Active
  <2> QED BY <1>0, <1>1, <1>7, <2>1 DEF ReflectPart
<1> QED BY <1>3, <1>4, <1>5, <1>6, <1>8, <1>9

LEMMA RegisterSerial ==
  ASSUME TypeOK, ConcurrentInvariant, SerializedInvariant, NEW c \in Callers,
         At(c, "insert"),
         Registered(c, serviceName[DescOf[call[c].key]], call[c].key,
                    call[c].key = ReflectKey)
  PROVE  SerializedInvariant'
<1> SUFFICES ASSUME Serialized
             PROVE  (SerialPart /\ ListenerPart /\ FieldsPart /\ OwnKeyPart
                     /\ ExposedPart /\ ReflectPart)'
  BY DEF SerializedInvariant
<1>0. /\ SerialPart /\ ListenerPart /\ FieldsPart
      /\ OwnKeyPart /\ ExposedPart /\ ReflectPart
  BY DEF SerializedInvariant
<1> DEFINE k == call[c].key
<1>1. /\ Active(c) /\ call[c].pc = "insert" /\ InHand(c)
      /\ serviceName[DescOf[k]] = k
      /\ k \in call[c].visited
      /\ \A r \in obj[call[c].gen].services : r[1] # k
  <2>1. InHand(c)
    BY DEF InHand, At
  <2> QED BY <1>0, <2>1, NoDuplicate DEF Active, At
<1>2. /\ Register(c, k, k)
      /\ reflected' = IF k = ReflectKey THEN call[c].gen ELSE reflected
      /\ UNCHANGED <<gens, lst, grpcServer, refused, serviceName, rpcServiceMap>>
  BY <1>1 DEF Registered, refs, world
<1>3. /\ call[c].gen = gens /\ gens \in Gens /\ k \in Keys /\ MayBear(k, k)
      /\ \A d \in Callers : d # c => call[d].pc = "idle"
  BY <1>0, <1>1, InProgress, OwnObject DEF MayBear
<1>4. call[c] \in CallRecords
  BY DEF TypeOK
<1>5. /\ \A d \in Callers \ {c} : call'[d] = call[d]
      /\ call'[c].gen = call[c].gen /\ call'[c].op = call[c].op
      /\ call'[c].visited = call[c].visited
      /\ call'[c].pc = "range"
  BY <1>4 DEF Registered, TypeOK, CallRecords
<1>6. /\ \A g \in Gens : /\ obj'[g].listener = obj[g].listener
                         /\ obj'[g].serve = obj[g].serve
                         /\ g # gens => obj'[g] = obj[g]
      /\ obj'[gens].services = obj[gens].services \cup {<<k, k>>}
  BY <1>1, <1>2, <1>3, RegisterEffect
<1>7. SerialPart' /\ ListenerPart' /\ FieldsPart'
  BY <1>0, <1>1, <1>2, <1>5, <1>6, RangeSerial
<1>8. OwnKeyPart'
  <2>1. \A g \in Gens : \A r \in obj'[g].services : r[1] = r[2]
    BY <1>0, <1>6 DEF OwnKeyPart
  <2>2. \A r \in obj'[gens].services : r[1] \in call'[c].visited
    BY <1>0, <1>1, <1>5, <1>6 DEF OwnKeyPart, InHand, At
  <2>3. \A d \in Callers : d # c => call'[d].pc = "idle"
    BY <1>3, <1>5
  <2> QED BY <1>2, <1>5, <2>1, <2>2, <2>3 DEF OwnKeyPart, InHand, At
<1>10. ExposedPart'
  <2>1. \A d \in Callers : d # c => call'[d].pc = "idle"
    BY <1>3, <1>5
  <2>2. Exposed(gens) \cup {k} \subseteq Exposed(gens)'
    BY <1>2, <1>3, <1>6 DEF Exposed
  <2>3. call[c].visited \subseteq Exposed(gens) \cup {k}
    BY <1>0, <1>1 DEF ExposedPart
  <2> QED BY <1>2, <1>5, <2>1, <2>2, <2>3 DEF ExposedPart, Active, InHand, At
<1>9. ReflectPart'
  <2>1. k # ReflectKey /\ ReflectKey \in Exposed(gens)' =>
          ReflectKey \in Exposed(gens)
    BY <1>2, <1>6 DEF Exposed
  <2>2. Active(c)'
    BY <1>5 DEF Active
  <2>3. Active(c) /\ ReflectKey \in Exposed(gens) => reflected = gens
    BY <1>0 DEF ReflectPart
  <2>4. ReflectKey \in Exposed(gens)' => reflected' = gens'
    BY <1>1, <1>2, <1>3, <2>1, <2>3
  <2> QED BY <2>2, <2>4 DEF ReflectPart
<1> QED BY <1>7, <1>8, <1>9, <1>10

(* Once Range has ended, registrations and names stay as they are. *)
LEMMA AfterRange ==
  ASSUME TypeOK, ConcurrentInvariant, SerialPart, OwnKeyPart, ReflectPart,
         NEW c \in Callers, Active(c),
         UNCHANGED <<gens, serviceName, reflected>>,
         \A d \in Callers : /\ call'[d].gen = call[d].gen
                            /\ call'[d].op = call[d].op
                            /\ d # c => call'[d].pc = call[d].pc,
         call'[c].pc \notin {"range", "register", "insert"},
         \A g \in Gens : /\ obj'[g].services = obj[g].services
                         /\ obj'[g].asked = obj[g].asked,
         obj[gens].asked \subseteq Exposed(gens),
         call'[c].pc = "idle" => grpcServer' = gens
  PROVE  SerialPart' /\ OwnKeyPart' /\ ExposedPart' /\ ReflectPart'
<1>1. /\ call[c].gen = gens /\ gens \in Gens
      /\ call[c].op \in {"Start", "RefreshService"}
      /\ \A d \in Callers : d # c => call[d].pc = "idle"
  BY InProgress
<1>2. \A d \in Callers : /\ call'[d].pc \notin {"range", "register", "insert"}
                         /\ Active(d)' => d = c
  BY <1>1 DEF Active
<1>3. SerialPart'
  BY <1>1, <1>2 DEF SerialPart
<1>4. OwnKeyPart'
  BY <1>2 DEF OwnKeyPart, InHand, At
<1>6. ExposedPart'
  <2>1. Exposed(gens)' = Exposed(gens)
    BY <1>1 DEF Exposed
  <2> QED BY <1>1, <1>2, <2>1 DEF ExposedPart, InHand, At
<1>5. ReflectPart'
  <2>1. Exposed(gens)' = Exposed(gens)
    BY <1>1 DEF Exposed
  <2>2. ReflectKey \in Exposed(gens) => reflected = gens
    BY DEF ReflectPart
  <2>3. (\A d \in Callers : ~Active(d)') => grpcServer' = gens'
    BY DEF Active
  <2> QED BY <2>1, <2>2, <2>3 DEF ReflectPart
<1> QED BY <1>3, <1>4, <1>5, <1>6

LEMMA EndRangeSerial ==
  ASSUME TypeOK, ConcurrentInvariant, SerializedInvariant, NEW c \in Callers,
         EndRange(c)
  PROVE  SerializedInvariant'
<1> SUFFICES ASSUME Serialized
             PROVE  (SerialPart /\ ListenerPart /\ FieldsPart /\ OwnKeyPart
                     /\ ExposedPart /\ ReflectPart)'
  BY DEF SerializedInvariant
<1>0. /\ SerialPart /\ ListenerPart /\ FieldsPart
      /\ OwnKeyPart /\ ExposedPart /\ ReflectPart
  BY DEF SerializedInvariant
<1>1. /\ call[c] \in CallRecords /\ call[c].pc = "range" /\ Active(c)
      /\ UNCHANGED <<gens, serviceName, reflected, obj, lst, grpcServer, refused>>
  BY DEF TypeOK, EndRange, Active, At, names, refs, world
<1>2. /\ \A d \in Callers : /\ call'[d].gen = call[d].gen
                            /\ call'[d].op = call[d].op
                            /\ d # c => call'[d].pc = call[d].pc
      /\ call'[c].pc = IF call[c].op = "Start" THEN "spawn" ELSE "stopOld"
  BY <1>1 DEF EndRange, TypeOK, CallRecords
<1>3. SerialPart' /\ OwnKeyPart' /\ ExposedPart' /\ ReflectPart'
  <2>1. obj[gens].asked \subseteq Exposed(gens)
    <3>1. call[c].gen = gens
      BY <1>0, <1>1, InProgress
    <3> QED BY <1>0, <1>1, <3>1 DEF EndRange, ExposedPart, At
  <2> QED BY <1>0, <1>1, <1>2, <2>1, AfterRange
<1>4. /\ gens \in Gens /\ call[c].op \in {"Start", "RefreshService"}
      /\ \A d \in Callers : d # c => call[d].pc = "idle"
  BY <1>0, <1>1, InProgress
<1>5. \A d \in Callers : /\ Active(d)' <=> Active(d)
                         /\ Replaced(d)' <=> Replaced(d)
                         /\ ~Assigning(d)' /\ ~Assigning(d)
                         /\ ~At(d, "closeOld")'
  BY <1>1, <1>2, <1>4 DEF Active, Replaced, Assigning, At
<1>6. ListenerPart'
  <2>1. \A g \in Gens : obj'[g].listener = "open" =>
          /\ \A d \in Callers : Replaced(d)' => g = gens'
          /\ (\A d \in Callers : ~Replaced(d)') => g = lst' /\ g = grpcServer'
    BY <1>0, <1>1, <1>5 DEF ListenerPart
  <2>2. \A d \in Callers : Active(d)' => d = c
    BY <1>4, <1>5 DEF Active
  <2>3. /\ call[c].op = "Start" => obj[gens].listener # "none"
        /\ call[c].op = "RefreshService" => obj[gens].listener = "none"
    BY <1>0, <1>1 DEF ListenerPart
  <2>4. \A g \in Gens : obj'[g].serve # "none" /\ obj'[g].listener = "none" => refused'
    BY <1>0, <1>1 DEF ListenerPart
  <2> QED BY <1>1, <1>2, <2>1, <2>2, <2>3, <2>4 DEF ListenerPart
<1>7. FieldsPart'
  BY <1>0, <1>1, <1>2, <1>5 DEF FieldsPart
<1> QED BY <1>3, <1>6, <1>7

(* What the invariant says of the call in progress. *)
LEMMA OfTheCall ==
  ASSUME TypeOK, ConcurrentInvariant, SerialPart, ListenerPart, FieldsPart,
         NEW c \in Callers, Active(c)
  PROVE  /\ \A g \in Gens : obj[g].listener = "open" =>
              IF Replaced(c) THEN g = gens ELSE g = lst /\ g = grpcServer
         /\ call[c].op = "Start" => obj[gens].listener # "none"
         /\ call[c].op = "RefreshService" /\ obj[gens].listener # "none" =>
              call[c].pc \in {"spawn", "setLst", "setServer"}
         /\ call[c].pc \in {"spawn", "setLst", "setServer"}
              /\ obj[gens].listener = "none" => refused
         /\ \A g \in Gens :
              obj[g].serve # "none" /\ obj[g].listener = "none" => refused
         /\ Assigning(c) /\ call[c].op = "Start" => lst = gens
         /\ Assigning(c) /\ call[c].op = "RefreshService" => grpcServer = gens
         /\ call[c].op = "RefreshService" => lst # gens
         /\ ~Assigning(c) => lst = grpcServer \/ (lst = nil /\ refused)
<1>1. \A d \in Callers : d # c => ~Replaced(d) /\ ~Assigning(d)
  BY InProgress DEF Replaced, Assigning, Active, At
<1> QED BY <1>1 DEF ListenerPart, FieldsPart

(* The same, of the next state. *)
LEMMA OfTheCallNext ==
  ASSUME NEW c \in Callers,
         \A d \in Callers : d # c => call'[d].pc = "idle",
         \A g \in Gens : obj'[g].listener = "open" =>
           IF Replaced(c)' THEN g = gens' ELSE g = lst' /\ g = grpcServer',
         Active(c)' =>
           /\ call'[c].op = "Start" => obj'[gens'].listener # "none"
           /\ call'[c].op = "RefreshService" /\ obj'[gens'].listener # "none" =>
                call'[c].pc \in {"spawn", "setLst", "setServer"}
           /\ call'[c].pc \in {"spawn", "setLst", "setServer"}
                /\ obj'[gens'].listener = "none" => refused'
           /\ call'[c].op = "RefreshService" => lst' # gens'
           /\ Assigning(c)' /\ call'[c].op = "Start" => lst' = gens'
           /\ Assigning(c)' /\ call'[c].op = "RefreshService" =>
                grpcServer' = gens'
           /\ call'[c].pc = "closeOld" => grpcServer' # nil,
         \A g \in Gens :
           obj'[g].serve # "none" /\ obj'[g].listener = "none" => refused',
         ~Assigning(c)' => lst' = grpcServer' \/ (lst' = nil /\ refused')
  PROVE  ListenerPart' /\ FieldsPart'
<1>1. \A d \in Callers :
        /\ d # c => ~Replaced(d)' /\ ~Assigning(d)' /\ ~Active(d)'
        /\ Replaced(d)' => Active(d)'
        /\ Assigning(d)' => Active(d)'
        /\ At(d, "closeOld")' => d = c /\ Active(d)' /\ call'[d].pc = "closeOld"
  BY DEF Replaced, Assigning, Active, At
<1>2. ListenerPart'
  BY <1>1 DEF ListenerPart
<1>3. FieldsPart'
  BY <1>1 DEF FieldsPart
<1> QED BY <1>2, <1>3

LEMMA ReplaceSerial ==
  ASSUME TypeOK, ConcurrentInvariant, SerializedInvariant, NEW c \in Callers,
         \/ grpcServer # nil /\ StopOld(c)
         \/ lst # nil /\ CloseOld(c)
         \/ ListenAgain(c) \/ SpawnServe(c) \/ SetLst(c) \/ SetServer(c)
  PROVE  SerializedInvariant'
<1> SUFFICES ASSUME Serialized
             PROVE  (SerialPart /\ ListenerPart /\ FieldsPart /\ OwnKeyPart
                     /\ ExposedPart /\ ReflectPart)'
  BY DEF SerializedInvariant
<1>0. /\ SerialPart /\ ListenerPart /\ FieldsPart
      /\ OwnKeyPart /\ ExposedPart /\ ReflectPart
  BY DEF SerializedInvariant
<1> DEFINE op == call[c].op
<1>1. PICK from \in Steps, to \in Steps : Moves(c, from, to)
  BY DEF StopOld, CloseOld, ListenAgain, SpawnServe, SetLst, SetServer, Step,
         AfterSpawn, AfterLst, Steps
<1>2. Active(c)
  BY DEF StopOld, CloseOld, ListenAgain, SpawnServe, SetLst, SetServer, Step,
         Moves, Active, At
<1>3. /\ call[c].gen = gens /\ gens \in Gens /\ gens # nil
      /\ op \in {"Start", "RefreshService"}
      /\ \A d \in Callers : d # c => call[d].pc = "idle"
  BY <1>0, <1>2, InProgress
<1>4. /\ UNCHANGED <<gens, serviceName, reflected>>
      /\ refused => refused'
      /\ \A d \in Callers : /\ call'[d].gen = call[d].gen
                            /\ call'[d].op = call[d].op
                            /\ d # c => call'[d].pc = call[d].pc
  <2>1. refused => refused'
    BY DEF StopOld, CloseOld, ListenAgain, SpawnServe, SetLst, SetServer, Step,
           Crash, world
  <2> QED BY <1>1, <2>1, MoveEffect
<1>13. obj[gens].asked \subseteq Exposed(gens)
  <2>1. call[c].pc \notin {"range", "register", "insert"}
    BY DEF StopOld, CloseOld, ListenAgain, SpawnServe, SetLst, SetServer, Step,
           Moves, At
  <2> QED BY <1>0, <1>2, <2>1 DEF ExposedPart, InHand, At
<1>5. \A d \in Callers : d # c => call'[d].pc = "idle"
  BY <1>3, <1>4
<1>6. /\ \A g \in Gens : obj[g].listener = "open" =>
           IF Replaced(c) THEN g = gens ELSE g = lst /\ g = grpcServer
      /\ op = "Start" => obj[gens].listener # "none"
      /\ op = "RefreshService" /\ obj[gens].listener # "none" =>
           call[c].pc \in {"spawn", "setLst", "setServer"}
      /\ call[c].pc \in {"spawn", "setLst", "setServer"}
           /\ obj[gens].listener = "none" => refused
      /\ \A g \in Gens :
           obj[g].serve # "none" /\ obj[g].listener = "none" => refused
      /\ Assigning(c) /\ op = "Start" => lst = gens
      /\ Assigning(c) /\ op = "RefreshService" => grpcServer = gens
      /\ op = "RefreshService" => lst # gens
      /\ ~Assigning(c) => lst = grpcServer \/ (lst = nil /\ refused)
  BY <1>0, <1>2, OfTheCall
<1>7. CASE grpcServer # nil /\ StopOld(c)
  <2>1. /\ Step(c, "stopOld", "closeOld") /\ UNCHANGED <<lst, grpcServer>>
        /\ obj' = [obj EXCEPT ![grpcServer] = AfterStop(@)]
        /\ grpcServer \in Gens /\ obj[grpcServer] \in Objects
    BY <1>7 DEF StopOld, TypeOK, refs
  <2>2. call[c].pc = "stopOld" /\ call'[c].pc = "closeOld"
    BY <2>1, StepEffect
  <2>3. \A g \in Gens : /\ g # grpcServer => obj'[g] = obj[g]
                        /\ g = grpcServer => obj'[g] = AfterStop(obj[g])
    BY <2>1 DEF TypeOK
  <2>4. /\ AfterStop(obj[grpcServer]).services = obj[grpcServer].services
        /\ AfterStop(obj[grpcServer]).asked = obj[grpcServer].asked
        /\ AfterStop(obj[grpcServer]).serve = obj[grpcServer].serve
        /\ AfterStop(obj[grpcServer]).listener =
             IF obj[grpcServer].serve = "accepting" THEN "closed"
             ELSE obj[grpcServer].listener
    BY <2>1 DEF AfterStop, Objects
  <2>5. obj[gens].serve = "none"
    BY <1>2, <1>3, <2>2 DEF ConcurrentInvariant, ServePart
  <2>6. /\ \A g \in Gens :
             /\ obj'[g].services = obj[g].services
             /\ obj'[g].asked = obj[g].asked
             /\ obj'[g].serve = obj[g].serve
             /\ obj'[g].listener = "open" => obj[g].listener = "open"
             /\ obj'[g].listener = "none" => obj[g].listener = "none"
        /\ obj'[gens].listener = obj[gens].listener
    BY <1>3, <2>3, <2>4, <2>5
  <2>7. SerialPart' /\ OwnKeyPart' /\ ExposedPart' /\ ReflectPart'
    BY <1>0, <1>2, <1>13, <1>4, <2>2, <2>6, AfterRange
  <2>8. /\ Replaced(c)' <=> Replaced(c)
        /\ ~Assigning(c) /\ ~Assigning(c)' /\ Active(c)'
    BY <1>4, <2>2 DEF Replaced, Assigning, Active, At
  <2>9. ListenerPart' /\ FieldsPart'
    BY <1>4, <1>5, <1>6, <1>7, <2>1, <2>2, <2>6, <2>8, OfTheCallNext
  <2> QED BY <2>7, <2>9
<1>8. CASE lst # nil /\ CloseOld(c)
  <2>1. /\ Step(c, "closeOld", "listen") /\ UNCHANGED <<lst, grpcServer>>
        /\ obj' = [obj EXCEPT ![lst].listener = "closed"]
        /\ lst \in Gens /\ obj[lst] \in Objects
    BY <1>8 DEF CloseOld, TypeOK, refs
  <2>2. call[c].pc = "closeOld" /\ call'[c].pc = "listen"
    BY <2>1, StepEffect
  <2>3. \A g \in Gens :
          /\ obj'[g].services = obj[g].services
          /\ obj'[g].asked = obj[g].asked
          /\ obj'[g].serve = obj[g].serve
          /\ obj'[g].listener = IF g = lst THEN "closed" ELSE obj[g].listener
    BY <2>1 DEF TypeOK, Objects
  <2>4. SerialPart' /\ OwnKeyPart' /\ ExposedPart' /\ ReflectPart'
    BY <1>0, <1>2, <1>13, <1>4, <2>2, <2>3, AfterRange
  <2>5. /\ Replaced(c) <=> op = "Start"
        /\ ~Assigning(c) /\ ~Assigning(c)' /\ Active(c)' /\ Replaced(c)'
    BY <1>2, <1>4, <2>2 DEF Replaced, Assigning, Active, At
  <2>6. \A g \in Gens : obj'[g].listener = "open" => g = gens
    BY <1>6, <2>3, <2>5
  <2>7. ListenerPart' /\ FieldsPart'
    BY <1>3, <1>4, <1>5, <1>6, <2>1, <2>2, <2>3, <2>5, <2>6, OfTheCallNext
  <2> QED BY <2>4, <2>7
<1>9. CASE ListenAgain(c)
  <2>1. Moves(c, "listen", "spawn") /\ UNCHANGED <<lst, grpcServer>>
    BY <1>9 DEF ListenAgain, refs
  <2>2. call[c].pc = "listen" /\ call'[c].pc = "spawn"
    BY <2>1, MoveEffect
  <2>3. \A g \in Gens :
          /\ obj'[g].services = obj[g].services
          /\ obj'[g].asked = obj[g].asked
          /\ obj'[g].serve = obj[g].serve
          /\ obj'[g].listener \in {"open", obj[g].listener}
          /\ g # gens => obj'[g].listener = obj[g].listener
    <3>1. obj[gens] \in Objects
      BY <1>3 DEF TypeOK
    <3> QED BY <1>3, <1>9, <3>1 DEF ListenAgain, TypeOK, Objects
  <2>4. SerialPart' /\ OwnKeyPart' /\ ExposedPart' /\ ReflectPart'
    BY <1>0, <1>2, <1>13, <1>4, <2>2, <2>3, AfterRange
  <2>5. /\ Replaced(c) /\ Replaced(c)' /\ Active(c)'
        /\ ~Assigning(c) /\ ~Assigning(c)'
    BY <1>2, <1>4, <2>2 DEF Replaced, Assigning, Active, At
  <2>6. \A g \in Gens : obj'[g].listener = "open" => g = gens
    BY <1>6, <2>3, <2>5
  <2>7. obj'[gens].listener = "none" => refused'
    <3>1. ~PortFree => obj[gens].listener # "none"
      BY <1>3, <1>6, <2>5 DEF PortFree
    <3>2. obj[gens] \in Objects
      BY <1>3 DEF TypeOK
    <3> QED BY <1>3, <1>9, <3>1, <3>2 DEF ListenAgain, TypeOK, Objects
  <2>8. ListenerPart' /\ FieldsPart'
    BY <1>3, <1>4, <1>5, <1>6, <2>1, <2>2, <2>3, <2>5, <2>6, <2>7, OfTheCallNext
  <2> QED BY <2>4, <2>8
<1>10. CASE SpawnServe(c)
  <2>1. /\ Step(c, "spawn", AfterSpawn(c)) /\ UNCHANGED <<lst, grpcServer>>
        /\ AfterSpawn(c) = IF op = "Start" THEN "setLst" ELSE "setServer"
    BY <1>10 DEF SpawnServe, AfterSpawn, refs
  <2>2. /\ call[c].pc = "spawn"
        /\ call'[c].pc = IF op = "Start" THEN "setLst" ELSE "setServer"
    BY <2>1, StepEffect
  <2>3. \A g \in Gens :
          /\ obj'[g].services = obj[g].services
          /\ obj'[g].asked = obj[g].asked
          /\ obj'[g].serve = IF g = gens THEN "spawned" ELSE obj[g].serve
          /\ obj'[g].listener = obj[g].listener
    <3>1. obj[gens] \in Objects
      BY <1>3 DEF TypeOK
    <3> QED BY <1>3, <1>10, <3>1 DEF SpawnServe, TypeOK, Objects
  <2>4. SerialPart' /\ OwnKeyPart' /\ ExposedPart' /\ ReflectPart'
    BY <1>0, <1>2, <1>13, <1>4, <2>2, <2>3, AfterRange
  <2>5. /\ Replaced(c) /\ Replaced(c)' /\ Active(c)'
        /\ ~Assigning(c) /\ ~Assigning(c)'
    BY <1>2, <1>3, <1>4, <2>2 DEF Replaced, Assigning, Active, At
  <2>6. \A g \in Gens :
          obj'[g].serve # "none" /\ obj'[g].listener = "none" => refused'
    BY <1>4, <1>6, <2>2, <2>3
  <2>7. ListenerPart' /\ FieldsPart'
    BY <1>3, <1>4, <1>5, <1>6, <2>1, <2>2, <2>3, <2>5, <2>6, OfTheCallNext
  <2> QED BY <2>4, <2>7
<1>11. CASE SetLst(c)
  <2>1. /\ Step(c, "setLst", AfterLst(c)) /\ UNCHANGED <<grpcServer, obj>>
        /\ AfterLst(c) = IF op = "Start" THEN "setServer" ELSE "idle"
        /\ lst' = IF obj[gens].listener = "none" THEN nil ELSE gens
    BY <1>3, <1>11 DEF SetLst, AfterLst
  <2>2. /\ call[c].pc = "setLst"
        /\ call'[c].pc = IF op = "Start" THEN "setServer" ELSE "idle"
    BY <2>1, StepEffect
  <2>3. /\ Replaced(c) /\ Replaced(c)' <=> op = "Start"
        /\ Active(c)' <=> op = "Start"
        /\ Assigning(c) <=> op = "RefreshService"
        /\ Assigning(c)' <=> op = "Start"
    BY <1>2, <1>3, <1>4, <2>2 DEF Replaced, Assigning, Active, At
  <2>4. op = "RefreshService" => grpcServer = gens
    BY <1>6, <2>3
  <2>5. SerialPart' /\ OwnKeyPart' /\ ExposedPart' /\ ReflectPart'
    BY <1>0, <1>2, <1>13, <1>3, <1>4, <2>1, <2>2, <2>4, AfterRange
  <2>6. \A g \in Gens : obj'[g].listener = "open" =>
          IF Replaced(c)' THEN g = gens' ELSE g = lst' /\ g = grpcServer'
    BY <1>3, <1>4, <1>6, <2>1, <2>3, <2>4
  <2>7. ListenerPart' /\ FieldsPart'
    BY <1>3, <1>4, <1>5, <1>6, <2>1, <2>2, <2>3, <2>4, <2>6, OfTheCallNext
  <2> QED BY <2>5, <2>7
<1>12. CASE SetServer(c)
  <2>1. /\ Step(c, "setServer", IF op = "Start" THEN "idle" ELSE "setLst")
        /\ UNCHANGED <<lst, obj>> /\ grpcServer' = gens
    BY <1>3, <1>12 DEF SetServer
  <2>2. /\ call[c].pc = "setServer"
        /\ call'[c].pc = IF op = "Start" THEN "idle" ELSE "setLst"
    BY <2>1, StepEffect
  <2>3. /\ Replaced(c) /\ Replaced(c)' <=> op = "RefreshService"
        /\ Active(c)' <=> op = "RefreshService"
        /\ Assigning(c) <=> op = "Start"
        /\ Assigning(c)' <=> op = "RefreshService"
    BY <1>2, <1>3, <1>4, <2>2 DEF Replaced, Assigning, Active, At
  <2>4. op = "Start" => lst = gens
    BY <1>6, <2>3
  <2>5. SerialPart' /\ OwnKeyPart' /\ ExposedPart' /\ ReflectPart'
    BY <1>0, <1>2, <1>13, <1>3, <1>4, <2>1, <2>2, AfterRange
  <2>6. \A g \in Gens : obj'[g].listener = "open" =>
          IF Replaced(c)' THEN g = gens' ELSE g = lst' /\ g = grpcServer'
    BY <1>3, <1>4, <1>6, <2>1, <2>3, <2>4
  <2>7. ListenerPart' /\ FieldsPart'
    BY <1>3, <1>4, <1>5, <1>6, <2>1, <2>2, <2>3, <2>4, <2>6, OfTheCallNext
  <2> QED BY <2>5, <2>7
<1> QED BY <1>7, <1>8, <1>9, <1>10, <1>11, <1>12

LEMMA ServeSerial ==
  ASSUME TypeOK, ConcurrentInvariant, SerializedInvariant, NEW g \in Gens,
         \/ obj[g].listener # "none" /\ ServeBegins(g)
         \/ ServeReturns(g) \/ Accepts(g) \/ PeerDisconnects(g)
  PROVE  SerializedInvariant'
<1>1. obj[g] \in Objects
  BY DEF TypeOK
<1>2. PICK object : /\ Serving(g, object)
                    /\ object.services = obj[g].services
                    /\ object.asked \subseteq obj[g].asked
                    /\ object.listener = "open" => obj[g].listener = "open"
                    /\ object.listener = "none" <=> obj[g].listener = "none"
                    /\ object.serve = "none" <=> obj[g].serve = "none"
  <2>1. CASE obj[g].listener # "none" /\ ServeBegins(g)
    <3> DEFINE o == [obj[g] EXCEPT
                       !.asked = {},
                       !.serve = IF obj[g].server = "built" THEN "accepting"
                                 ELSE "returned",
                       !.listener = IF obj[g].server = "built" THEN @
                                    ELSE "closed"]
    <3>1. Serving(g, o) /\ obj[g].serve = "spawned"
      BY <2>1 DEF ServeBegins
    <3>2. /\ o.services = obj[g].services /\ o.asked = {}
          /\ o.listener \in {obj[g].listener, "closed"}
          /\ o.serve \in {"accepting", "returned"}
      BY <1>1 DEF Objects
    <3> HIDE DEF o
    <3> QED BY <2>1, <3>1, <3>2
  <2>2. CASE ServeReturns(g)
    <3> DEFINE o == [obj[g] EXCEPT !.serve = "returned"]
    <3>1. Serving(g, o) /\ obj[g].serve = "accepting"
      BY <2>2 DEF ServeReturns
    <3>2. /\ o.services = obj[g].services /\ o.listener = obj[g].listener
          /\ o.asked = obj[g].asked
          /\ o.serve = "returned"
      BY <1>1 DEF Objects
    <3> HIDE DEF o
    <3> QED BY <3>1, <3>2
  <2>3. CASE Accepts(g) \/ PeerDisconnects(g)
    <3>1. PICK b \in BOOLEAN : Serving(g, [obj[g] EXCEPT !.conn = b])
      BY <2>3 DEF Accepts, PeerDisconnects
    <3> DEFINE o == [obj[g] EXCEPT !.conn = b]
    <3>2. /\ o.services = obj[g].services /\ o.listener = obj[g].listener
          /\ o.asked = obj[g].asked
          /\ o.serve = obj[g].serve
      BY <1>1 DEF Objects
    <3>3. Serving(g, o)
      BY <3>1
    <3> HIDE DEF o
    <3> QED BY <3>2, <3>3
  <2> QED BY <2>1, <2>2, <2>3
<1>3. /\ obj'[g] = object /\ \A h \in Gens : h # g => obj'[h] = obj[h]
      /\ UNCHANGED <<gens, lst, grpcServer, serviceName, reflected, call, refused,
                    rpcServiceMap>>
  BY <1>2 DEF Serving, refs, names, world, TypeOK
<1> QED BY <1>2, <1>3, BystanderSerial

LEMMA StopSerial ==
  ASSUME TypeOK, ConcurrentInvariant, SerializedInvariant, NEW c \in Callers,
         lst # nil, Stop(c)
  PROVE  SerializedInvariant'
<1> SUFFICES ASSUME Serialized PROVE SerializedInvariant'
  BY DEF SerializedInvariant
<1>1. /\ obj' = [obj EXCEPT ![lst].listener = "closed"]
      /\ UNCHANGED <<gens, lst, grpcServer, serviceName, reflected, call, refused,
                    rpcServiceMap>>
      /\ lst \in Gens /\ obj[lst] \in Objects
      /\ \A d \in Callers : ~Active(d)
  BY DEF Stop, refs, names, TypeOK, MayCall, Active, At
<1>2. \A h \in Gens :
        /\ obj'[h].services = obj[h].services /\ obj'[h].serve = obj[h].serve
        /\ obj'[h].asked = obj[h].asked
        /\ obj'[h].listener = IF h = lst THEN "closed" ELSE obj[h].listener
  BY <1>1 DEF TypeOK, Objects
<1> QED BY <1>1, <1>2, BystanderSerial

LEMMA NextSerial ==
  TypeOK /\ ConcurrentInvariant /\ SerializedInvariant /\ [Next]_vars
    => SerializedInvariant'
<1> SUFFICES ASSUME TypeOK, ConcurrentInvariant, SerializedInvariant, [Next]_vars
             PROVE  SerializedInvariant'
  OBVIOUS
<1>0. ASSUME UNCHANGED <<gens, lst, grpcServer, serviceName, reflected, call,
                         obj>>, refused => refused',
             rpcServiceMap \subseteq rpcServiceMap'
      PROVE  SerializedInvariant'
  BY <1>0, BystanderSerial
<1>1. ASSUME NEW why, Crash(why)
      PROVE  SerializedInvariant'
  BY <1>0, <1>1 DEF Crash, refs, names
<1>2. ASSUME NEW c \in Callers, Start(c) \/ RefreshService(c)
      PROVE  SerializedInvariant'
  BY <1>1, <1>2, BuildSerial DEF Start, RefreshService
<1>3. ASSUME NEW c \in Callers, Stop(c)
      PROVE  SerializedInvariant'
  BY <1>1, <1>3, StopSerial DEF Stop
<1>4. ASSUME NEW c \in Callers, CallStep(c)
      PROVE  SerializedInvariant'
  <2>1. ASSUME NEW k \in Keys, VisitUnary(c, k) \/ VisitGrpc(c, k)
        PROVE  SerializedInvariant'
    BY <1>1, <2>1, VisitSerial DEF VisitUnary
  <2>2. CASE RegisterService(c)
    BY <1>1, <2>2, CheckSerial DEF RegisterService
  <2>7. CASE InsertService(c)
    BY <1>1, <2>7, RegisterSerial DEF InsertService
  <2>3. CASE EndRange(c)
    BY <2>3, EndRangeSerial
  <2>4. CASE StopOld(c)
    BY <1>1, <2>4, ReplaceSerial DEF StopOld
  <2>5. CASE CloseOld(c)
    BY <1>1, <2>5, ReplaceSerial DEF CloseOld
  <2>6. CASE ListenAgain(c) \/ SpawnServe(c) \/ SetLst(c) \/ SetServer(c)
    BY <2>6, ReplaceSerial
  <2> QED BY <1>4, <2>1, <2>2, <2>3, <2>4, <2>5, <2>6, <2>7 DEF CallStep
<1>5. ASSUME NEW g \in Gens, ServeStep(g) \/ Accepts(g) \/ PeerDisconnects(g)
      PROVE  SerializedInvariant'
  BY <1>1, <1>5, ServeSerial DEF ServeStep, ServeBegins
<1>6. CASE \/ \E k \in Keys : Store(k)
           \/ UNCHANGED vars
  BY <1>0, <1>6 DEF Store, vars, refs, names
<1> QED BY <1>2, <1>3, <1>4, <1>5, <1>6 DEF Next

(* Why a step of the process may kill it. *)
LEMMA NextExplained ==
  TypeOK /\ ConcurrentInvariant /\ SerializedInvariant /\ CrashesExplained
    /\ [Next]_vars => CrashesExplained'
<1> SUFFICES ASSUME TypeOK, ConcurrentInvariant, SerializedInvariant, Serialized,
                    CrashesExplained, [Next]_vars
             PROVE  CrashesExplained'
  BY DEF CrashesExplained
<1>0. SerialPart /\ ListenerPart /\ FieldsPart /\ OwnKeyPart
  BY DEF SerializedInvariant
<1>1. CASE UNCHANGED vars
  BY <1>1 DEF CrashesExplained, vars
<1>2. CASE crashed' = "no"
  BY <1>2 DEF CrashesExplained
<1>3. ASSUME NEW why, Crash(why)
      PROVE  crashed' = why /\ UNCHANGED <<lst, grpcServer, refused, rpcServiceMap>>
  BY <1>3 DEF Crash, refs
<1>4. ASSUME NEW c \in Callers, MayCall(c)
      PROVE  \A d \in Callers : ~Replaced(d) /\ ~Assigning(d)
  BY <1>4 DEF MayCall, Replaced, Assigning, Active, At
<1>5. ASSUME NEW c \in Callers, At(c, "stopOld") \/ At(c, "closeOld")
      PROVE  \A d \in Callers : ~Assigning(d)
  <2>1. Active(c)
    BY <1>5 DEF Active, At
  <2> QED BY <1>0, <1>5, <2>1, InProgress DEF Assigning, At
<1>6. ASSUME NEW c \in Callers, MayCall(c), ~PortFree, Crash("listen")
      PROVE  CrashesExplained'
  <2>1. lst # nil
    BY <1>0, <1>4, <1>6, ServerAssumption DEF ListenerPart, PortFree, Gens, nil
  <2> QED BY <1>3, <1>6, <2>1 DEF CrashesExplained
<1>7. ASSUME NEW c \in Callers,
             \/ /\ MayCall(c) \/ At(c, "closeOld")
                /\ lst = nil /\ Crash("nilListener")
             \/ At(c, "stopOld") /\ grpcServer = nil /\ Crash("nilServer")
      PROVE  CrashesExplained'
  <2>1. \A d \in Callers : ~Assigning(d)
    BY <1>4, <1>5, <1>7
  <2>2. lst = grpcServer \/ (lst = nil /\ refused)
    BY <1>0, <2>1 DEF FieldsPart
  <2>3. /\ crashed' \in {"nilServer", "nilListener"}
        /\ UNCHANGED <<lst, grpcServer, refused>>
        /\ lst = nil \/ grpcServer = nil
    BY <1>3, <1>7
  <2> QED BY <2>2, <2>3 DEF CrashesExplained
<1>8. ASSUME NEW g \in Gens, obj[g].serve = "spawned",
             obj[g].listener = "none", Crash("serveNil")
      PROVE  CrashesExplained'
  BY <1>0, <1>3, <1>8 DEF ListenerPart, CrashesExplained
<1>9. ASSUME Next, crashed' # "no"
      PROVE  CrashesExplained'
  <2>1. crashed = "no"
    BY <1>9 DEF Next
  <2>2. ASSUME NEW c \in Callers, Start(c) \/ RefreshService(c) \/ Stop(c)
        PROVE  CrashesExplained'
    <3>1. CASE Crash("refused")
      BY <1>3, <3>1 DEF CrashesExplained
    <3> QED BY <1>6, <1>7, <1>9, <2>1, <2>2, <3>1
            DEF Start, RefreshService, Stop, BuildServer, world
  <2>3. ASSUME NEW c \in Callers, CallStep(c)
        PROVE  CrashesExplained'
    <3>0. ASSUME NEW k \in rpcServiceMap, ~Fits(k), Crash("assertion")
          PROVE  CrashesExplained'
      <4>1. crashed' = "assertion" /\ rpcServiceMap' = rpcServiceMap
        BY <1>3, <3>0
      <4> QED BY <3>0, <4>1 DEF CrashesExplained, Fits
    <3>1. ASSUME NEW k \in Keys, VisitUnary(c, k) \/ VisitGrpc(c, k)
          PROVE  CrashesExplained'
      <4>1. ~Visit(c, k)
        BY <1>9, <2>1 DEF Visit, world
      <4> QED BY <3>0, <3>1, <4>1 DEF VisitUnary, VisitGrpc, NamesDesc
    <3>2. ~RegisterService(c)
      <4>1. SUFFICES ASSUME RegisterService(c) PROVE FALSE
        OBVIOUS
      <4>2. ~(\E r \in obj[call[c].gen].services :
                r[1] = serviceName[DescOf[call[c].key]])
        <5>1. InHand(c)
          BY <4>1 DEF RegisterService, InHand, At
        <5> QED BY <5>1, NoDuplicate
      <4> QED BY <1>9, <2>1, <4>1, <4>2 DEF RegisterService, Step, world
    <3>6. CASE InsertService(c)
      <4>1. InHand(c)
        BY <3>6 DEF InsertService, InHand, At
      <4>2. call[c].key \in rpcServiceMap
        BY <4>1, NoDuplicate
      <4> QED BY <1>9, <2>1, <3>0, <3>6, <4>2 DEF InsertService, Registered, world
    <3>3. ~EndRange(c)
      BY <1>9, <2>1 DEF EndRange, world
    <3>4. ASSUME NEW from, NEW to
          PROVE  ~Step(c, from, to)
      BY <1>9, <2>1 DEF Step, world
    <3>5. CASE StopOld(c) \/ CloseOld(c)
      BY <1>7, <3>4, <3>5 DEF StopOld, CloseOld
    <3>7. ~ListenAgain(c)
      BY <1>9, <2>1 DEF ListenAgain
    <3> QED BY <2>3, <3>1, <3>2, <3>3, <3>4, <3>5, <3>6, <3>7
            DEF CallStep, SpawnServe, SetLst, SetServer
  <2>4. ASSUME NEW g \in Gens, ServeStep(g) \/ Accepts(g) \/ PeerDisconnects(g)
        PROVE  CrashesExplained'
    <3>1. ASSUME NEW object
          PROVE  ~Serving(g, object)
      BY <1>9, <2>1 DEF Serving, world
    <3> QED BY <1>8, <2>4, <3>1
            DEF ServeStep, ServeBegins, ServeReturns, Accepts, PeerDisconnects
  <2>5. CASE \E k \in Keys : Store(k)
    BY <1>9, <2>1, <2>5 DEF Store
  <2> QED BY <1>9, <2>2, <2>3, <2>4, <2>5 DEF Next
<1> QED BY <1>1, <1>2, <1>9

(* If the application serializes its calls, the two fields, the open       *)
(* listener and the registered keys are in step at every point of a call   *)
(* (dubbo3_server.go:254-312).                                             *)
THEOREM SerializedCorrect == Spec => []SerializedInvariant
<1>1. TypeOK /\ ConcurrentInvariant /\ SerializedInvariant /\ [Next]_vars
        => SerializedInvariant'
  BY NextSerial
<1> QED BY <1>1, InitSerial, ConcurrentCorrect, PTL DEF Spec

(* Between serialized calls no listener is open but the one Stop closes,   *)
(* served by the gRPC server RefreshService stops                          *)
(* (dubbo3_server.go:278-279, 304-305).                                    *)
THEOREM NoLeak == Spec => []NoListenerLeak
<1>1. SerializedInvariant => NoListenerLeak
  <2> SUFFICES ASSUME SerializedInvariant, Serialized, Quiet,
                      NEW g \in Gens, obj[g].listener = "open"
               PROVE  g = lst /\ g = grpcServer
    BY DEF NoListenerLeak
  <2>1. \A c \in Callers : ~Replaced(c)
    BY DEF Quiet, Replaced, Active, At
  <2> QED BY <2>1 DEF SerializedInvariant, ListenerPart
<1> QED BY <1>1, SerializedCorrect, PTL

(* Between serialized calls the reflection service, if offered, describes  *)
(* the server in use (dubbo3_server.go:271-273, 295-297).                  *)
THEOREM ReflectionFollows == Spec => []ReflectionFollowsServer
<1>1. SerializedInvariant => ReflectionFollowsServer
  BY DEF SerializedInvariant, ReflectPart, ReflectionFollowsServer, Quiet,
         Active, At
<1> QED BY <1>1, SerializedCorrect, PTL

(* If calls are serialized, the process dies in one only for a missing     *)
(* first Start, a second Start, a service that lacks an interface, or      *)
(* net.Listen failing from outside                                         *)
(* (dubbo3_server.go:78, 255-258, 268-272, 300-303).                       *)
THEOREM CrashesAccounted == Spec => []CrashesExplained
<1>1. Init => CrashesExplained
  BY DEF Init, CrashesExplained
<1>2. TypeOK /\ ConcurrentInvariant /\ SerializedInvariant /\ CrashesExplained
        /\ [Next]_vars => CrashesExplained'
  BY NextExplained
<1> QED BY <1>1, <1>2, ConcurrentCorrect, SerializedCorrect, PTL DEF Spec

===============================================================================
