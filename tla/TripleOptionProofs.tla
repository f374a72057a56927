-------------------------- MODULE TripleOptionProofs --------------------------
(***************************************************************************)
(* Proofs about config.Option, for any values and any number of option     *)
(* functions: TypeOK first, which needs the invariant for the keep-alive   *)
(* pair, then the invariant, then what it says of the finished options.    *)
(***************************************************************************)
EXTENDS TripleOption, TLAPS

(* Each function writes the field it is there to set, and is the only one  *)
(* to write it: config.go:120-238 against the names of the fields.         *)
LEMMA Setters ==
  \A f \in Fields :
    /\ SetterOf[f] \in Parameters
    /\ \A p \in Parameters : FieldOf[p] = f <=> p = SetterOf[f]
<1>1. ASSUME NEW f \in Fields, NEW p \in Parameters
      PROVE  SetterOf[f] \in Parameters /\ (FieldOf[p] = f <=> p = SetterOf[f])
  BY DEF Fields, Defaulted, Plain, Parameters, FieldOf, SetterOf
<1>2. Parameters # {}
  BY DEF Parameters, FieldOf
<1> QED BY <1>1, <1>2

LEMMA FunctionsParameters ==
  ASSUME NEW fn \in Functions
  PROVE  fn \subseteq Parameters
<1>1. Jaeger \subseteq Parameters
  BY DEF Jaeger, Parameters, FieldOf
<1> QED BY <1>1 DEF Functions

(* One option function: its arguments go to the fields it is for, and no   *)
(* other field changes.                                                    *)
LEMMA ApplyEffect ==
  ASSUME TypeOK, Apply
  PROVE  \E fn \in SUBSET Parameters : \E arg \in [fn -> Values \cup {zero}] :
           /\ opt' = [f \in Fields |-> IF SetterOf[f] \in fn
                                       THEN arg[SetterOf[f]] ELSE opt[f]]
           /\ given' = [p \in Parameters |-> IF p \in fn THEN arg[p] ELSE given[p]]
<1>1. PICK fn \in Functions : \E arg \in Arguments(fn) :
        /\ SetFields(arg)
        /\ given' = [p \in Parameters |-> IF p \in fn THEN arg[p] ELSE given[p]]
  BY DEF Apply
<1>2. PICK arg \in Arguments(fn) :
        /\ SetFields(arg)
        /\ given' = [p \in Parameters |-> IF p \in fn THEN arg[p] ELSE given[p]]
  BY <1>1
<1>3. fn \in SUBSET Parameters
  BY FunctionsParameters
<1>4. arg \in [fn -> Values \cup {zero}]
  BY DEF Arguments
<1>5. ASSUME NEW f \in Fields
      PROVE  Write(f, arg, FieldOf) = IF SetterOf[f] \in fn
                                      THEN arg[SetterOf[f]] ELSE opt[f]
  <2>1. \A p \in fn : FieldOf[p] = f <=> p = SetterOf[f]
    BY <1>3, Setters
  <2>2. DOMAIN arg = fn
    BY <1>4
  <2>3. CASE SetterOf[f] \in fn
    <3>1. (CHOOSE p \in DOMAIN arg : FieldOf[p] = f) = SetterOf[f]
      BY <2>1, <2>2, <2>3
    <3>2. \E p \in DOMAIN arg : FieldOf[p] = f
      BY <2>1, <2>2, <2>3
    <3> QED BY <2>3, <3>1, <3>2 DEF Write
  <2>4. CASE SetterOf[f] \notin fn
    <3>1. ~\E p \in DOMAIN arg : FieldOf[p] = f
      BY <2>1, <2>2, <2>4
    <3> QED BY <2>4, <3>1 DEF Write
  <2> QED BY <2>3, <2>4
<1>6. opt' = [f \in Fields |-> IF SetterOf[f] \in fn
                              THEN arg[SetterOf[f]] ELSE opt[f]]
  BY <1>2, <1>5 DEF SetFields
<1> QED BY <1>2, <1>3, <1>4, <1>6

(* Fields without a default hold what was asked for; all are typed. *)
LEMMA FieldValues ==
  ASSUME TypeOK, GivenPart, stage # "applying"
  PROVE  /\ \A f \in Fields : opt[f] \in AllValues
         /\ \A f \in Plain : /\ opt[f] = Asked(SetterOf[f])
                             /\ opt[f] \in Values \cup {zero}
<1>1. \A f \in Fields : opt[f] \in AllValues
  BY DEF TypeOK
<1>2. Plain \subseteq Fields /\ \A f \in Plain : f \notin Defaulted
  BY DEF Plain, Defaulted, Fields
<1>3. \A f \in Plain : opt[f] = Asked(SetterOf[f])
  BY <1>2 DEF GivenPart, Default
<1>4. \A p \in Parameters : Asked(p) \in Values \cup {zero}
  BY DEF Asked, TypeOK
<1>5. \A f \in Plain : SetterOf[f] \in Parameters
  BY <1>2, Setters
<1> QED BY <1>1, <1>3, <1>4, <1>5

(* Only the fields and the stage count, and the files once they are used. *)
LEMMA SameAsked ==
  ASSUME UNCHANGED given
  PROVE  \A p : Asked(p)' = Asked(p)
BY DEF Asked

LEMMA SameFiles ==
  ASSUME UNCHANGED tls
  PROVE  /\ GetServerTlsCertificate' = GetServerTlsCertificate
         /\ GetClientTlsCertificate' = GetClientTlsCertificate
BY DEF GetServerTlsCertificate, GetClientTlsCertificate, LoadTLS, NoTLS

LEMMA Certificates ==
  /\ GetServerTlsCertificate \in {"nil", "error", "tls", "mtls"}
  /\ GetClientTlsCertificate \in {"nil", "error", "tls", "mtls"}
  /\ Transport(GetServerTlsCertificate) \in {"plain", "tls", "mtls"}
  /\ Transport(GetClientTlsCertificate) \in {"plain", "tls", "mtls"}
BY DEF GetServerTlsCertificate, GetClientTlsCertificate, LoadTLS, Transport

LEMMA OneMore ==
  ASSUME TypeOK, funcs < MaxFuncs
  PROVE  funcs + 1 \in 0..MaxFuncs
<1>1. funcs \in 0..MaxFuncs
  BY DEF TypeOK
<1>2. MaxFuncs \in Nat
  BY OptionAssumption
<1> QED BY <1>1, <1>2

LEMMA InitOption == Init => TypeOK /\ OptionInvariant
<1> SUFFICES ASSUME Init PROVE TypeOK /\ OptionInvariant
  OBVIOUS
<1>1. TypeOK
  <2>0. MaxFuncs \in Nat
    BY OptionAssumption
  <2>1. 0 \in 0..MaxFuncs
    BY <2>0
  <2>2. NoFiles \in TLSFiles
    BY DEF NoFiles, TLSFiles
  <2>3. /\ Unbuilt.trace = "" /\ Unbuilt.creds = "" /\ Unbuilt.keepAlive = <<>>
        /\ {Unbuilt.send, Unbuilt.recv, Unbuilt.proxy} \subseteq AllValues
    <3>1. /\ Unbuilt.trace = "" /\ Unbuilt.creds = "" /\ Unbuilt.send = zero
          /\ Unbuilt.recv = zero /\ Unbuilt.proxy = zero
      BY DEF Unbuilt, zero
    <3>2. Unbuilt.keepAlive = <<>>
      BY DEF Unbuilt
    <3> QED BY <3>1, <3>2 DEF AllValues
  <2>4. /\ opt \in [Fields -> AllValues]
        /\ given \in [Parameters -> Values \cup {zero, Never}]
    BY DEF Init, AllValues
  <2> QED BY <2>1, <2>2, <2>3, <2>4 DEF Init, TypeOK
<1>2. OptionInvariant
  <2>1. \A f \in Fields : opt[f] = Asked(SetterOf[f])
    BY Setters DEF Init, Asked
  <2> QED BY <2>1 DEF Init, OptionInvariant, GivenPart, ServerPart, ClientPart
<1> QED BY <1>1, <1>2

LEMMA NextOption ==
  TypeOK /\ OptionInvariant /\ [Next]_vars => (TypeOK /\ OptionInvariant)'
<1> SUFFICES ASSUME TypeOK, OptionInvariant, [Next]_vars
             PROVE  (TypeOK /\ OptionInvariant)'
  OBVIOUS
<1>0. GivenPart /\ ServerPart /\ ClientPart
  BY DEF OptionInvariant
<1>1. CASE Apply
  <2>0. PICK fn \in SUBSET Parameters : \E arg \in [fn -> Values \cup {zero}] :
          /\ opt' = [f \in Fields |-> IF SetterOf[f] \in fn
                                      THEN arg[SetterOf[f]] ELSE opt[f]]
          /\ given' = [p \in Parameters |-> IF p \in fn THEN arg[p] ELSE given[p]]
    BY <1>1, ApplyEffect
  <2>1. PICK arg \in [fn -> Values \cup {zero}] :
          /\ opt' = [f \in Fields |-> IF SetterOf[f] \in fn
                                      THEN arg[SetterOf[f]] ELSE opt[f]]
          /\ given' = [p \in Parameters |-> IF p \in fn THEN arg[p] ELSE given[p]]
    BY <2>0
  <2>2. /\ stage = "applying" /\ funcs < MaxFuncs /\ funcs' = funcs + 1
        /\ UNCHANGED <<tls, stage, serverOpts, dialOpts>>
    BY <1>1 DEF Apply
  <2>3. opt' \in [Fields -> AllValues]
        /\ given' \in [Parameters -> Values \cup {zero, Never}]
    BY <2>1 DEF TypeOK, AllValues
  <2>4. funcs' \in 0..MaxFuncs
    BY <2>2, OneMore
  <2>5. TypeOK'
    BY <2>2, <2>3, <2>4 DEF TypeOK
  <2>6. GivenPart'
    <3> SUFFICES ASSUME NEW f \in Fields
                 PROVE  opt'[f] = IF given'[SetterOf[f]] = Never THEN zero
                                  ELSE given'[SetterOf[f]]
      BY <2>2 DEF GivenPart, Asked
    <3>0. SetterOf[f] \in Parameters
      BY Setters
    <3>1. CASE SetterOf[f] \in fn
      <4>1. /\ arg[SetterOf[f]] \in Values \cup {zero}
            /\ Never \notin Values \cup {zero}
        BY <3>1, OptionAssumption DEF Never, zero
      <4> QED BY <2>1, <3>0, <3>1, <4>1
    <3>2. CASE SetterOf[f] \notin fn
      BY <1>0, <2>1, <2>2, <3>0, <3>2 DEF GivenPart, Asked
    <3> QED BY <3>1, <3>2
  <2>7. ServerPart' /\ ClientPart'
    BY <2>2 DEF ServerPart, ClientPart
  <2> QED BY <2>5, <2>6, <2>7 DEF OptionInvariant
<1>2. CASE ConfigureTLS
  <2>1. /\ stage = "applying" /\ funcs < MaxFuncs /\ funcs' = funcs + 1
        /\ tls' \in TLSFiles
        /\ UNCHANGED <<opt, given, stage, serverOpts, dialOpts>>
    BY <1>2 DEF ConfigureTLS
  <2>2. funcs' \in 0..MaxFuncs
    BY <2>1, OneMore
  <2>4. TypeOK'
    BY <2>1, <2>2 DEF TypeOK
  <2>3. GivenPart' /\ ServerPart' /\ ClientPart'
    BY <1>0, <2>1 DEF GivenPart, ServerPart, ClientPart, Asked
  <2> QED BY <2>3, <2>4 DEF OptionInvariant
<1>3. CASE Validate
  <2>1. /\ stage = "applying" /\ stage' = "validated"
        /\ opt' = [f \in Fields |-> Default(f, opt[f])]
        /\ UNCHANGED <<tls, given, funcs, serverOpts, dialOpts>>
    BY <1>3 DEF Validate
  <2>2. TypeOK'
    BY <2>1 DEF TypeOK, Default, AllValues
  <2>3. GivenPart'
    BY <1>0, <2>1 DEF GivenPart, Asked
  <2>4. ServerPart' /\ ClientPart'
    BY <2>1 DEF ServerPart, ClientPart
  <2> QED BY <2>2, <2>3, <2>4 DEF OptionInvariant
<1>4. CASE NewGrpcServer
  <2>1. /\ stage = "validated" /\ stage' = "served"
        /\ UNCHANGED <<opt, tls, given, funcs, dialOpts>>
        /\ serverOpts'.trace = ServerTracer
        /\ serverOpts'.send = opt["GRPCMaxCallSendMsgSize"]
        /\ serverOpts'.recv = opt["GRPCMaxServerRecvMsgSize"]
        /\ serverOpts'.keepAlive = <<>>
        /\ serverOpts'.proxy = opt["ProxyModeEnable"]
        /\ serverOpts'.creds = Transport(GetServerTlsCertificate)
    BY <1>4 DEF NewGrpcServer
  <2>2. /\ {"GRPCMaxCallSendMsgSize", "GRPCMaxServerRecvMsgSize",
            "ProxyModeEnable"} \subseteq Fields
        /\ \A f \in Fields : opt[f] \in AllValues
    BY <1>0, <2>1, FieldValues DEF Fields, Plain
  <2>3. ServerTracer \in {"", "direct", "agent"}
    BY DEF ServerTracer
  <2>4. TypeOK'
    <3>1. /\ serverOpts'.creds \in {"", "plain", "tls", "mtls"}
          /\ {serverOpts'.send, serverOpts'.recv, serverOpts'.proxy}
               \subseteq AllValues
      BY <2>1, <2>2, Certificates
    <3> QED BY <2>1, <2>3, <3>1 DEF TypeOK
  <2>5. GivenPart' /\ ServerPart' /\ ClientPart'
    BY <1>0, <2>1, <2>2, SameAsked, SameFiles DEF GivenPart, ServerPart, ClientPart
  <2> QED BY <2>4, <2>5 DEF OptionInvariant
<1>5. CASE NewDialOptions
  <2> DEFINE time == opt["GRPCKeepAliveTime"]
             timeout == opt["GRPCKeepAliveTimeout"]
  <2>1. /\ stage = "served" /\ stage' = "done"
        /\ GetClientTlsCertificate # "error"
        /\ UNCHANGED <<opt, tls, given, funcs, serverOpts>>
        /\ dialOpts'.trace = ClientTracer
        /\ dialOpts'.send = opt["GRPCMaxCallSendMsgSize"]
        /\ dialOpts'.recv = opt["GRPCMaxCallRecvMsgSize"]
        /\ dialOpts'.keepAlive = KeepAlive
        /\ dialOpts'.proxy = ""
        /\ dialOpts'.creds = Transport(GetClientTlsCertificate)
    BY <1>5 DEF NewDialOptions
  <2>2. /\ {"GRPCMaxCallSendMsgSize", "GRPCMaxCallRecvMsgSize"} \subseteq Fields
        /\ \A f \in Fields : opt[f] \in AllValues
        /\ time \in Values \cup {zero} /\ timeout \in Values \cup {zero}
    BY <1>0, <2>1, FieldValues DEF Fields, Plain
  <2>3. ClientTracer \in {"", "direct", "agent"}
    BY DEF ClientTracer, ServerTracer
  <2>4. TypeOK'
    <3>1. /\ dialOpts'.creds \in {"", "plain", "tls", "mtls"}
          /\ {dialOpts'.send, dialOpts'.recv, dialOpts'.proxy} \subseteq AllValues
      BY <2>1, <2>2, Certificates DEF AllValues, zero
    <3>2. dialOpts'.keepAlive = <<>> \/ dialOpts'.keepAlive \in Values \X Values
      <4>1. CASE time # zero /\ timeout # zero
        <5>1. time \in Values /\ timeout \in Values
          BY <2>2, <4>1
        <5>2. dialOpts'.keepAlive = <<time, timeout>>
          BY <2>1, <4>1 DEF KeepAlive
        <5> HIDE DEF time, timeout
        <5> QED BY <5>1, <5>2
      <4>2. CASE ~(time # zero /\ timeout # zero)
        BY <2>1, <4>2 DEF KeepAlive
      <4> QED BY <4>1, <4>2
    <3> QED BY <2>1, <2>3, <3>1, <3>2 DEF TypeOK
  <2>5. GivenPart' /\ ServerPart' /\ ClientPart'
    BY <1>0, <2>1, <2>2, SameAsked, SameFiles DEF GivenPart, ServerPart, ClientPart,
       KeepAlive
  <2> QED BY <2>4, <2>5 DEF OptionInvariant
<1>6. CASE UNCHANGED vars
  <2>1. UNCHANGED <<opt, tls, given, funcs, stage, serverOpts, dialOpts>>
    BY <1>6 DEF vars
  <2>2. TypeOK'
    BY <2>1 DEF TypeOK
  <2>3. GivenPart' /\ ServerPart' /\ ClientPart'
    BY <1>0, <2>1, SameAsked, SameFiles DEF GivenPart, ServerPart, ClientPart,
       KeepAlive
  <2> QED BY <2>2, <2>3 DEF OptionInvariant
<1> QED BY <1>1, <1>2, <1>3, <1>4, <1>5, <1>6 DEF Next

-------------------------------------------------------------------------------
(* Fields, server options and dial options follow the functions given, at  *)
(* every stage and for any list of functions (config.go:76-118).           *)
THEOREM OptionsCorrect == Spec => []InductiveInvariant
<1>1. Init => InductiveInvariant
  BY InitOption DEF InductiveInvariant
<1>2. InductiveInvariant /\ [Next]_vars => InductiveInvariant'
  BY NextOption DEF InductiveInvariant
<1> QED BY <1>1, <1>2, PTL DEF Spec

(* The Option and what is built from it are well formed at all times; a    *)
(* keep-alive pair never holds a zero or a default.                        *)
THEOREM TypeCorrect == Spec => []TypeOK
BY OptionsCorrect, PTL DEF InductiveInvariant

(* For any list of option functions, each field ends up with what its own  *)
(* function was given last, whatever the others were given, and none is    *)
(* empty that is used unchecked (config.go:76-118, 120-238).               *)
THEOREM LastWins == Spec => []LastFunctionWins
<1>1. ASSUME TypeOK, OptionInvariant, stage # "applying"
      PROVE  LastFunctionWins
  <2>1. ASSUME NEW f \in Fields
        PROVE  IF Asked(SetterOf[f]) # zero THEN opt[f] = Asked(SetterOf[f])
               ELSE opt[f] \in {zero, "default"}
    BY <1>1 DEF OptionInvariant, GivenPart, Default
  <2>2. UsedUnchecked \subseteq Fields /\ UsedUnchecked \subseteq Defaulted
    BY DEF UsedUnchecked, Fields, Defaulted
  <2>3. \A f \in UsedUnchecked : opt[f] # zero
    BY <1>1, <2>2 DEF OptionInvariant, GivenPart, Default, zero
  <2> QED BY <2>1, <2>3 DEF LastFunctionWins
<1>2. TypeOK /\ OptionInvariant => LastFunctionWins
  BY <1>1 DEF LastFunctionWins
<1> QED BY <1>2, OptionsCorrect, PTL DEF InductiveInvariant

(* Limits and keep-alive reach the connection as they were given to their  *)
(* functions, time and timeout together and in that order or not at all    *)
(* (dubbo3_client.go:105-121, dubbo3_server.go:213-215).                   *)
THEOREM LimitsHonoured == Spec => []ClientLimitsHonoured
<1>1. ASSUME TypeOK, OptionInvariant, stage = "done"
      PROVE  ClientLimitsHonoured
  <2> DEFINE time == Asked("WithGRPCKeepAliveTimeInterval")
             timeout == Asked("WithGRPCKeepAliveTimeout")
  <2>1. \A f \in Plain : opt[f] = Asked(SetterOf[f])
    BY <1>1, FieldValues DEF OptionInvariant
  <2>2. /\ opt["GRPCMaxCallSendMsgSize"] = Asked("WithGRPCMaxCallSendMessageSize")
        /\ opt["GRPCMaxCallRecvMsgSize"] = Asked("WithGRPCMaxCallRecvMessageSize")
        /\ opt["GRPCMaxServerRecvMsgSize"]
             = Asked("WithGRPCMaxServerRecvMessageSize")
        /\ opt["GRPCKeepAliveTime"] = time
        /\ opt["GRPCKeepAliveTimeout"] = timeout
    BY <2>1 DEF Plain, SetterOf
  <2>3. KeepAlive = IF zero \in {time, timeout} THEN <<>> ELSE <<time, timeout>>
    BY <2>2 DEF KeepAlive
  <2> QED BY <1>1, <2>2, <2>3
          DEF OptionInvariant, ServerPart, ClientPart, ClientLimitsHonoured
<1>2. TypeOK /\ OptionInvariant => ClientLimitsHonoured
  BY <1>1 DEF ClientLimitsHonoured
<1> QED BY <1>2, OptionsCorrect, PTL DEF InductiveInvariant

(* Client and server of one Option agree on the transport unless an error  *)
(* was logged or returned (dubbo3_server.go:224-232,                       *)
(* dubbo3_client.go:96-103).                                               *)
THEOREM SameTransport == Spec => []TransportsAgree
<1>1. ASSUME TypeOK, GetClientTlsCertificate # "error",
             GetServerTlsCertificate # "error"
      PROVE  GetClientTlsCertificate = GetServerTlsCertificate
  BY <1>1 DEF GetClientTlsCertificate, GetServerTlsCertificate, LoadTLS, NoTLS,
              TypeOK, TLSFiles, zero
<1>2. TypeOK /\ OptionInvariant => TransportsAgree
  BY <1>1 DEF OptionInvariant, ServerPart, ClientPart, TransportsAgree
<1> QED BY <1>2, OptionsCorrect, PTL DEF InductiveInvariant

===============================================================================
