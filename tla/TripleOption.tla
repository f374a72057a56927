----------------------------- MODULE TripleOption -----------------------------
(***************************************************************************)
(* config.Option (pkg/config/config.go): the options NewTripleOption       *)
(* collects and validates, and what newGrpcServerWithCodec and             *)
(* NewTripleClient pass on to gRPC, transport credentials included. A      *)
(* value is "" for Go's zero value, "default" for the constant Validate    *)
(* puts in, or one of Values.                                              *)
(***************************************************************************)
EXTENDS Naturals

CONSTANTS
  Values,    \* values the application may give
  MaxFuncs   \* bound: how many option functions are passed, the files of
             \* ConfigureTLS counting as one

ASSUME OptionAssumption == /\ {"", "default", "never"} \cap Values = {}
                           /\ MaxFuncs \in Nat

zero == ""

(* Fields with a default, and fields that stay zero unless they are set.   *)
Defaulted == {"Timeout", "BufferSize", "Location", "Logger", "Protocol",
              "CodecType", "NumWorkers"}
Plain == {"SerializerTypeInWrapper", "HeaderGroup", "HeaderAppVersion",
          "GRPCMaxCallSendMsgSize", "GRPCMaxServerSendMsgSize",
          "GRPCMaxCallRecvMsgSize", "GRPCMaxServerRecvMsgSize",
          "GRPCKeepAliveTime", "GRPCKeepAliveTimeout", "JaegerAddress",
          "JaegerUseAgent", "ProxyModeEnable"}
Fields == Defaulted \cup Plain

(* Which field each option function writes: o.Timeout = timeout, and so    *)
(* on. WithJaegerConfig writes one for each of its parameters; the name    *)
(* under which a tracer reports is left out.                               *)
FieldOf ==
  [WithClientTimeout |-> "Timeout",
   WithBufferSize |-> "BufferSize",
   WithCodecType |-> "CodecType",
   WithProtocol |-> "Protocol",
   WithLocation |-> "Location",
   WithHeaderAppVersion |-> "HeaderAppVersion",
   WithHeaderGroup |-> "HeaderGroup",
   WithLogger |-> "Logger",
   WithSerializerTypeInWrapper |-> "SerializerTypeInWrapper",
   WithNumWorker |-> "NumWorkers",
   WithGRPCMaxCallSendMessageSize |-> "GRPCMaxCallSendMsgSize",
   WithGRPCMaxCallRecvMessageSize |-> "GRPCMaxCallRecvMsgSize",
   WithGRPCMaxServerSendMessageSize |-> "GRPCMaxServerSendMsgSize",
   WithGRPCMaxServerRecvMessageSize |-> "GRPCMaxServerRecvMsgSize",
   WithGRPCKeepAliveTimeInterval |-> "GRPCKeepAliveTime",
   WithGRPCKeepAliveTimeout |-> "GRPCKeepAliveTimeout",
   WithJaegerConfig_address |-> "JaegerAddress",
   WithJaegerConfig_useAgent |-> "JaegerUseAgent",
   WithProxyModeEnable |-> "ProxyModeEnable"]

Parameters == DOMAIN FieldOf

(* An option function is known by its parameters. *)
Jaeger == {"WithJaegerConfig_address", "WithJaegerConfig_useAgent"}
Functions == {{p} : p \in Parameters \ Jaeger} \cup {Jaeger}

(* CACertFile, TLSCertFile and TLSKeyFile, by what is behind the name. *)
TLSFiles == [{"ca", "cert", "key"} -> {zero, "unreadable", "malformed", "valid"}]
NoFiles == [f \in {"ca", "cert", "key"} |-> zero]

VARIABLES
  opt,         \* the Option
  tls,         \* the files of its TLS fields
  given,       \* what each option function was given when it was last used
  funcs,       \* how many functions have been applied
  stage,       \* "applying", "validated", "served", "done"
  serverOpts,  \* what the gRPC server is built with
  dialOpts     \* what the gRPC connection and its calls are made with

vars == <<opt, tls, given, funcs, stage, serverOpts, dialOpts>>

Never == "never"
Unbuilt == [trace |-> "", send |-> "", recv |-> "", keepAlive |-> <<>>,
            proxy |-> "", creds |-> ""]

AllValues == Values \cup {zero, "default"}

TypeOK ==
  /\ opt \in [Fields -> AllValues]
  /\ tls \in TLSFiles
  /\ given \in [Parameters -> Values \cup {zero, Never}]
  /\ funcs \in 0..MaxFuncs
  /\ stage \in {"applying", "validated", "served", "done"}
  /\ \A o \in {serverOpts, dialOpts} :
       /\ o.trace \in {"", "direct", "agent"}
       /\ o.creds \in {"", "plain", "tls", "mtls"}
       /\ {o.send, o.recv, o.proxy} \subseteq AllValues
       /\ o.keepAlive = <<>> \/ o.keepAlive \in Values \X Values

Init ==
  /\ opt = [f \in Fields |-> zero]
  /\ tls = NoFiles
  /\ given = [p \in Parameters |-> Never]
  /\ funcs = 0
  /\ stage = "applying"
  /\ serverOpts = Unbuilt
  /\ dialOpts = Unbuilt

-------------------------------------------------------------------------------
(* v(opt), one option function of the list. WithLogger wraps its argument, *)
(* so that the field is never nil.                                         *)

Arguments(fn) == [fn -> IF fn = {"WithLogger"} THEN Values
                        ELSE Values \cup {zero}]

Write(f, arg, fields) ==
  IF \E p \in DOMAIN arg : fields[p] = f
  THEN arg[CHOOSE p \in DOMAIN arg : fields[p] = f] ELSE opt[f]

WritesRecvLimitToSend(arg) ==
  opt' = [f \in Fields |-> Write(f, arg,
           [FieldOf EXCEPT
              !.WithGRPCMaxCallRecvMessageSize = "GRPCMaxCallSendMsgSize"])]

SetFields(arg) == opt' = [f \in Fields |-> Write(f, arg, FieldOf)]

Apply ==
  /\ stage = "applying" /\ funcs < MaxFuncs
  /\ funcs' = funcs + 1
  /\ \E fn \in Functions : \E arg \in Arguments(fn) :
       /\ SetFields(arg)
       /\ given' = [p \in Parameters |-> IF p \in fn THEN arg[p] ELSE given[p]]
  /\ UNCHANGED <<tls, stage, serverOpts, dialOpts>>

(* There is no option function for the TLS fields: the application writes  *)
(* them.                                                                   *)
ConfigureTLS ==
  /\ stage = "applying" /\ funcs < MaxFuncs /\ tls = NoFiles
  /\ funcs' = funcs + 1
  /\ tls' \in TLSFiles \ {NoFiles}
  /\ UNCHANGED <<opt, given, stage, serverOpts, dialOpts>>

(* opt.Validate(), after the last function. *)
Default(f, v) == IF f \in Defaulted /\ v = zero THEN "default" ELSE v

ValidateKeepsZeroWorkers ==
  /\ stage = "applying"
  /\ stage' = "validated"
  /\ opt' = [f \in Fields |-> IF f = "NumWorkers" THEN opt[f]
                              ELSE Default(f, opt[f])]
  /\ UNCHANGED <<tls, given, funcs, serverOpts, dialOpts>>

Validate ==
  /\ stage = "applying"
  /\ stage' = "validated"
  /\ opt' = [f \in Fields |-> Default(f, opt[f])]
  /\ UNCHANGED <<tls, given, funcs, serverOpts, dialOpts>>

-------------------------------------------------------------------------------
(* The files' use: credentials, nil or an error. A CA file without a       *)
(* certificate in it yields neither credentials nor an error.              *)

NoTLS == tls["cert"] = zero /\ tls["key"] = zero

LoadTLS ==
  IF tls["ca"] = "unreadable" THEN "error"
  ELSE IF tls["ca"] = "malformed" THEN "nil"
  ELSE IF {tls["cert"], tls["key"]} # {"valid"} THEN "error"
  ELSE IF tls["ca"] = zero THEN "tls" ELSE "mtls"

GetServerTlsCertificate == IF NoTLS THEN "nil" ELSE LoadTLS

IgnoresUnusableCA ==
  CASE NoTLS -> "nil"
    [] ~NoTLS /\ tls["ca"] # "valid" ->
         IF tls["cert"] = "valid" THEN "tls" ELSE "error"
    [] OTHER -> LoadTLS

(* A client without a CA trusts the certificate and needs no key. *)
GetClientTlsCertificate ==
  CASE NoTLS -> "nil"
    [] ~NoTLS /\ tls["ca"] = zero ->
         IF tls["cert"] = "valid" THEN "tls" ELSE "error"
    [] OTHER -> LoadTLS

(* gRPC's transport without credentials is plain, nil stands for the same. *)
Transport(creds) == IF creds \in {"nil", "error"} THEN "plain" ELSE creds

(* NewJaegerTracerDirect or NewJaegerTracerAgent, of either side. *)
ServerTracer == IF opt["JaegerAddress"] = zero THEN "" ELSE "direct"

ClientTracer == IF opt["JaegerAddress"] # zero /\ opt["JaegerUseAgent"] # zero
                THEN "agent" ELSE ServerTracer

-------------------------------------------------------------------------------
(* newGrpcServerWithCodec. It has no use for JaegerUseAgent, and limits    *)
(* what the server sends by the limit for calls. An error of the TLS files *)
(* is logged and the server goes on without.                               *)
NewGrpcServer ==
  /\ stage = "validated"
  /\ stage' = "served"
  /\ serverOpts' = [trace |-> ServerTracer,
                    send |-> opt["GRPCMaxCallSendMsgSize"],
                    recv |-> opt["GRPCMaxServerRecvMsgSize"],
                    keepAlive |-> <<>>,
                    proxy |-> opt["ProxyModeEnable"],
                    creds |-> Transport(GetServerTlsCertificate)]
  /\ UNCHANGED <<opt, tls, given, funcs, dialOpts>>

KeepAliveIfEitherIsSet ==
  IF opt["GRPCKeepAliveTime"] # zero \/ opt["GRPCKeepAliveTimeout"] # zero
  THEN <<opt["GRPCKeepAliveTime"], opt["GRPCKeepAliveTimeout"]>> ELSE <<>>

(* keepalive.ClientParameters: time and timeout, if both are there. *)
KeepAlive ==
  IF opt["GRPCKeepAliveTime"] # zero /\ opt["GRPCKeepAliveTimeout"] # zero
  THEN <<opt["GRPCKeepAliveTime"], opt["GRPCKeepAliveTimeout"]>> ELSE <<>>

(* NewTripleClient returns the error if there is one, and no client.       *)
NewDialOptions ==
  /\ stage = "served" /\ GetClientTlsCertificate # "error"
  /\ stage' = "done"
  /\ dialOpts' = [trace |-> ClientTracer,
                  send |-> opt["GRPCMaxCallSendMsgSize"],
                  recv |-> opt["GRPCMaxCallRecvMsgSize"],
                  keepAlive |-> KeepAlive,
                  proxy |-> "",
                  creds |-> Transport(GetClientTlsCertificate)]
  /\ UNCHANGED <<opt, tls, given, funcs, serverOpts>>

Next == Apply \/ ConfigureTLS \/ Validate \/ NewGrpcServer \/ NewDialOptions

Spec == Init /\ [][Next]_vars

-------------------------------------------------------------------------------
(* What the application has asked for with an option function: what that   *)
(* was given last, or zero.                                                *)
Asked(p) == IF given[p] = Never THEN zero ELSE given[p]

(* The function that is there to set a field, by its name and its comment. *)
SetterOf ==
  [Timeout |-> "WithClientTimeout",
   BufferSize |-> "WithBufferSize",
   Location |-> "WithLocation",
   Logger |-> "WithLogger",
   Protocol |-> "WithProtocol",
   CodecType |-> "WithCodecType",
   NumWorkers |-> "WithNumWorker",
   SerializerTypeInWrapper |-> "WithSerializerTypeInWrapper",
   HeaderGroup |-> "WithHeaderGroup",
   HeaderAppVersion |-> "WithHeaderAppVersion",
   GRPCMaxCallSendMsgSize |-> "WithGRPCMaxCallSendMessageSize",
   GRPCMaxServerSendMsgSize |-> "WithGRPCMaxServerSendMessageSize",
   GRPCMaxCallRecvMsgSize |-> "WithGRPCMaxCallRecvMessageSize",
   GRPCMaxServerRecvMsgSize |-> "WithGRPCMaxServerRecvMessageSize",
   GRPCKeepAliveTime |-> "WithGRPCKeepAliveTimeInterval",
   GRPCKeepAliveTimeout |-> "WithGRPCKeepAliveTimeout",
   JaegerAddress |-> "WithJaegerConfig_address",
   JaegerUseAgent |-> "WithJaegerConfig_useAgent",
   ProxyModeEnable |-> "WithProxyModeEnable"]

(* Fields that client and server use as they are, zero or not. *)
UsedUnchecked == {"Timeout", "Location", "Logger", "CodecType"}

(* "NewTripleOption return Triple Option with given config defined by @fs" *)
(* (config.go:110) and "Validate sets empty field to default config"       *)
(* (config.go:76): functions may repeat and come in any order, a field     *)
(* ends up with what its own function was given last, no function disturbs *)
(* the field of another, and no field is empty that is used unchecked      *)
(* (config.go:77-224, dubbo3_client.go:126, dubbo3_server.go:255).         *)
LastFunctionWins ==
  stage # "applying" =>
    /\ \A f \in Fields : LET asked == Asked(SetterOf[f]) IN
         IF asked # zero THEN opt[f] = asked ELSE opt[f] \in {zero, "default"}
    /\ \A f \in UsedUnchecked : opt[f] # zero

(* The limits and the keep-alive a client is given by its option functions *)
(* reach its connection, the keep-alive as a pair or not at all, and the   *)
(* receive limit of a server its gRPC server (config.go:190-220,           *)
(* dubbo3_client.go:105-121, dubbo3_server.go:213-215).                    *)
ClientLimitsHonoured ==
  LET time == Asked("WithGRPCKeepAliveTimeInterval")
      timeout == Asked("WithGRPCKeepAliveTimeout")
  IN stage = "done" =>
       /\ dialOpts.send = Asked("WithGRPCMaxCallSendMessageSize")
       /\ dialOpts.recv = Asked("WithGRPCMaxCallRecvMessageSize")
       /\ serverOpts.recv = Asked("WithGRPCMaxServerRecvMessageSize")
       /\ dialOpts.keepAlive = IF zero \in {time, timeout} THEN <<>>
                               ELSE <<time, timeout>>

(* Client and server of one Option speak the same transport, although each *)
(* works it out on its own from the files, unless the server has logged or *)
(* NewTripleClient has returned an error (dubbo3_server.go:224-232,        *)
(* dubbo3_client.go:96-103).                                               *)
TransportsAgree ==
  stage = "done" /\ GetServerTlsCertificate # "error" =>
    serverOpts.creds = dialOpts.creds

(* What the fields, and what is built from them, owe to the functions      *)
(* given, at every stage (config.go:76-118, dubbo3_server.go:213-232,      *)
(* dubbo3_client.go:96-121).                                               *)
GivenPart ==
  \A f \in Fields :
    opt[f] = IF stage = "applying" THEN Asked(SetterOf[f])
             ELSE Default(f, Asked(SetterOf[f]))

ServerPart ==
  stage \in {"served", "done"} =>
    /\ serverOpts.recv = opt["GRPCMaxServerRecvMsgSize"]
    /\ serverOpts.creds = Transport(GetServerTlsCertificate)

ClientPart ==
  stage = "done" =>
    /\ GetClientTlsCertificate # "error"
    /\ dialOpts.creds = Transport(GetClientTlsCertificate)
    /\ dialOpts.send = opt["GRPCMaxCallSendMsgSize"]
    /\ dialOpts.recv = opt["GRPCMaxCallRecvMsgSize"]
    /\ dialOpts.keepAlive = KeepAlive

OptionInvariant == GivenPart /\ ServerPart /\ ClientPart

(* Fields, server options and dial options, well typed and owed to the     *)
(* functions given so far and the files named, at every stage              *)
(* (config.go:76-118, dubbo3_server.go:205-240, dubbo3_client.go:90-121).  *)
InductiveInvariant == TypeOK /\ OptionInvariant

(* The option "GRPCMaxServerSendMsgSize" (config.go:50), set by            *)
(* WithGRPCMaxServerSendMessageSize (config.go:202), limits what a server  *)
(* sends.                                                                  *)
ServerSendLimitHonoured ==
  stage \in {"served", "done"} =>
    serverOpts.send = Asked("WithGRPCMaxServerSendMessageSize")

===============================================================================
