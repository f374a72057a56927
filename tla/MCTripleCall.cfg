CONSTANTS
  c1 = c1
  f1 = f1
  Calls = {c1}
  Keys = {"greeter"}
  MaxGen = 2
  CodecTypes = {"hessian2", "jsonMapStruct", "protobuf"}
  Factories = {f1}
SPECIFICATION FairSpec
INVARIANTS InductiveInvariant RefreshHealsCodec
PROPERTIES ImplementsRemoteCall NoStreamStranded
CHECK_DEADLOCK FALSE
