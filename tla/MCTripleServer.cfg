CONSTANTS
  greeterV1 = greeterV1
  greeterV2 = greeterV2
  userProvider = userProvider
  reflection = reflection
  greeterDesc = greeterDesc
  unaryDesc = unaryDesc
  reflectDesc = reflectDesc
  Callers = {c1}
  Keys = {greeterV1, greeterV2, reflection, userProvider}
  UnaryKeys = {userProvider}
  ReflectKey = reflection
  Misfits = {userProvider}
  Descs = {greeterDesc, unaryDesc, reflectDesc}
  DescOf <- MCDescOf
  MaxGen = 2
  Serialized = TRUE
  NoName = NoName
SPECIFICATION FairSpec
INVARIANTS InductiveInvariant ReflectionFollowsServer NoListenerLeak CrashesExplained
PROPERTIES ImplementsEndpoint RefreshLeadsToServing
CHECK_DEADLOCK FALSE
