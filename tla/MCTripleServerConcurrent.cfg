CONSTANTS
  greeterV1 = greeterV1
  greeterV2 = greeterV2
  userProvider = userProvider
  reflection = reflection
  greeterDesc = greeterDesc
  unaryDesc = unaryDesc
  reflectDesc = reflectDesc
  Callers = {c1, c2}
  Keys = {greeterV1, greeterV2, userProvider}
  UnaryKeys = {userProvider}
  ReflectKey = reflection
  Misfits = {}
  Descs = {greeterDesc, unaryDesc, reflectDesc}
  DescOf <- MCDescOf
  MaxGen = 2
  Serialized = FALSE
  NoName = NoName
SPECIFICATION Spec
INVARIANTS InductiveInvariant MixUpsStayInDescriptor LossesStayInDescriptor StoppedServerIsEmpty
SYMMETRY Greeters
CHECK_DEADLOCK FALSE
