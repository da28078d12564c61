CONSTANT
  Settings <- MCSettings
SPECIFICATION Spec
INVARIANTS
  TypeOK
  RoleIsWhole
  LateFailureIsKnown
  ServesConfigured
