CONSTANTS
  r1 = r1
  r2 = r2
  r3 = r3
  u1 = u1
  Users <- MCUsers
  Requests <- MCRequests
  Kind <- MCKind
  User <- MCUser
  Cooldown = 2
  MaxTime = 4
  Never = Never
  Null = Null
SPECIFICATION Spec
INVARIANT
  OneMailPerCooldown
CHECK_DEADLOCK FALSE
