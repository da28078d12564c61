CONSTANTS
  s1 = s1
  s2 = s2
  s3 = s3
  u1 = u1
  u2 = u2
  p1 = p1
  p2 = p2
  Sockets <- MCSockets
  Users <- MCUsers
  Servers <- MCServers
  User <- MCUser
  Host <- MCHost
SPECIFICATION Spec
INVARIANTS
  TypeOK
  OpenSocketReached
  GhostHasCause
  SentToOwnOpenSockets
PROPERTY
  ConnectedGetsListed
CHECK_DEADLOCK FALSE
