CONSTANTS
  r1 = r1
  r2 = r2
  r3 = r3
  r4 = r4
  u1 = u1
  u2 = u2
  n1 = n1
  n2 = n2
  n3 = n3
  n4 = n4
  Users <- MCUsers
  Requests <- MCRequests
  Op <- MCOp
  Caller <- MCCaller
  Target <- MCTarget
  Usernames <- MCUsernames
  Asked <- MCAsked
  Lower <- MCLower
  First <- MCFirst
  Status = Status
  Null = Null
SPECIFICATION Spec
INVARIANT
  MutationAnswersUser
CHECK_DEADLOCK FALSE
