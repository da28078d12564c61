CONSTANTS
  j1 = j1
  j2 = j2
  w1 = w1
  w2 = w2
  u1 = u1
  Jobs <- MCJobs
  Workers <- MCWorkers
  Users <- MCUsers
  Kind <- MCKind
  User <- MCUser
  Attempts = 2
  MaxStalled = 1
  MaxFaults = 2
  NoJob = NoJob
  NoWorker = NoWorker
SPECIFICATION Spec
INVARIANTS
  TypeOK
  CopiesAccounted
  NotGivenUpEarly
PROPERTIES
  KeepsDelivery
  DeletedGetsNoMail
  EveryJobSettles
CHECK_DEADLOCK FALSE
