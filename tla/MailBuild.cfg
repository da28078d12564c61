CONSTANTS
  t1 = t1
  Templates <- MCTemplates
  Slots <- MCSlots
  Broken <- MCBroken
  MaxEdits = 4
  Absent = Absent
  Old = Old
  Empty = Empty
  Torn = Torn
  Idle = Idle
SPECIFICATION Spec
INVARIANTS
  TypeOK
  FreshAtRest
  TornNeedsOverlap
  EmptyIsBeingWritten
PROPERTY
  ComesToRest
CHECK_DEADLOCK FALSE
