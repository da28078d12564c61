CONSTANTS
  a = a
  b = b
  c = c
  d = d
  e = e
  Rows <- MCRows
  Ms <- MCMs
  Sub <- MCSub
  Limits <- MCLimits
  Null = Null
SPECIFICATION Spec
INVARIANTS
  TypeOK
  PagesInOrder
  OnlyBoundarySkipped
