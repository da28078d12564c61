CONSTANTS
  a = a
  b = b
  c = c
  d = d
  Users = {a, b, c, d}
  CreatedAt <- MCCreatedAt
  PageLimits <- MCLimits
  Starts <- MCStarts
SPECIFICATION PagesSpec
INVARIANTS
  PagesTypeOK
  ListingIsTrue
CHECK_DEADLOCK FALSE
