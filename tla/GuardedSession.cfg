CONSTANTS
  Requests = {r1, r2}
  Clients = {c1, c2}
  Proxy = p
  Limit = 1
  Files = {f1, f2}
  Offers <- MCOffers
  None = None
  r1 = r1
  r2 = r2
  c1 = c1
  c2 = c2
  p = p
  f1 = f1
  f2 = f2
SPECIFICATION Spec
INVARIANT
  GuardedIsAuthenticated
CHECK_DEADLOCK FALSE
