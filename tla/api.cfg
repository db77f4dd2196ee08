SPECIFICATION ApiSpec
CONSTANTS
  None = None
  o1 = o1
  o2 = o2
  p1 = p1
  p2 = p2
  p3 = p3
  y3 = y3
  y1 = y1
  y2 = y2
  q1 = q1
  q2 = q2
  u1 = u1
  u3 = u3
  n1 = n1
  n2 = n2
  c1 = c1
  c2 = c2
  s1 = s1
  s2 = s2
  k1 = k1
  k2 = k2
  User = {u1, u3}
  Caller = {u1}
  Org = {o1, o2}
  Project = {p1, p2, p3}
  Policy = {y1, y2, y3}
  Queue = {q1, q2}
  Client = {c1, c2}
  Name = {n1, n2}
  Delay = {1, 2}
  MaxTries = 2
  MaxCalls = 2
  StartRow <- MCStartRow
  StartRole <- MCStartRole
  Row <- Rows
  Time <- RowTime
  Id <- RowId
  Asked <- Limits
  DefaultLimit = 2
  MaxLimit = 3
SYMMETRY Alike
CHECK_DEADLOCK FALSE
INVARIANTS PagingSafe TenancySafe  SummariesSafe
