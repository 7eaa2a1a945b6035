CONSTANTS
  user = user
  token = token
  s1 = s1
  s2 = s2
  c1 = c1
  c2 = c2
  c3 = c3
  c4 = c4
  l1 = l1
  l2 = l2
  l3 = l3
  l4 = l4
  r1 = r1
  r2 = r2
  r3 = r3
  None = None
  Requests = {r1, r2, r3}
  Owners = {user, token}
  Skus = {s1, s2}
  Carts = {c1, c2, c3, c4, c5}
  Lines = {l1, l2, l3, l4, l5, l6}
  Starts <- AfterLogin
  Jobs <- Shopping
SPECIFICATION FairSpec
INVARIANTS LinesAreSound
PROPERTIES AddCounts MergedOnce EveryRequestEnds
CHECK_DEADLOCK FALSE
