CONSTANTS
  o1 = o1
  s1 = s1
  None = None
  Orders = {o1}
  Workers = {w1, w2}
  Skus = {s1}
  Items <- OneUnitEach
  MethodOf <- OneCard
  StartQty <- TwoUnits
  Moves <- Closing
  MaxFaults = 1
SPECIFICATION FairSpec
PROPERTIES OrdersSettle
CHECK_DEADLOCK FALSE
