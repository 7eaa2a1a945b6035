CONSTANTS
  o1 = o1
  s1 = s1
  None = None
  Orders = {o1}
  Workers = {w1, w2, w3}
  Skus = {s1}
  Items <- OneUnitEach
  MethodOf <- OneCard
  StartQty <- TwoUnits
  Moves <- CancelOnly
  MaxFaults = 0
SPECIFICATION Spec
PROPERTY PaymentTerminalStable
CHECK_DEADLOCK FALSE
