CONSTANTS
  o1 = o1
  s1 = s1
  None = None
  Orders = {o1}
  Workers = {w1, w2, w3}
  Skus = {s1}
  Items <- OneUnitEach
  MethodOf <- OneCard
  StartQty <- TwoUnits
  Moves <- AllAxes
  MaxFaults = 1
SYMMETRY RaceSymmetry
SPECIFICATION Spec
INVARIANTS TypeOK RecordsAgree RefundedOncePerFault LostReturnsAreFaults
PROPERTIES LegalMoves StockComesBackOnce
CHECK_DEADLOCK FALSE
