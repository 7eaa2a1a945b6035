CONSTANTS
  o1 = o1
  None = None
  Orders = {o1}
  Workers = {w1, w2}
  Parcels = {p1, p2}
  Declined = {o1}
  MaxFaults = 1
SPECIFICATION FairSpec
INVARIANTS RowsAreSound OrphansAreFaults
PROPERTIES DeliveredIsShown
CHECK_DEADLOCK FALSE
