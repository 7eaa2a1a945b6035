CONSTANTS
  None = None
  Users = {u1}
  Products = {p1}
  Workers = {w1, w2}
  Editors = {e1}
  Levels = {1}
  MaxQty = 1
  MaxQueue = 1
  MaxRows = 2
  MaxFaults = 1
SPECIFICATION FairSpec
PROPERTIES WaitersAreTold
CHECK_DEADLOCK FALSE
