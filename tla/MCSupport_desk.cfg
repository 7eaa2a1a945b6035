CONSTANTS
  None = None
  Updates = {u1}
  Kinds = {"text", "file", "start"}
  Requests = {h1, h2}
  Desks = {d1}
  Workers = {w1, w2}
  MaxConvs = 2
  MaxTries = 2
  MaxFaults = 1
SPECIFICATION FairSpec
INVARIANTS InboxIsSound FilesAreSound
PROPERTIES MessagesArrive
CHECK_DEADLOCK FALSE
