CONSTANTS
  None = None
  v1 = v1
  v2 = v2
  Langs = {ru, ro}
  Variants = {v1, v2}
  PriceOf <- TwoPrices
  Prices = {3}
  Editors = {e1, e2}
  Workers = {w1, w2}
  MaxEdits = 3
  MaxTries = 2
SPECIFICATION MCSpec
INVARIANTS PublicationIsSound
PROPERTIES SavesAreSafe IndexReturns
CHECK_DEADLOCK FALSE
