CONSTANTS
  None = None
  Products = {1, 2, 3}
  Cards <- ShopCards
  Queries <- ShopQueries
  AttributeOf <- ShopAttributes
  ValuesOf <- ShopValues
  PageSize = 1
  Limit = 2
  Factor = 5
  MaxCandidates = 2
  MaxRebuilds = 2
  c1 = c1
  c2 = c2
  c3 = c3
  c4 = c4
  Ids = {c1, c2, c3, c4}
  Forests <- ShopForests
  Staff = {e1, e2}
  MaxEdits = 2
  VariantIds = {i1, i2, i3}
  Clerks = {k1, k2}
  MaxChanges = 3
  Authors = {1, 2}
  Ratings = {5}
  Visits = {v1, v2}
  MaxVisits = 3
  PublicPage = 1
  Goods = {1, 2, 3, 4, 5}
  TsRank <- TextRanks
  CodeHits = {4}
  EsRanking <- EngineRanks
  ResultPage = 2
  MaxFlips = 2
  Widths = {2, 4}
  MaxSide = 8
  Files <- ShopFiles
  Old = 2
  OldWidth = 3
  Hands = {h1, h2}
  MaxNames = 4
  MaxCalls = 2
SPECIFICATION Spec
INVARIANTS ListingTellsAll TreeIsSound VariantsAreFound ReviewsAreSound ResultsAreComplete PicturesAreWhole
PROPERTIES GenerationCompletes
CHECK_DEADLOCK FALSE
