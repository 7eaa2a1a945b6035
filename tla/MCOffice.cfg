CONSTANTS
  None = None
  Subtotals = {1, 49, 99, 100, 150, 200, 300, 400, 449, 500, 600, 1000}
  Percents = {0, 1, 1000, 3333, 10000}
  Amounts = {0, 49, 50, 149, 150, 700}
  Thresholds <- SmallThresholds
  CarrierPrices <- SmallPrices
  CouponIds = {1, 2}
  Definitions <- ShopDefinitions
  Patches <- ShopPatches
  Days = {1, 2}
  Officers = {o1, o2}
  Users = {u1, u2}
  RowIds = {d1, d2}
  Requests = {q1, q2}
  MaxRequests = 3
  Members = {m1}
  MaxTokens = 3
  Deleted = Deleted
  Banners = {1, 2}
  Pages = {3, 4}
  Langs = {"ru", "ro"}
  BannerPayloads <- ShopBanners
  PagePayloads <- ShopPages
  Sites <- ShopSites
  Orders <- ShopOrders
  Times = {1, 2}
  Editors = {w1, w2}
  MaxSaves = 3
  Errands = {n1, n2}
  Jobs <- ShopJobs
  Folded <- ShopFolded
  TTL <- ShopTTL
  MaxShocks = 2
  Waiters = {u3}
  Products = {p1}
  Workers = {w3, w4}
  Keepers = {e1}
  Levels = {1}
  MaxQty = 1
  MaxQueue = 1
  MaxRows = 2
  MaxFaults = 1
SPECIFICATION Spec
INVARIANTS PricesAreFair CouponsAreSound AccountsAreSafe PagesAreWhole CarrierIsBridged AlertsAreSound
CHECK_DEADLOCK FALSE
SYMMETRY Symmetry
