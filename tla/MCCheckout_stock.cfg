CONSTANTS
  r1 = r1
  r2 = r2
  r3 = r3
  s1 = s1
  s2 = s2
  cartA = cartA
  cartB = cartB
  limited = limited
  open = open
  None = None
  Requests = {r1, r2, r3}
  Skus = {s1, s2}
  ProductId <- VariantProductId
  Price <- ShopPrice
  Carts = {cartA, cartB}
  CartOf <- CartsAndQuick
  QuickLines <- ShopQuick
  Codes = {limited}
  CodeOf <- OneCode
  Promo <- ShopPromo
  StartQty <- ScarceStock
  StartCart <- TwoAndOne
  EditableSkus = {s1}
  StockLevels = {0, 1}
  CartLevels = {}
  PromoEdits = {"delete"}
SPECIFICATION FairSpec
INVARIANTS NoOversell
PROPERTIES AllOrNothing EveryRequestEnds
CHECK_DEADLOCK FALSE
