CONSTANTS
  r1 = r1
  r2 = r2
  r3 = r3
  s1 = s1
  s2 = s2
  cartA = cartA
  cartB = cartB
  limited = limited
  open = open
  None = None
  Requests = {r1, r2, r3}
  Skus = {s1, s2}
  ProductId <- ShopProductId
  Price <- ShopPrice
  Carts = {cartA, cartB}
  CartOf <- TwoCarts
  QuickLines <- ShopQuick
  Codes = {limited, open}
  CodeOf <- TwoCodes
  Promo <- ShopPromo
  StartQty <- TwoEach
  StartCart <- BothLines
  EditableSkus = {s1}
  StockLevels = {}
  CartLevels = {0, 1}
  PromoEdits = {"toggle"}
SPECIFICATION Spec
INVARIANTS TypeOK PromoLimit NoWaitCycle
CHECK_DEADLOCK FALSE
