------------------------------ MODULE MCPricing ------------------------------
(***************************************************************************)
(* The pricing operators against reference definitions.  They have no      *)
(* state: an initial state is one priced request, and nothing follows it.  *)
(***************************************************************************)
EXTENDS Pricing, FiniteSets, FiniteSetsExt

CONSTANTS Subtotals, Percents, Amounts, Thresholds, CarrierPrices

VARIABLES promo, settings, choice, subtotal, carrierPrice

Promos == [type : {"percent"}, value : Percents] \cup [type : {"fixed"}, value : Amounts]
DeliveryChoices == [service : {"own"}, type : {"pickup"}, hasAddress : {FALSE}] \cup
           [service : {"own"}, type : {"courier"}, hasAddress : BOOLEAN] \cup
           [service : {"novapost"}, type : {"courier"}, hasAddress : {TRUE}]

Init ==
  /\ promo \in Promos
  /\ settings \in [freeFrom : Thresholds, npFreeFrom : Thresholds, courierRate : {70}]
  /\ choice \in DeliveryChoices
  /\ subtotal \in Subtotals
  /\ carrierPrice \in CarrierPrices

QuoteOf(goods) ==
  QuoteFromLines(settings, choice, goods, ComputeDiscount(promo, goods), carrierPrice)

discount == ComputeDiscount(promo, subtotal)
quote == QuoteOf(subtotal)
-----------------------------------------------------------------------------
\* Whole-MDL amounts that are not above the exact discount by more than half an
\* MDL; the largest of them is the rounded one.
WholeUpTo(num, den) ==
  {d \in {k * Unit : k \in 0 .. num \div den + 1} : 2 * den * d =< 2 * num + den * Unit}

\* The discount is the nearest whole MDL, a half upwards, but never more than the
\* goods (_compute_discount: ROUND_HALF_UP, clamped to the subtotal).
DiscountIsNearest ==
  LET exact == IF promo.type = "percent"
               THEN WholeUpTo(subtotal * promo.value, 10000)
               ELSE WholeUpTo(promo.value, 1)
  IN  discount = Min({Max(exact), subtotal})

\* What the customer pays: never below the delivery charge, and a price exists
\* exactly when the carrier gave one, was not needed, or our courier has an address.
TotalIsFair ==
  LET goods == subtotal - discount
      free == LET own == settings.freeFrom
                  np == settings.npFreeFrom
                  limit == IF choice.service = "novapost" /\ np # None THEN np ELSE own
              IN  choice.type = "pickup" \/ (limit # None /\ goods >= limit)
      price == IF choice.service = "novapost" THEN carrierPrice ELSE settings.courierRate
      refused == \/ choice.service = "own" /\ choice.type = "courier" /\ ~ choice.hasAddress
                 \/ ~ free /\ price = None
  IN  IF refused THEN quote = None
      ELSE /\ quote.total = goods + (IF free THEN 0 ELSE price)
           /\ quote.total >= quote.delivery
           /\ goods >= 0

\* Buying more never makes delivery dearer, although the threshold is measured on
\* what the coupon leaves and the coupon grows with the basket.  It takes the store's
\* whole-MDL prices: among baskets of 4.50 and 5 MDL, ten percent rounds to nothing
\* for one and to a whole MDL for the other.
MoreGoodsNoDearerDelivery ==
  \A more \in Subtotals :
    subtotal % Unit = 0 /\ more % Unit = 0 /\ more >= subtotal /\ quote # None =>
      QuoteOf(more) # None /\ QuoteOf(more).delivery =< quote.delivery
=============================================================================
