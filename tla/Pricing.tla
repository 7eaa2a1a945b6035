------------------------------ MODULE Pricing ------------------------------
(***************************************************************************)
(* The money arithmetic that quote, checkout and quick buy share: the      *)
(* coupon discount, the delivery charge and the total.  Amounts are whole  *)
(* bani (1/100 MDL), which is what the NUMERIC(12,2) columns hold; a       *)
(* percentage is in hundredths of a percent for the same reason.           *)
(***************************************************************************)
EXTENDS Integers

CONSTANT None   \* a Python None or an SQL NULL

Unit == 100       \* one MDL in bani
Hundred == 10000  \* 100.00 percent

Smaller(a, b) == IF a =< b THEN a ELSE b
Larger(a, b) == IF a >= b THEN a ELSE b

\* A positive rational num/den of bani rounded to whole MDL, a half upwards.
QuantizeToUnit(num, den) == Unit * ((2 * num + den * Unit) \div (2 * den * Unit))

\* percent: subtotal * value / 100; fixed: value; rounded to whole MDL and
\* clamped to [0, subtotal].  The schemas admit no negative value.
ComputeDiscount(promo, subtotal) ==
  LET discount == IF promo.type = "percent"
                  THEN QuantizeToUnit(subtotal * promo.value, Hundred)
                  ELSE QuantizeToUnit(promo.value, 1)
  IN  Smaller(discount, subtotal)

\* Fault: the threshold is measured before the discount.
PayableBeforeDiscount(subtotal, discount) == subtotal

\* The goods amount the customer pays, the base of every delivery threshold.
Payable(subtotal, discount) == Larger(subtotal - discount, 0)

\* A configured free-delivery threshold is reached.
IsFree(threshold, payable) == threshold # None /\ payable >= threshold

\* The carrier's own threshold, or the store-wide one when it has none.
FreeDeliveryThreshold(settings, service) ==
  IF service = "novapost" /\ settings.npFreeFrom # None
  THEN settings.npFreeFrom
  ELSE settings.freeFrom

\* Whether pricing this choice asks the carrier: only when it is not free.
AsksCarrier(settings, service, payable) ==
  service = "novapost" /\ ~ IsFree(FreeDeliveryThreshold(settings, service), payable)

\* The charge for delivery, None when there is none to give: the carrier fails
\* (carrierPrice is None then) or our own courier has no address.
DeliveryCost(settings, choice, payable, carrierPrice) ==
  CASE choice.service = "novapost" ->
         IF AsksCarrier(settings, choice.service, payable) THEN carrierPrice ELSE 0
    [] choice.service = "own" /\ choice.type = "pickup" -> 0
    [] choice.service = "own" /\ choice.type = "courier" ->
         IF ~ choice.hasAddress THEN None
         ELSE IF IsFree(settings.freeFrom, payable) THEN 0 ELSE settings.courierRate

\* The breakdown shown by quote and stored by checkout; None when refused.
QuoteFromLines(settings, choice, subtotal, discount, carrierPrice) ==
  LET delivery == DeliveryCost(settings, choice, Payable(subtotal, discount), carrierPrice)
  IN  IF delivery = None THEN None
      ELSE [subtotal |-> subtotal, discount |-> discount,
            delivery |-> delivery, total |-> subtotal - discount + delivery]
=============================================================================
