------------------------------- MODULE Coupons -------------------------------
(***************************************************************************)
(* The coupons of the back office: staff create, change and delete them     *)
(* (services/promo_service.py, routers/admin_promo.py) while shoppers read  *)
(* them.  A change is partial: it names the columns it sets, the whole row  *)
(* is tested as it was loaded with these columns set, and only columns that *)
(* differ from the loaded row are written.  Values are sent with any number *)
(* of decimals and kept with two: here they are in thousandths, of a MDL or *)
(* of a percent.  Minimum, limit and the switch are left to Checkout, the   *)
(* arithmetic to Pricing.                                                   *)
(***************************************************************************)
EXTENDS Integers

CONSTANTS
  None,
  Deleted,       \* the row of a coupon that was deleted: its id is never used again
  CouponIds,
  Definitions,   \* whole coupons staff may send: [code, type, value, from, to]
  Patches,       \* partial ones: functions on some of these columns
  Days,          \* moments of a purchase
  Officers       \* changes that may be under way at once

VARIABLES
  coupon,        \* the rows; None before and Deleted after their life
  patch,         \* patch[o]: the change of officer o, [id, seen, want]
  mixed          \* coupons last written by a change whose loaded row was no longer current

Issued == {i \in CouponIds : coupon[i] \notin {None, Deleted}}

Cent == 10               \* in thousandths
HundredPercent == 100000

\* What a NUMERIC(12, 2) column keeps of a value: the nearest cent, a half upwards.
Stored(value) == Cent * ((value + Cent \div 2) \div Cent)
StoredRow(c) == [c EXCEPT !.value = Stored(@)]

\* The schemas: a value that is sent is positive, which it need not be once stored.
Positive(c) == "value" \in DOMAIN c => c.value > 0

\* _within_window
WithinWindow(c, day) == c.from =< day /\ day =< c.to

\* _validate_definition
ValidDefinition(c) == (c.type = "percent" => c.value =< HundredPercent) /\ c.from =< c.to

\* Mutant: tested before the change.
ValidChangeAsLoaded(seen, changes) == ValidDefinition(seen)

\* A row with the columns set that a change names.
Changed(seen, changes) ==
  [c \in DOMAIN seen |-> IF c \in DOMAIN changes THEN changes[c] ELSE seen[c]]

\* The row a change would leave is a coupon.
ValidChange(seen, changes) == ValidDefinition(Changed(seen, changes))

\* get_by_code, and the unique index behind it.
CodeFree(i, code) == \A x \in Issued \ {i} : coupon[x].code # code

Init ==
  /\ coupon \in [CouponIds ->
        {None} \cup {StoredRow(d) : d \in {e \in Definitions : Positive(e) /\ ValidDefinition(e)}}]
  /\ \A i \in Issued : CodeFree(i, coupon[i].code)
  /\ patch = [o \in Officers |-> None]
  /\ mixed = {}

\* create_promo: the definition is tested as it was sent, and kept to the cent.
CreatePromo(i, d) ==
  /\ coupon[i] = None /\ Positive(d) /\ ValidDefinition(d) /\ CodeFree(i, d.code)
  /\ coupon' = [coupon EXCEPT ![i] = StoredRow(d)]
  /\ UNCHANGED <<patch, mixed>>

\* update_promo: the row is loaded, the code tested if it changes, and the result.
ReadPromo(o, i, changes) ==
  /\ patch[o] = None /\ i \in Issued /\ Positive(changes)
  /\ LET want == Changed(coupon[i], changes)
     IN  /\ want.code # coupon[i].code => CodeFree(i, want.code)
         /\ ValidChange(coupon[i], changes)
         /\ patch' = [patch EXCEPT ![o] = [id |-> i, seen |-> coupon[i], want |-> want]]
  /\ UNCHANGED <<coupon, mixed>>

\* What the flush leaves: the columns it found changed are written, to the cent.
Flushed(p) ==
  [c \in DOMAIN p.want |->
     IF p.want[c] # p.seen[c] THEN StoredRow(p.want)[c] ELSE coupon[p.id][c]]

\* The commit; the row must still be there and its code free.
UpdatePromo(o) ==
  LET p == patch[o]
  IN  /\ p # None /\ p.id \in Issued /\ CodeFree(p.id, Flushed(p).code)
      /\ coupon' = [coupon EXCEPT ![p.id] = Flushed(p)]
      /\ mixed' = IF p.seen = coupon[p.id] THEN mixed \ {p.id} ELSE mixed \cup {p.id}
      /\ patch' = [patch EXCEPT ![o] = None]

\* delete_promo
DeletePromo(i) ==
  /\ i \in Issued
  /\ coupon' = [coupon EXCEPT ![i] = Deleted]
  /\ UNCHANGED <<patch, mixed>>

\* A change that fails, or is abandoned.
FailChange(o) ==
  patch[o] # None /\ patch' = [patch EXCEPT ![o] = None] /\ UNCHANGED <<coupon, mixed>>
-----------------------------------------------------------------------------
\* The row shoppers meet is a coupon, its columns taken together: no percentage above a
\* hundred, a day on which it can be used, and no other coupon of its code; unless two
\* partial changes overlapped, each valid with the columns the other replaced
\* (update_promo).  Its value is in whole cents and never negative; it may be zero, for
\* less than half a cent passes the test of the schema and is stored as 0.00.
CouponsAreSound ==
  \A i \in Issued :
    /\ i \notin mixed => /\ coupon[i].type = "percent" => coupon[i].value =< HundredPercent
                         /\ \E day \in Days : WithinWindow(coupon[i], day)
    /\ coupon[i].value >= 0 /\ coupon[i].value % Cent = 0
    /\ \A x \in Issued \ {i} : coupon[x].code # coupon[i].code
=============================================================================
