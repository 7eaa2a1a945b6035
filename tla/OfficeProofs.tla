---------------------------- MODULE OfficeProofs ----------------------------
(***************************************************************************)
(* The parts around the catalogue, each for every value of its constants:   *)
(* what a behaviour about one part keeps of it.                             *)
(***************************************************************************)
EXTENDS MCOffice, FiniteSetTheorems, TLAPS

\* The steps of a behaviour are those of the part it is about.
LEMMA PartStep ==
  ASSUME [Next]_vars
  PROVE  /\ part' = part
         /\ part = "pricing" => UNCHANGED pricing
         /\ part = "coupons" => CouponsStep \/ UNCHANGED coupons
         /\ part = "accounts" => AccountsStep \/ UNCHANGED accounts
         /\ part = "sessions" => SessionsStep \/ UNCHANGED sessions
         /\ part = "content" => ContentStep \/ UNCHANGED content
         /\ part = "carrier" => CarrierStep \/ UNCHANGED carrier
         /\ part = "restock" => RestockStep \/ UNCHANGED restock
<1>1. CASE UNCHANGED vars
  BY <1>1 DEF vars
<1>2. CASE CouponsStep \/ AccountsStep \/ SessionsStep
  BY <1>2 DEF CouponsStep, AccountsStep, SessionsStep
<1>3. CASE ContentStep \/ CarrierStep \/ RestockStep
  BY <1>3 DEF ContentStep, CarrierStep, RestockStep
<1>. QED  BY <1>1, <1>2, <1>3 DEF Next

-----------------------------------------------------------------------------
\* Coupons

\* A coupon as it is sent, or wanted; a row is one in whole cents.
IsCoupon(c) ==
  DOMAIN c = Columns /\ c.value \in Int /\ c.value >= 0 /\ c.from \in Days /\ c.to \in Days
IsCouponRow(c) == IsCoupon(c) /\ c.value % Coupon!Cent = 0

\* The rows are coupons, valid as a whole but for mixed ones, and what a change under way
\* would leave of the row it loaded is valid.
CouponInv ==
  /\ DOMAIN coupon = CouponIds /\ DOMAIN patch = Officers
  /\ \A i \in Coupon!Issued :
       /\ IsCouponRow(coupon[i])
       /\ i \notin mixed => Coupon!ValidDefinition(coupon[i])
       /\ Coupon!CodeFree(i, coupon[i].code)
  /\ \A o \in Officers : patch[o] # None =>
       /\ patch[o].id \in CouponIds
       /\ IsCouponRow(patch[o].seen) /\ IsCoupon(patch[o].want)
       /\ Coupon!ValidDefinition(patch[o].want)

\* Rounding to the cent keeps a value on its side of zero and of a hundred percent.
LEMMA StoredValue ==
  ASSUME NEW value \in Int, value >= 0
  PROVE  /\ Coupon!Stored(value) \in Int /\ Coupon!Stored(value) >= 0
         /\ Coupon!Stored(value) % Coupon!Cent = 0
         /\ value =< Coupon!HundredPercent => Coupon!Stored(value) =< Coupon!HundredPercent
BY DEF Coupon!Stored, Coupon!Cent, Coupon!HundredPercent

\* What is kept of a coupon: a row, as valid as what was sent.
LEMMA StoredCoupon ==
  ASSUME NEW c, IsCoupon(c)
  PROVE  /\ IsCouponRow(Coupon!StoredRow(c))
         /\ \A x \in Columns \ {"value"} : Coupon!StoredRow(c)[x] = c[x]
         /\ Coupon!StoredRow(c).value = Coupon!Stored(c.value)
         /\ Coupon!ValidDefinition(c) => Coupon!ValidDefinition(Coupon!StoredRow(c))
<1>. DEFINE kept == Coupon!StoredRow(c)
<1>1. /\ DOMAIN kept = Columns
      /\ \A x \in Columns : kept[x] = IF x = "value" THEN Coupon!Stored(c.value) ELSE c[x]
  BY DEF Coupon!StoredRow, IsCoupon, Columns
<1>2. c.value \in Int /\ c.value >= 0
  BY DEF IsCoupon
<1>. HIDE DEF kept
<1>3. /\ kept.value = Coupon!Stored(c.value)
      /\ kept.type = c.type /\ kept.from = c.from /\ kept.to = c.to
  BY <1>1 DEF Columns
<1>4. IsCouponRow(kept)
  BY <1>1, <1>2, <1>3, StoredValue DEF IsCouponRow, IsCoupon
<1>5. ASSUME Coupon!ValidDefinition(c) PROVE Coupon!ValidDefinition(kept)
  BY <1>2, <1>3, <1>5, StoredValue DEF Coupon!ValidDefinition
<1>. QED  BY <1>1, <1>3, <1>4, <1>5 DEF kept

\* What staff may send is a coupon.
LEMMA SentDefinition ==
  ASSUME NEW d \in Definitions, Coupon!Positive(d) PROVE IsCoupon(d)
BY DefinitionsAssumption DEF IsCoupon, Columns, Coupon!Positive

LEMMA CouponInit ==
  ASSUME Coupon!Init PROVE CouponInv
<1>1. ASSUME NEW i \in Coupon!Issued
      PROVE  IsCouponRow(coupon[i]) /\ Coupon!ValidDefinition(coupon[i])
  <2>1. PICK d \in Definitions :
          Coupon!Positive(d) /\ Coupon!ValidDefinition(d) /\ coupon[i] = Coupon!StoredRow(d)
    BY DEF Coupon!Init, Coupon!Issued
  <2>. QED  BY <2>1, SentDefinition, StoredCoupon
<1>. QED  BY <1>1 DEF Coupon!Init, CouponInv, Coupon!Issued

\* What a partial change wants: the columns it names, the others as loaded.
LEMMA WantedRow ==
  ASSUME NEW seen, IsCoupon(seen), NEW cols \in Patches, Coupon!Positive(cols)
  PROVE  IsCoupon(Coupon!Changed(seen, cols))
<1>. DEFINE want == Coupon!Changed(seen, cols)
<1>3. /\ DOMAIN want = Columns
      /\ \A c \in Columns : want[c] = IF c \in DOMAIN cols THEN cols[c] ELSE seen[c]
  BY DEF IsCoupon, Coupon!Changed
<1>. HIDE DEF want
<1>4. want.value \in Int /\ want.value >= 0
  BY <1>3, DefinitionsAssumption DEF Columns, IsCoupon, Coupon!Positive
<1>5. want.from \in Days /\ want.to \in Days
  BY <1>3, DefinitionsAssumption DEF Columns, IsCoupon
<1>. QED  BY <1>3, <1>4, <1>5 DEF IsCoupon, want

\* What the flush leaves: a row, and the one wanted if the loaded row is still current.
LEMMA FlushedRow ==
  ASSUME CouponInv, NEW o \in Officers, patch[o] # None, patch[o].id \in Coupon!Issued
  PROVE  /\ IsCouponRow(Coupon!Flushed(patch[o]))
         /\ patch[o].seen = coupon[patch[o].id] =>
              Coupon!ValidDefinition(Coupon!Flushed(patch[o]))
<1>. DEFINE p == patch[o]
            row0 == coupon[p.id]
            kept == Coupon!StoredRow(p.want)
            new == Coupon!Flushed(p)
<1>1. /\ IsCouponRow(p.seen) /\ IsCoupon(p.want) /\ IsCouponRow(row0)
      /\ Coupon!ValidDefinition(p.want)
  BY DEF CouponInv
<1>2. /\ DOMAIN new = Columns
      /\ \A c \in Columns : new[c] = IF p.want[c] # p.seen[c] THEN kept[c] ELSE row0[c]
  BY <1>1 DEF Coupon!Flushed, IsCoupon
<1>3. /\ IsCouponRow(kept) /\ Coupon!ValidDefinition(kept)
      /\ \A x \in Columns \ {"value"} : kept[x] = p.want[x]
      /\ kept.value = Coupon!Stored(p.want.value)
  BY <1>1, StoredCoupon
<1>4. IsCouponRow(new)
  <2>. HIDE DEF p, row0, kept, new
  <2>1. /\ new.value \in {kept.value, row0.value}
        /\ new.from \in {kept.from, row0.from} /\ new.to \in {kept.to, row0.to}
    BY <1>2 DEF Columns
  <2>. QED  BY <1>1, <1>2, <1>3, <2>1 DEF IsCouponRow, IsCoupon
<1>5. ASSUME p.seen = row0 PROVE Coupon!ValidDefinition(new)
  <2>. HIDE DEF p, row0, kept, new
  <2>1. /\ new.type = p.want.type /\ new.from = p.want.from /\ new.to = p.want.to
        /\ new.value = kept.value \/ new.value = p.want.value
    BY <1>2, <1>3, <1>5 DEF Columns
  <2>2. kept.type = p.want.type
    BY <1>3 DEF Columns
  <2>. QED  BY <1>1, <1>3, <2>1, <2>2 DEF Coupon!ValidDefinition
<1>. QED  BY <1>4, <1>5

LEMMA CouponStep ==
  ASSUME CouponInv, CouponsStep PROVE CouponInv'
<1>1. ASSUME NEW i \in CouponIds, NEW d \in Definitions, Coupon!CreatePromo(i, d)
      PROVE  CouponInv'
  <2>. DEFINE new == Coupon!StoredRow(d)
  <2>1. /\ coupon[i] = None /\ coupon' = [coupon EXCEPT ![i] = new]
        /\ Coupon!CodeFree(i, d.code) /\ UNCHANGED <<patch, mixed>>
    BY <1>1 DEF Coupon!CreatePromo
  <2>2. IsCouponRow(new) /\ Coupon!ValidDefinition(new) /\ new.code = d.code
    BY <1>1, SentDefinition, StoredCoupon DEF Coupon!CreatePromo, Columns
  <2>. HIDE DEF new
  <2>. QED  BY <2>1, <2>2 DEF CouponInv, Coupon!Issued, Coupon!CodeFree
<1>2. ASSUME NEW o \in Officers, NEW i \in CouponIds, NEW cols \in Patches,
             Coupon!ReadPromo(o, i, cols)
      PROVE  CouponInv'
  <2>. DEFINE want == Coupon!Changed(coupon[i], cols)
  <2>1. IsCouponRow(coupon[i])
    BY <1>2 DEF Coupon!ReadPromo, CouponInv
  <2>2. IsCoupon(want) /\ Coupon!ValidDefinition(want)
    BY <1>2, <2>1, WantedRow DEF Coupon!ReadPromo, Coupon!ValidChange, IsCouponRow
  <2>3. patch' = [patch EXCEPT ![o] = [id |-> i, seen |-> coupon[i], want |-> want]]
    BY <1>2 DEF Coupon!ReadPromo
  <2>4. UNCHANGED <<coupon, mixed>>
    BY <1>2 DEF Coupon!ReadPromo
  <2>. HIDE DEF want
  <2>. QED  BY <2>1, <2>2, <2>3, <2>4 DEF CouponInv, Coupon!Issued, Coupon!CodeFree
<1>3. ASSUME NEW o \in Officers, Coupon!UpdatePromo(o)
      PROVE  CouponInv'
  <2>. DEFINE p == patch[o]
              new == Coupon!Flushed(p)
  <2>1. /\ p # None /\ p.id \in Coupon!Issued /\ Coupon!CodeFree(p.id, new.code)
        /\ coupon' = [coupon EXCEPT ![p.id] = new]
        /\ mixed' = IF p.seen = coupon[p.id] THEN mixed \ {p.id} ELSE mixed \cup {p.id}
        /\ patch' = [patch EXCEPT ![o] = None]
    BY <1>3 DEF Coupon!UpdatePromo
  <2>2. IsCouponRow(new) /\ (p.seen = coupon[p.id] => Coupon!ValidDefinition(new))
    BY <2>1, FlushedRow
  <2>. HIDE DEF p, new
  <2>. QED  BY <2>1, <2>2 DEF CouponInv, Coupon!Issued, Coupon!CodeFree
<1>4. ASSUME NEW o \in Officers, Coupon!FailChange(o)
      PROVE  CouponInv'
  BY <1>4 DEF Coupon!FailChange, CouponInv, Coupon!Issued, Coupon!CodeFree
<1>5. ASSUME NEW i \in CouponIds, Coupon!DeletePromo(i)
      PROVE  CouponInv'
  BY <1>5 DEF Coupon!DeletePromo, CouponInv, Coupon!Issued, Coupon!CodeFree
<1>. QED  BY <1>1, <1>2, <1>3, <1>4, <1>5 DEF CouponsStep

LEMMA CouponSound ==
  ASSUME CouponInv PROVE Coupon!CouponsAreSound
<1>1. SUFFICES ASSUME NEW i \in Coupon!Issued
               PROVE  /\ i \notin mixed =>
                           /\ coupon[i].type = "percent" => coupon[i].value =< Coupon!HundredPercent
                           /\ \E day \in Days : Coupon!WithinWindow(coupon[i], day)
                      /\ coupon[i].value >= 0 /\ coupon[i].value % Coupon!Cent = 0
                      /\ \A x \in Coupon!Issued \ {i} : coupon[x].code # coupon[i].code
  BY DEF Coupon!CouponsAreSound
<1>2. IsCouponRow(coupon[i]) /\ Coupon!CodeFree(i, coupon[i].code)
  BY DEF CouponInv
<1>3. ASSUME i \notin mixed PROVE Coupon!ValidDefinition(coupon[i])
  BY <1>3 DEF CouponInv
<1>4. coupon[i].from \in Days /\ coupon[i].from \in Int
  BY <1>2, DefinitionsAssumption DEF IsCouponRow, IsCoupon
<1>5. ASSUME i \notin mixed PROVE Coupon!WithinWindow(coupon[i], coupon[i].from)
  BY <1>3, <1>4, <1>5 DEF Coupon!WithinWindow, Coupon!ValidDefinition
<1>6. /\ coupon[i].value >= 0 /\ coupon[i].value % Coupon!Cent = 0
      /\ \A x \in Coupon!Issued \ {i} : coupon[x].code # coupon[i].code
  BY <1>2 DEF IsCouponRow, IsCoupon, Coupon!CodeFree
<1>. QED  BY <1>3, <1>4, <1>5, <1>6 DEF Coupon!ValidDefinition

\* The coupon shoppers meet is valid as a whole, on one day at least and with a code of its
\* own, however many officers change it at once: a coupon is invalid only after two partial
\* changes of it overlapped (update_promo).  Its value, rounded to the cent when it is
\* stored, is never negative, but it may be zero.
THEOREM CouponsStaySound == Spec => []CouponsAreSound
<1>. DEFINE Inv == part = "coupons" => CouponInv
<1>1. Init => Inv
  BY CouponInit DEF Init
<1>2. Inv /\ [Next]_vars => Inv'
  <2>. SUFFICES ASSUME Inv, [Next]_vars, part = "coupons" PROVE CouponInv'
    BY PartStep
  <2>1. CASE CouponsStep
    BY <2>1, CouponStep
  <2>2. CASE UNCHANGED coupons
    BY <2>2 DEF coupons, CouponInv, Coupon!Issued, Coupon!CodeFree
  <2>. QED  BY <2>1, <2>2, PartStep
<1>3. Inv => CouponsAreSound
  BY CouponSound DEF CouponsAreSound
<1>. QED  BY <1>1, <1>2, <1>3, PTL DEF Spec

-----------------------------------------------------------------------------
\* Sessions

Asked(q, t) == ask[q] # None /\ ask[q].token = t
Spent(t) == t \in blacklisted \cup expired

\* Tokens are numbered in order, each after the one it was made from.
TokenInv ==
  /\ \E n \in Nat : DOMAIN token = 1 .. n
  /\ \A t \in DOMAIN token : token[t].parent # None =>
       token[t].parent \in 1 .. t - 1 /\ token[token[t].parent].owner = token[t].owner
  /\ blacklisted \subseteq DOMAIN token /\ expired \subseteq DOMAIN token
  /\ ended \subseteq DOMAIN token
  /\ DOMAIN ask = Requests
  /\ \A q \in Requests : ask[q] # None => ask[q].token \in DOMAIN token

\* What is true of a token as long as no two requests used it at once: it was used or
\* signed out only if it can be used no more, and who is about to use it is the first.
UsedOnce(t) ==
  /\ \A p, q \in Requests : Asked(p, t) /\ Asked(q, t) => p = q
  /\ \A c \in Session!Children(t) : Spent(t) /\ Session!Children(t) = {c}
  /\ t \in ended => Spent(t) /\ Session!Children(t) = {}
  /\ \A q \in Requests : Asked(q, t) /\ ask[q].kind = "refresh" =>
       Session!Children(t) = {} /\ t \notin ended

SessionInv == TokenInv /\ \A t \in DOMAIN token \ twice : UsedOnce(t)

\* An instance names the library's operators anew.
LEMMA SessionCardinality == \A S : Session!Cardinality(S) = Cardinality(S)
BY DEF Session!Cardinality, Cardinality

\* A pair adds one token, the child of the one it was made from.
LEMMA PairIssued ==
  ASSUME TokenInv, NEW u, NEW parent \in DOMAIN token \cup {None}, Session!IssuePair(u, parent),
         parent # None => token[parent].owner = u
  PROVE  \E new \in Nat \ DOMAIN token :
           /\ DOMAIN token' = DOMAIN token \cup {new}
           /\ DOMAIN token' = 1 .. new
           /\ \A t \in DOMAIN token : token'[t] = token[t]
           /\ token'[new] = [owner |-> u, parent |-> parent]
           /\ Session!Children(new)' = {}
           /\ \A t \in DOMAIN token : Session!Children(t)' =
                IF t = parent THEN Session!Children(t) \cup {new} ELSE Session!Children(t)
<1>1. PICK n \in Nat : DOMAIN token = 1 .. n
  BY DEF TokenInv
<1>2. Cardinality(DOMAIN token) = n
  BY <1>1, FS_Interval
<1>. DEFINE new == n + 1
<1>3. token' = [t \in 1 .. new |-> IF t \in DOMAIN token THEN token[t] ELSE [owner |-> u, parent |-> parent]]
  <2>1. token' = [t \in 1 .. Cardinality(DOMAIN token) + 1 |->
                   IF t \in DOMAIN token THEN token[t] ELSE [owner |-> u, parent |-> parent]]
    BY SessionCardinality DEF Session!IssuePair, Session!Issued
  <2>. QED  BY <1>2, <2>1, Zenon
<1>4. /\ DOMAIN token' = 1 .. new
      /\ new \in Nat \ DOMAIN token
      /\ 1 .. new = DOMAIN token \cup {new}
  BY <1>1, <1>3
<1>5. \A t \in DOMAIN token : token'[t] = token[t]
  BY <1>3, <1>4
<1>6. token'[new] = [owner |-> u, parent |-> parent]
  BY <1>3, <1>4
<1>. HIDE <1>3
<1>7. \A c \in DOMAIN token : token[c].parent # new
  <2>1. ASSUME NEW c \in DOMAIN token, token[c].parent = new PROVE FALSE
    <3>1. token[c].parent # None
      BY <2>1, NoneAssumption, <1>4
    <3>2. new \in 1 .. c - 1 /\ c \in 1 .. n
      BY <2>1, <3>1, <1>1 DEF TokenInv
    <3>. QED  BY <3>2
  <2>. QED  BY <2>1
<1>8. parent # new
  BY <1>4, NoneAssumption
<1>. HIDE DEF new
<1>9. Session!Children(new)' = {}
  BY <1>4, <1>5, <1>6, <1>7, <1>8 DEF Session!Children, Session!Issued
<1>10. \A t \in DOMAIN token : Session!Children(t)' =
                IF t = parent THEN Session!Children(t) \cup {new} ELSE Session!Children(t)
  BY <1>4, <1>5, <1>6 DEF Session!Children, Session!Issued
<1>. QED  BY <1>4, <1>5, <1>6, <1>9, <1>10

LEMMA SessionInit ==
  ASSUME Session!Init PROVE SessionInv
<1>1. DOMAIN token = 1 .. 0
  BY DEF Session!Init
<1>. QED  BY <1>1 DEF Session!Init, SessionInv, TokenInv

LEMMA SessionSound ==
  ASSUME SessionInv PROVE Session!TypeOK /\ Session!UsedRefreshStops
<1>1. Session!TypeOK
  BY DEF SessionInv, TokenInv, Session!TypeOK, Session!Issued
<1>2. ASSUME NEW t \in DOMAIN token \ twice
      PROVE  Cardinality(Session!Children(t)) =< 1 /\ (t \in ended => Session!Children(t) = {})
  <2>1. UsedOnce(t)
    BY <1>2 DEF SessionInv
  <2>2. CASE Session!Children(t) = {}
    BY <2>1, <2>2, FS_EmptySet DEF UsedOnce
  <2>3. CASE \E c : Session!Children(t) = {c}
    <3>1. Cardinality(Session!Children(t)) = 1
      BY <2>3, FS_Singleton
    <3>. QED  BY <2>1, <3>1 DEF UsedOnce
  <2>. QED  BY <2>1, <2>2, <2>3 DEF UsedOnce
<1>3. Session!UsedRefreshStops
  BY <1>2, SessionCardinality DEF Session!UsedRefreshStops, Session!Issued
<1>. QED  BY <1>1, <1>3

\* A pair made from a token, by a login or by the request q that used it.
LEMMA PairStep ==
  ASSUME SessionInv, NEW u, NEW parent \in DOMAIN token \cup {None}, Session!IssuePair(u, parent),
         parent # None => token[parent].owner = u,
         NEW gone \in SUBSET Requests, DOMAIN ask' = Requests,
         \A p \in Requests : ask'[p] = IF p \in gone THEN None ELSE ask[p],
         parent # None => \E q \in gone : Asked(q, parent) /\ ask[q].kind = "refresh",
         blacklisted \subseteq blacklisted', blacklisted' \subseteq DOMAIN token,
         parent # None => parent \in blacklisted' \cup expired,
         UNCHANGED <<expired, ended, twice>>
  PROVE  SessionInv'
<1>1. PICK new \in Nat \ DOMAIN token :
           /\ DOMAIN token' = DOMAIN token \cup {new}
           /\ DOMAIN token' = 1 .. new
           /\ \A t \in DOMAIN token : token'[t] = token[t]
           /\ token'[new] = [owner |-> u, parent |-> parent]
           /\ Session!Children(new)' = {}
           /\ \A t \in DOMAIN token : Session!Children(t)' =
                IF t = parent THEN Session!Children(t) \cup {new} ELSE Session!Children(t)
  BY PairIssued DEF SessionInv
<1>2. TokenInv'
  <2>1. \A t \in DOMAIN token' : token'[t].parent # None =>
          token'[t].parent \in 1 .. t - 1 /\ token'[token'[t].parent].owner = token'[t].owner
    <3>1. ASSUME NEW t \in DOMAIN token, token'[t].parent # None
          PROVE  token'[t].parent \in 1 .. t - 1 /\ token'[token'[t].parent].owner = token'[t].owner
      <4>1. PICK n \in Nat : DOMAIN token = 1 .. n
        BY DEF SessionInv, TokenInv
      <4>2. token[t].parent \in 1 .. t - 1 /\ token[token[t].parent].owner = token[t].owner
        BY <1>1, <3>1 DEF SessionInv, TokenInv
      <4>3. token[t].parent \in DOMAIN token
        BY <4>1, <4>2
      <4>. QED  BY <1>1, <4>2, <4>3
    <3>2. ASSUME parent # None
          PROVE  parent \in 1 .. new - 1 /\ token'[parent].owner = u
      <4>1. parent \in DOMAIN token /\ parent \in 1 .. new /\ parent # new
        BY <1>1, <3>2
      <4>. QED  BY <1>1, <3>2, <4>1
    <3>. QED  BY <1>1, <3>1, <3>2
  <2>2. \A q \in Requests : ask'[q] # None => ask'[q].token \in DOMAIN token'
    BY <1>1 DEF SessionInv, TokenInv
  <2>. QED  BY <1>1, <2>1, <2>2 DEF SessionInv, TokenInv
<1>3. ASSUME NEW t \in DOMAIN token' \ twice' PROVE UsedOnce(t)'
  <2>1. CASE t = new
    <3>1. t \notin ended' /\ \A p \in Requests : ~Asked(p, t)'
      BY <1>1, <2>1 DEF SessionInv, TokenInv, Asked
    <3>. QED  BY <1>1, <2>1, <3>1 DEF UsedOnce
  <2>2. CASE t # new
    <3>1. t \in DOMAIN token \ twice /\ UsedOnce(t)
      BY <1>1, <1>3, <2>2 DEF SessionInv
    <3>2. Spent(t) => Spent(t)'
      BY DEF Spent
    <3>3. \A p \in Requests : Asked(p, t)' => Asked(p, t) /\ ask'[p] = ask[p] /\ p \notin gone
      BY DEF Asked
    <3>4. CASE t = parent
      <4>1. t # None
        BY <3>1, NoneAssumption DEF SessionInv, TokenInv
      <4>2. PICK q \in gone : Asked(q, t) /\ ask[q].kind = "refresh"
        BY <3>4, <4>1
      <4>3. Session!Children(t) = {} /\ t \notin ended /\ \A p \in Requests : ~Asked(p, t)'
        BY <3>1, <3>3, <4>2 DEF UsedOnce
      <4>4. Session!Children(t)' = {new} /\ Spent(t)'
        BY <1>1, <3>1, <3>4, <4>1, <4>3 DEF Spent
      <4>. QED  BY <4>3, <4>4 DEF UsedOnce
    <3>5. CASE t # parent
      <4>1. Session!Children(t)' = Session!Children(t)
        BY <1>1, <3>1, <3>5
      <4>. QED  BY <3>1, <3>2, <3>3, <4>1 DEF UsedOnce
    <3>. QED  BY <3>4, <3>5
  <2>. QED  BY <2>1, <2>2
<1>. QED  BY <1>2, <1>3 DEF SessionInv

\* A request that ends, having written the token to the blacklist or not.
LEMMA SpendStep ==
  ASSUME SessionInv, NEW q \in Requests, ask[q] # None,
         Session!Blacklist(ask[q].token) \/ UNCHANGED blacklisted,
         ask' = [ask EXCEPT ![q] = None], UNCHANGED <<token, expired, twice>>,
         \/ UNCHANGED ended
         \/ /\ Session!Blacklist(ask[q].token)
            /\ Session!Children(ask[q].token) = {} /\ ended' = ended \cup {ask[q].token}
  PROVE  SessionInv'
<1>1. TokenInv'
  BY DEF SessionInv, TokenInv, Session!Blacklist
<1>2. ASSUME NEW t \in DOMAIN token' \ twice' PROVE UsedOnce(t)'
  <2>1. UsedOnce(t) /\ t \in DOMAIN token
    BY <1>2 DEF SessionInv
  <2>2. Session!Children(t)' = Session!Children(t)
    BY DEF Session!Children, Session!Issued
  <2>3. Spent(t) => Spent(t)'
    BY DEF Spent, Session!Blacklist
  <2>4. \A p \in Requests : Asked(p, t)' => p # q /\ Asked(p, t) /\ ask'[p] = ask[p]
    BY DEF Asked, SessionInv, TokenInv
  <2>5. CASE ended' = ended \/ t # ask[q].token
    <3>1. t \in ended' => t \in ended
      BY <2>5
    <3>2. t \in ended => t \in ended'
      OBVIOUS
    <3>. QED  BY <2>1, <2>2, <2>3, <2>4, <3>1, <3>2 DEF UsedOnce
  <2>6. CASE ended' # ended /\ t = ask[q].token
    <3>1. Session!Children(t) = {} /\ Spent(t)'
      BY <2>6 DEF Spent, Session!Blacklist
    <3>2. \A p \in Requests : ~Asked(p, t)'
      BY <2>1, <2>4, <2>6 DEF UsedOnce, Asked
    <3>. QED  BY <2>2, <3>1, <3>2 DEF UsedOnce
  <2>. QED  BY <2>5, <2>6
<1>. QED  BY <1>1, <1>2 DEF SessionInv

LEMMA SessionStep ==
  ASSUME SessionInv, SessionsStep PROVE SessionInv'
<1>1. ASSUME NEW u \in Members, Session!Login(u) PROVE SessionInv'
  <2>1. /\ Session!IssuePair(u, None)
        /\ UNCHANGED <<active, blacklisted, expired, ask, ended, twice>>
    BY <1>1 DEF Session!Login
  <2>2. /\ DOMAIN ask' = Requests /\ blacklisted' \subseteq DOMAIN token
        /\ \A p \in Requests : ask'[p] = IF p \in {} THEN None ELSE ask[p]
    BY <2>1 DEF SessionInv, TokenInv
  <2>. DEFINE parent == None
              gone == {}
  <2>3. parent \in DOMAIN token \cup {None} /\ gone \in SUBSET Requests
    OBVIOUS
  <2>4. ~(parent # None)
    OBVIOUS
  <2>5. Session!IssuePair(u, parent) /\ \A p \in Requests : ask'[p] = IF p \in gone THEN None ELSE ask[p]
    BY <2>1, <2>2
  <2>6. blacklisted \subseteq blacklisted' /\ UNCHANGED <<expired, ended, twice>>
    BY <2>1
  <2>. HIDE DEF parent, gone
  <2>. QED  BY <2>2, <2>3, <2>4, <2>5, <2>6, PairStep
<1>2. ASSUME NEW u \in Members, Session!Switch(u) PROVE SessionInv'
  BY <1>2 DEF Session!Switch, SessionInv, TokenInv, UsedOnce, Asked, Spent,
              Session!Children, Session!Issued
<1>3. ASSUME NEW t \in Session!Tokens, Session!Expire(t) PROVE SessionInv'
  BY <1>3 DEF Session!Expire, SessionInv, TokenInv, UsedOnce, Asked, Spent,
              Session!Children, Session!Issued
<1>4. ASSUME NEW q \in Requests, NEW t \in Session!Tokens, NEW kind \in {"refresh", "logout"},
             Session!Begin(q, kind, t)
      PROVE  SessionInv'
  <2>1. /\ ask[q] = None /\ t \in DOMAIN token \ expired
        /\ kind = "refresh" => t \notin blacklisted
        /\ ask' = [ask EXCEPT ![q] = [kind |-> kind, token |-> t]]
        /\ twice' = IF \E p \in Requests : Asked(p, t) THEN twice \cup {t} ELSE twice
        /\ UNCHANGED <<active, token, blacklisted, expired, ended>>
    BY <1>4 DEF Session!Begin, Session!Decodes, Session!IsBlacklisted, Session!Issued, Asked
  <2>2. TokenInv'
    BY <2>1 DEF SessionInv, TokenInv
  <2>3. ASSUME NEW x \in DOMAIN token' \ twice' PROVE UsedOnce(x)'
    <3>1. x \in DOMAIN token \ twice /\ UsedOnce(x)
      BY <2>1, <2>3 DEF SessionInv
    <3>2. Session!Children(x)' = Session!Children(x) /\ (Spent(x)' <=> Spent(x))
      BY <2>1 DEF Session!Children, Session!Issued, Spent
    <3>3. DOMAIN ask = Requests
      BY DEF SessionInv, TokenInv
    <3>4. CASE x # t
      <4>1. \A p \in Requests : Asked(p, x)' => Asked(p, x) /\ ask'[p] = ask[p]
        BY <2>1, <3>3, <3>4 DEF Asked
      <4>. QED  BY <2>1, <3>1, <3>2, <4>1 DEF UsedOnce
    <3>5. CASE x = t
      <4>1. \A p \in Requests : ~Asked(p, t)
        BY <2>1, <2>3, <3>5
      <4>2. \A p \in Requests : Asked(p, x)' => p = q
        BY <2>1, <3>3, <3>5, <4>1 DEF Asked
      <4>3. ask'[q].kind = "refresh" => Session!Children(x) = {} /\ x \notin ended
        BY <2>1, <3>1, <3>3, <3>5 DEF UsedOnce, Spent
      <4>. QED  BY <2>1, <3>1, <3>2, <4>2, <4>3 DEF UsedOnce
    <3>. QED  BY <3>4, <3>5
  <2>. QED  BY <2>2, <2>3 DEF SessionInv
<1>5. ASSUME NEW q \in Requests, Session!Refresh(q) PROVE SessionInv'
  <2>. DEFINE t == ask[q].token
  <2>1. /\ Asked(q, t) /\ ask[q].kind = "refresh"
        /\ Session!Blacklist(t) /\ Session!IssuePair(token[t].owner, t)
        /\ ask' = [ask EXCEPT ![q] = None]
        /\ UNCHANGED <<active, expired, ended, twice>>
    BY <1>5 DEF Session!Refresh, Asked
  <2>2. t \in DOMAIN token /\ DOMAIN ask = Requests /\ blacklisted \subseteq DOMAIN token
    BY <2>1 DEF SessionInv, TokenInv, Asked
  <2>3. /\ blacklisted \subseteq blacklisted' /\ blacklisted' \subseteq DOMAIN token
        /\ t \in blacklisted' \cup expired
    BY <2>1, <2>2 DEF Session!Blacklist
  <2>4. /\ DOMAIN ask' = Requests
        /\ \A p \in Requests : ask'[p] = IF p \in {q} THEN None ELSE ask[p]
    BY <2>1, <2>2
  <2>. HIDE DEF t
  <2>5. t \in DOMAIN token \cup {None} /\ {q} \in SUBSET Requests
    BY <2>2
  <2>. QED  BY <2>1, <2>2, <2>3, <2>4, <2>5, PairStep
<1>6. ASSUME NEW q \in Requests, Session!Logout(q) PROVE SessionInv'
  BY <1>6, SpendStep DEF Session!Logout
<1>7. ASSUME NEW q \in Requests, Session!Fail(q) PROVE SessionInv'
  BY <1>7, SpendStep DEF Session!Fail
<1>. QED  BY <1>1, <1>2, <1>3, <1>4, <1>5, <1>6, <1>7 DEF SessionsStep

-----------------------------------------------------------------------------
\* Pricing

\* Rounding to whole MDL: the integer division, in inequalities.
Rounding(q, n, den) ==
  /\ Price!QuantizeToUnit(n, den) = 100 * q
  /\ q =< n \div den + 1
  /\ 2 * den * (100 * q) =< 2 * n + den * 100
  /\ 2 * n + den * 100 < 2 * den * (100 * (q + 1))

LEMMA Rounded ==
  ASSUME NEW n \in Nat, NEW den \in {1, Hundred}
  PROVE  \E q \in Nat : Rounding(q, n, den)
<1>. DEFINE q == (2 * n + den * 100) \div (2 * den * 100)
<1>1. Price!QuantizeToUnit(n, den) = 100 * q
  BY DEF Price!QuantizeToUnit, Price!Unit
<1>2. CASE den = 1
  <2>1. /\ q \in Nat /\ q =< n + 1 /\ 200 * q =< 2 * n + 100 /\ 2 * n + 100 < 200 * (q + 1)
    BY <1>2
  <2>2. n \div den = n
    BY <1>2
  <2>. QED  BY <1>1, <1>2, <2>1, <2>2 DEF Rounding
<1>3. CASE den = Hundred
  <2>1. /\ q \in Nat /\ q =< n \div 10000 + 1
        /\ 2000000 * q =< 2 * n + 1000000 /\ 2 * n + 1000000 < 2000000 * (q + 1)
    BY <1>3 DEF Hundred
  <2>. QED  BY <1>1, <1>3, <2>1 DEF Hundred, Rounding
<1>. QED  BY <1>2, <1>3

\* The nearest whole MDL, a half upwards, is what rounding gives.
LEMMA RoundedIsNearest ==
  ASSUME NEW n \in Nat, NEW den \in {1, Hundred}
  PROVE  Price!Max(Price!WholeUpTo(n, den)) = Price!QuantizeToUnit(n, den)
<1>1. PICK q \in Nat : Rounding(q, n, den)
  BY Rounded
<1>. DEFINE W == Price!WholeUpTo(n, den)
<1>2. n \div den \in Nat
  BY DEF Hundred
<1>3. 100 * q \in W
  BY <1>1, <1>2 DEF Price!WholeUpTo, Price!Unit, Rounding
<1>4. ASSUME NEW d \in W PROVE d =< 100 * q /\ d \in Nat
  <2>1. PICK k \in 0 .. n \div den + 1 : d = k * 100 /\ 2 * den * d =< 2 * n + den * 100
    BY <1>4 DEF Price!WholeUpTo, Price!Unit
  <2>2. k \in Nat
    BY <1>2, <2>1
  <2>3. k < q + 1
    BY <1>1, <2>1, <2>2 DEF Hundred, Rounding
  <2>. QED  BY <2>1, <2>2, <2>3
<1>. HIDE DEF W
<1>5. \A x : x \in W /\ (\A y \in W : x >= y) => x = 100 * q
  BY <1>3, <1>4
<1>6. \A y \in W : 100 * q >= y
  BY <1>4
<1>7. Price!Max(W) = 100 * q
  BY <1>3, <1>5, <1>6 DEF Price!Max
<1>. QED  BY <1>1, <1>7 DEF W, Rounding

LEMMA PromoTerms ==
  ASSUME Price!Init
  PROVE  /\ promo.type \in {"percent", "fixed"}
         /\ promo.value \in Nat /\ (promo.type = "percent" => promo.value =< Hundred)
         /\ subtotal \in Nat /\ subtotal \in Subtotals
         /\ carrierPrice \in Nat \cup {None} /\ settings.courierRate = 70
         /\ settings.freeFrom \in Nat \cup {None} /\ settings.npFreeFrom \in Nat \cup {None}
         /\ choice.service \in {"own", "novapost"} /\ choice.type \in {"pickup", "courier"}
         /\ choice.service = "novapost" => choice.type = "courier"
<1>1. /\ promo.type \in {"percent", "fixed"} /\ promo.value \in Nat
      /\ (promo.type = "percent" => promo.value =< Hundred)
  <2>1. CASE promo \in [type : {"percent"}, value : Percents]
    <3>1. promo.type = "percent" /\ promo.value \in Percents
      BY <2>1
    <3>2. promo.value \in 0 .. Hundred
      BY <3>1, PricesAssumption
    <3>3. promo.value \in Nat /\ promo.value =< Hundred
      <4>1. Hundred \in Nat
        BY DEF Hundred
      <4>. QED  BY <3>2, <4>1
    <3>. QED  BY <3>1, <3>3
  <2>2. CASE promo \in [type : {"fixed"}, value : Amounts]
    <3>1. promo.type = "fixed" /\ promo.value \in Amounts
      BY <2>2
    <3>. QED  BY <3>1, PricesAssumption
  <2>. QED  BY <2>1, <2>2 DEF Price!Init, Price!Promos
<1>. QED  BY <1>1, PricesAssumption DEF Price!Init, Price!DeliveryChoices

\* The discount of a basket.
LEMMA Discounted ==
  ASSUME Price!Init, NEW goods \in Nat
  PROVE  /\ Price!ComputeDiscount(promo, goods) \in Nat
         /\ Price!ComputeDiscount(promo, goods) =< goods
<1>1. goods * promo.value \in Nat
  BY PromoTerms
<1>2. /\ Price!QuantizeToUnit(goods * promo.value, Hundred) \in Nat
      /\ Price!QuantizeToUnit(promo.value, 1) \in Nat
  <2>1. \E q \in Nat : Price!QuantizeToUnit(goods * promo.value, Hundred) = 100 * q
    BY <1>1, Rounded, Zenon DEF Rounding
  <2>2. \E q \in Nat : Price!QuantizeToUnit(promo.value, 1) = 100 * q
    BY PromoTerms, Rounded DEF Rounding
  <2>. QED  BY <2>1, <2>2
<1>3. Price!Hundred = Hundred
  BY DEF Price!Hundred, Hundred
<1>. QED  BY <1>2, <1>3 DEF Price!ComputeDiscount, Price!Smaller

LEMMA DiscountNearest ==
  ASSUME Price!Init PROVE Price!DiscountIsNearest
<1>. DEFINE pc == Price!QuantizeToUnit(subtotal * promo.value, 10000)
            fx == Price!QuantizeToUnit(promo.value, 1)
            top == IF promo.type = "percent" THEN pc ELSE fx
<1>1. subtotal * promo.value \in Nat /\ promo.value \in Nat /\ subtotal \in Nat
  BY PromoTerms
<1>2. Price!Max(Price!WholeUpTo(subtotal * promo.value, 10000)) = pc
  BY <1>1, RoundedIsNearest DEF Hundred
<1>3. Price!Max(Price!WholeUpTo(promo.value, 1)) = fx
  BY <1>1, RoundedIsNearest
<1>4. top \in Nat
  <2>1. \E q \in Nat : pc = 100 * q
    BY <1>1, Rounded DEF Hundred, Rounding
  <2>2. \E q \in Nat : fx = 100 * q
    BY <1>1, Rounded DEF Rounding
  <2>. QED  BY <2>1, <2>2
<1>5. Price!discount = Price!Smaller(top, subtotal)
  BY DEF Price!discount, Price!ComputeDiscount, Price!Hundred
<1>. HIDE DEF pc, fx
<1>6. Price!DiscountIsNearest <=> Price!discount = Price!Min({top, subtotal})
  BY <1>2, <1>3 DEF Price!DiscountIsNearest
<1>. HIDE DEF top
<1>7. Price!Min({top, subtotal}) = Price!Smaller(top, subtotal)
  BY <1>1, <1>4 DEF Price!Min, Price!Smaller
<1>. QED  BY <1>5, <1>6, <1>7

\* The delivery charge and the breakdown, of a basket of this choice.
Charge(goods) ==
  Price!DeliveryCost(settings, choice, goods - Price!ComputeDiscount(promo, goods), carrierPrice)

LEMMA Quoted ==
  ASSUME Price!Init, NEW goods \in Nat
  PROVE  LET d == Price!ComputeDiscount(promo, goods)
             q == Price!QuoteOf(goods)
         IN  /\ Charge(goods) \in Nat \cup {None}
             /\ Charge(goods) = None <=> q = None
             /\ q # None => q.delivery = Charge(goods) /\ q.total = goods - d + Charge(goods)
<1>. DEFINE d == Price!ComputeDiscount(promo, goods)
            c == Charge(goods)
            quoted == [subtotal |-> goods, discount |-> d, delivery |-> c, total |-> goods - d + c]
<1>1. d \in Nat /\ d =< goods
  BY Discounted
<1>2. Price!Payable(goods, d) = goods - d
  BY <1>1 DEF Price!Payable, Price!Larger
<1>3. c \in Nat \cup {None}
  BY PromoTerms DEF Charge, Price!DeliveryCost
<1>4. Price!QuoteOf(goods) = IF c = None THEN None ELSE quoted
  BY <1>2 DEF Price!QuoteOf, Price!QuoteFromLines, Charge
<1>5. c # None => quoted # None
  <2>1. c # None => quoted \in [subtotal : Nat, discount : Nat, delivery : Nat, total : Nat]
    BY <1>1, <1>3
  <2>. QED  BY <2>1, NoneAssumption
<1>. QED  BY <1>3, <1>4, <1>5

LEMMA TotalFair ==
  ASSUME Price!Init PROVE Price!TotalIsFair
<1>. DEFINE d == Price!ComputeDiscount(promo, subtotal)
            goods == subtotal - d
<1>1. d \in Nat /\ d =< subtotal /\ goods \in Nat
  BY Discounted, PromoTerms
<1>2. /\ Charge(subtotal) \in Nat \cup {None}
      /\ Charge(subtotal) = None <=> Price!QuoteOf(subtotal) = None
      /\ Price!QuoteOf(subtotal) # None =>
           /\ Price!QuoteOf(subtotal).delivery = Charge(subtotal)
           /\ Price!QuoteOf(subtotal).total = goods + Charge(subtotal)
  BY Quoted, PromoTerms
<1>3. Charge(subtotal) = Price!DeliveryCost(settings, choice, goods, carrierPrice)
  BY DEF Charge
<1>4. Price!discount = d /\ Price!quote = Price!QuoteOf(subtotal)
  BY DEF Price!discount, Price!quote
<1>. DEFINE np == settings.npFreeFrom
            own == settings.freeFrom
            limit == IF choice.service = "novapost" /\ np # None THEN np ELSE own
            free == choice.type = "pickup" \/ (limit # None /\ goods >= limit)
            price == IF choice.service = "novapost" THEN carrierPrice ELSE settings.courierRate
            refused == \/ choice.service = "own" /\ choice.type = "courier" /\ ~ choice.hasAddress
                       \/ ~ free /\ price = None
<1>5. /\ choice.service \in {"own", "novapost"} /\ choice.type \in {"pickup", "courier"}
      /\ choice.service = "novapost" => choice.type = "courier"
      /\ 0 # None /\ settings.courierRate # None
  BY PromoTerms, NoneAssumption
<1>6. Charge(subtotal) = IF refused THEN None ELSE IF free THEN 0 ELSE price
  <2>. HIDE DEF goods
  <2>1. CASE choice.service = "novapost"
    BY <1>3, <1>5, <2>1 DEF Price!DeliveryCost, Price!AsksCarrier, Price!IsFree, Price!FreeDeliveryThreshold
  <2>2. CASE choice.service = "own" /\ choice.type = "pickup"
    BY <1>3, <1>5, <2>2 DEF Price!DeliveryCost
  <2>3. CASE choice.service = "own" /\ choice.type = "courier"
    BY <1>3, <1>5, <2>3 DEF Price!DeliveryCost, Price!IsFree
  <2>. QED  BY <1>5, <2>1, <2>2, <2>3
<1>7. refused \/ (IF free THEN 0 ELSE price) # None
  BY <1>5
<1>8. Price!TotalIsFair <=>
        IF refused THEN Price!quote = None
        ELSE /\ Price!quote.total = goods + (IF free THEN 0 ELSE price)
             /\ Price!quote.total >= Price!quote.delivery
             /\ goods >= 0
  BY <1>4 DEF Price!TotalIsFair
<1>. HIDE DEF d, goods, free, price, refused
<1>. QED  BY <1>1, <1>2, <1>4, <1>6, <1>7, <1>8

\* A larger basket leaves no less to pay for the goods, among whole-MDL ones.
LEMMA PayableGrows ==
  ASSUME Price!Init, NEW a \in Nat, NEW b \in Nat, a =< b
  PROVE  100 * a - Price!ComputeDiscount(promo, 100 * a)
           =< 100 * b - Price!ComputeDiscount(promo, 100 * b)
<1>. DEFINE v == promo.value
            A == Price!QuantizeToUnit((100 * a) * v, 10000)
            B == Price!QuantizeToUnit((100 * b) * v, 10000)
            F == Price!QuantizeToUnit(v, 1)
<1>1. v \in Nat /\ promo.type \in {"percent", "fixed"}
  BY PromoTerms
<1>2. CASE promo.type = "percent"
  <2>1. v =< 10000
    BY <1>2, PromoTerms DEF Hundred
  <2>. DEFINE x == (100 * a) * v
              y == (100 * b) * v
  <2>2. x \in Nat /\ y \in Nat
    BY <1>1
  <2>3. PICK p \in Nat : Rounding(p, x, 10000)
    BY <2>2, Rounded DEF Hundred
  <2>4. PICK q \in Nat : Rounding(q, y, 10000)
    BY <2>2, Rounded DEF Hundred
  <2>5. y - x = (100 * (b - a)) * v
    BY <1>1
  <2>6. (b - a) * v =< (b - a) * 10000
    BY <1>1, <2>1
  <2>7. y - x =< 1000000 * (b - a)
    BY <1>1, <2>5, <2>6
  <2>8. A = 100 * p /\ B = 100 * q
    BY <2>3, <2>4 DEF Rounding
  <2>9. 2000000 * p =< 2 * x + 1000000 /\ 2 * x + 1000000 < 2000000 * (p + 1)
    BY <2>2, <2>3 DEF Rounding
  <2>10. 2000000 * q =< 2 * y + 1000000 /\ 2 * y + 1000000 < 2000000 * (q + 1)
    BY <2>2, <2>4 DEF Rounding
  <2>. HIDE DEF A, B, x, y
  <2>11. q - p =< b - a
    BY <2>2, <2>7, <2>9, <2>10
  <2>12. /\ Price!ComputeDiscount(promo, 100 * a) = Price!Smaller(A, 100 * a)
         /\ Price!ComputeDiscount(promo, 100 * b) = Price!Smaller(B, 100 * b)
    BY <1>2 DEF A, B, Price!ComputeDiscount, Price!Hundred
  <2>. QED  BY <2>8, <2>11, <2>12 DEF Price!Smaller
<1>3. CASE promo.type = "fixed"
  <2>1. F \in Nat
    <3>1. \E q \in Nat : F = 100 * q
      BY <1>1, Rounded DEF Rounding
    <3>. QED  BY <3>1
  <2>2. /\ Price!ComputeDiscount(promo, 100 * a) = Price!Smaller(F, 100 * a)
        /\ Price!ComputeDiscount(promo, 100 * b) = Price!Smaller(F, 100 * b)
    BY <1>3 DEF Price!ComputeDiscount
  <2>. HIDE DEF F
  <2>. QED  BY <2>1, <2>2 DEF Price!Smaller
<1>. QED  BY <1>1, <1>2, <1>3

\* What is left to pay decides the charge, and more of it never raises it.
LEMMA ChargeFalls ==
  ASSUME Price!Init, NEW p \in Nat, NEW q \in Nat, p =< q,
         Price!DeliveryCost(settings, choice, p, carrierPrice) # None
  PROVE  LET less == Price!DeliveryCost(settings, choice, p, carrierPrice)
             more == Price!DeliveryCost(settings, choice, q, carrierPrice)
         IN  more # None /\ more =< less
<1>1. /\ choice.service \in {"own", "novapost"} /\ choice.type \in {"pickup", "courier"}
      /\ choice.service = "novapost" => choice.type = "courier"
      /\ carrierPrice \in Nat \cup {None} /\ settings.courierRate = 70
      /\ settings.freeFrom \in Nat \cup {None} /\ settings.npFreeFrom \in Nat \cup {None}
      /\ None \notin Nat
  BY PromoTerms, NoneAssumption
<1>2. CASE choice.service = "novapost"
  <2>. DEFINE limit == Price!FreeDeliveryThreshold(settings, choice.service)
  <2>1. limit \in Nat \cup {None}
    BY <1>1 DEF Price!FreeDeliveryThreshold
  <2>2. \A g : Price!DeliveryCost(settings, choice, g, carrierPrice) =
                 IF limit # None /\ g >= limit THEN 0 ELSE carrierPrice
    BY <1>1, <1>2 DEF Price!DeliveryCost, Price!AsksCarrier, Price!IsFree
  <2>. HIDE DEF limit
  <2>. QED  BY <1>1, <2>1, <2>2
<1>3. CASE choice.service = "own" /\ choice.type = "pickup"
  BY <1>1, <1>3 DEF Price!DeliveryCost
<1>4. CASE choice.service = "own" /\ choice.type = "courier"
  BY <1>1, <1>4 DEF Price!DeliveryCost, Price!IsFree
<1>. QED  BY <1>1, <1>2, <1>3, <1>4

LEMMA DeliveryNoDearer ==
  ASSUME Price!Init PROVE Price!MoreGoodsNoDearerDelivery
<1>. SUFFICES ASSUME NEW more \in Subtotals,
                     subtotal % Price!Unit = 0, more % Price!Unit = 0, more >= subtotal,
                     Price!quote # None
              PROVE  Price!QuoteOf(more) # None /\ Price!QuoteOf(more).delivery =< Price!quote.delivery
  BY DEF Price!MoreGoodsNoDearerDelivery
<1>1. more \in Nat /\ subtotal \in Nat
  BY PricesAssumption, PromoTerms
<1>. DEFINE a == subtotal \div 100
            b == more \div 100
            p == subtotal - Price!ComputeDiscount(promo, subtotal)
            q == more - Price!ComputeDiscount(promo, more)
<1>2. a \in Nat /\ b \in Nat /\ subtotal = 100 * a /\ more = 100 * b /\ a =< b
  BY <1>1 DEF Price!Unit
<1>3. p \in Nat /\ q \in Nat
  BY <1>1, Discounted
<1>4. p =< q
  <2>. HIDE DEF a, b
  <2>. QED  BY <1>2, PayableGrows
<1>5. /\ Charge(subtotal) = Price!DeliveryCost(settings, choice, p, carrierPrice)
      /\ Charge(more) = Price!DeliveryCost(settings, choice, q, carrierPrice)
  BY DEF Charge
<1>6. Price!quote = Price!QuoteOf(subtotal)
  BY DEF Price!quote
<1>7. Charge(subtotal) # None /\ Price!quote.delivery = Charge(subtotal)
  BY <1>1, <1>6, Quoted
<1>8. Charge(more) # None /\ Charge(more) =< Charge(subtotal)
  <2>. HIDE DEF p, q
  <2>. QED  BY <1>3, <1>4, <1>5, <1>7, ChargeFalls
<1>9. Price!QuoteOf(more) # None /\ Price!QuoteOf(more).delivery = Charge(more)
  BY <1>1, <1>8, Quoted
<1>. QED  BY <1>7, <1>8, <1>9

\* The money of every basket, coupon, threshold and carrier price, not only of sampled
\* ones: the discount is the nearest whole MDL within the goods, what is charged is the
\* goods and the delivery that is due, and a larger basket never pays more for delivery
\* (_compute_discount, _quote_from_lines).
THEOREM PricesStayFair == Spec => []PricesAreFair
<1>. DEFINE Inv == part = "pricing" => Price!Init
<1>1. Init => Inv
  BY DEF Init
<1>2. Inv /\ [Next]_vars => Inv'
  BY PartStep DEF pricing, Price!Init
<1>3. Inv => PricesAreFair
  BY DiscountNearest, TotalFair, DeliveryNoDearer DEF PricesAreFair
<1>. QED  BY <1>1, <1>2, <1>3, PTL DEF Spec

-----------------------------------------------------------------------------
\* Accounts

PersonalRow == [owner : Users, kind : {"address", "cart"}, default : BOOLEAN]
Creating == {"create", "create default", "cart"}
Changing == {"prefer", "unprefer", "remove"}

\* Rows and accounts.
RowsInv ==
  /\ DOMAIN user = Users /\ DOMAIN row = RowIds /\ DOMAIN job = Requests
  /\ \A u \in Account!Registered : user[u] \in Flags
  /\ \A i \in RowIds : row[i] # None =>
       /\ row[i] \in PersonalRow /\ row[i].owner \in Account!Registered
       /\ row[i].default => row[i].kind = "address"
  /\ erased \subseteq Account!Registered
  /\ begun \in 0 .. MaxRequests

IsAddressOf(i, u) == row[i].owner = u /\ row[i].kind = "address"

\* What a request knows of the rows, whatever others did since it read them.
JobInv(q) ==
  LET j == job[q]
  IN  /\ j = [kind |-> j.kind, on |-> j.on, item |-> j.item, change |-> j.change,
              seen |-> j.seen, was |-> j.was, defaults |-> j.defaults, doomed |-> j.doomed]
      /\ j.on \in Account!Registered /\ j.seen \in Flags /\ j.was \in BOOLEAN
      /\ j.kind \in Account!PersonalKinds \cup {"staff"}
      /\ "phone" \in j.change.up => "active" \in j.change.up
      /\ "phone" \notin j.change.down
      /\ j.kind \in Creating => j.item \in RowIds /\ row[j.item] = None
      /\ j.kind \in Changing =>
           j.item \in RowIds /\ (row[j.item] # None => IsAddressOf(j.item, j.on))
      /\ j.kind \notin Creating \cup Changing => j.item = None
      /\ j.kind \notin {"create default", "prefer"} => j.defaults = {}
      /\ \A i \in j.defaults : i \in RowIds /\ (row[i] # None => IsAddressOf(i, j.on))
      /\ j.doomed # None => j.kind = "erase" /\ j.doomed \subseteq Account!OwnedBy(j.on)

JobsInv == \A q \in Requests : job[q] # None => JobInv(q)

\* The id of a new row is known to one request only, and a row is deleted by one erasure.
ApartInv ==
  \A p, q \in Requests : p # q /\ job[p] # None /\ job[q] # None =>
    /\ job[p].kind \in Creating => job[p].item # job[q].item /\ job[p].item \notin job[q].defaults
    /\ job[p].doomed # None /\ job[q].doomed # None => job[p].doomed \cap job[q].doomed = {}
    /\ Account!About(job[p].kind, job[p].on) \cap Account!About(job[q].kind, job[q].on) \subseteq overlapped

\* Nothing personal is left, nobody acts for the account, and it is staff by a new grant only.
Bare(u) ==
  /\ Account!OwnedBy(u) = {} /\ ~user[u].email /\ ~user[u].phone /\ ~user[u].active
  /\ user[u].staff => u \in granted

\* A request whose account nobody else is working on still sees what it read.
SeesTrue(q) ==
  LET j == job[q]
  IN  /\ j.seen = user[j.on]
      /\ j.kind \in {"prefer", "unprefer"} => row[j.item] # None /\ j.was = row[j.item].default
      /\ j.kind = "create default" => j.defaults = Account!Defaults(j.on)
      /\ j.kind = "prefer" => j.defaults = IF j.was THEN {} ELSE Account!Defaults(j.on)
      /\ j.doomed # None => j.doomed = Account!OwnedBy(j.on)
      /\ j.on \in erased => j.kind = "staff"

AloneInv(u) ==
  <<"user", u>> \notin overlapped =>
    /\ u \in erased => Bare(u)
    /\ \A a, b \in Account!Defaults(u) : a = b
    /\ \A q \in Requests : job[q] # None /\ job[q].on = u => SeesTrue(q)

\* A request that takes a flag of staff away.
Weakens(q) == job[q].kind = "staff" /\ job[q].change.down # {}

\* Someone besides the account a request of staff is about can enter the back office.
StaffInv ==
  <<"staff", None>> \notin overlapped /\ ~left =>
    /\ Account!ActiveStaff # {}
    /\ \A q \in Requests : job[q] # None /\ Weakens(q) =>
         Account!ActiveStaff \ {job[q].on} # {}
    /\ \A q \in Requests : job[q] # None /\ job[q].kind = "erase" =>
         user[job[q].on].staff = job[q].seen.staff

AccountInv == RowsInv /\ JobsInv /\ ApartInv /\ (\A u \in Users : AloneInv(u)) /\ StaffInv

LEMMA AccountInit ==
  ASSUME Account!Init PROVE AccountInv
<1>1. PICK boss \in SUBSET Users :
        /\ boss # {}
        /\ user = [u \in Users |-> IF u \in boss THEN Account!NewUser(FALSE, TRUE) ELSE None]
  BY DEF Account!Init
<1>2. \A u \in Users : user[u] # None =>
        user[u] \in Flags /\ user[u].staff /\ user[u].active /\ u \in boss
  BY <1>1 DEF Account!NewUser, Flags
<1>3. \A u \in boss : user[u] \in Flags /\ user[u] # None
  <2>1. Account!NewUser(FALSE, TRUE) \in Flags
    BY DEF Account!NewUser, Flags
  <2>. QED  BY <1>1, <2>1, NoneAssumption
<1>4. Account!ActiveStaff # {}
  BY <1>1, <1>2, <1>3 DEF Account!ActiveStaff, Account!Registered
<1>5. /\ row = [i \in RowIds |-> None] /\ job = [q \in Requests |-> None]
      /\ begun = 0 /\ erased = {}
  BY DEF Account!Init
<1>6. RowsInv
  <2>1. begun \in 0 .. MaxRequests
    BY <1>5, BoundsAssumption
  <2>. QED  BY <1>1, <1>2, <1>5, <2>1 DEF RowsInv, Account!Registered
<1>7. JobsInv /\ ApartInv /\ StaffInv
  BY <1>4, <1>5 DEF JobsInv, ApartInv, StaffInv
<1>8. \A u \in Users : AloneInv(u)
  BY <1>5 DEF AloneInv, Account!Defaults, Account!OwnedBy
<1>. QED  BY <1>6, <1>7, <1>8 DEF AccountInv

LEMMA AccountSound ==
  ASSUME AccountInv
  PROVE  Account!TypeOK /\ Account!ErasedStaysErased /\ Account!OneDefault /\ Account!AWayIn
<1>1. Account!TypeOK
  BY DEF AccountInv, RowsInv, Account!TypeOK
<1>2. \A u \in erased : u \in Users
  BY DEF AccountInv, RowsInv, Account!Registered
<1>3. Account!ErasedStaysErased
  BY <1>2 DEF AccountInv, AloneInv, Bare, Account!ErasedStaysErased, Account!CurrentUser
<1>4. ASSUME NEW u \in Users, <<"user", u>> \notin overlapped
      PROVE  Account!Cardinality(Account!Defaults(u)) =< 1
  <2>1. \A a, b \in Account!Defaults(u) : a = b
    BY <1>4 DEF AccountInv, AloneInv
  <2>2. Account!Defaults(u) = {} \/ \E a : Account!Defaults(u) = {a}
    BY <2>1
  <2>3. Cardinality(Account!Defaults(u)) =< 1
    <3>1. CASE Account!Defaults(u) = {}
      BY <3>1, FS_EmptySet
    <3>2. CASE \E a : Account!Defaults(u) = {a}
      <4>1. Cardinality(Account!Defaults(u)) = 1
        BY <3>2, FS_Singleton
      <4>. QED  BY <4>1
    <3>. QED  BY <2>2, <3>1, <3>2
  <2>. QED  BY <2>3 DEF Account!Cardinality, Cardinality
<1>5. Account!OneDefault
  BY <1>4 DEF Account!OneDefault
<1>6. Account!AWayIn
  BY DEF AccountInv, StaffInv, Account!AWayIn
<1>. QED  BY <1>1, <1>3, <1>5, <1>6

\* Requests about the same account, or about the staff, are known to overlap.
LEMMA Overlapping ==
  ASSUME AccountInv, NEW p \in Requests, NEW q \in Requests, p # q, job[p] # None, job[q] # None
  PROVE  /\ job[p].on = job[q].on => <<"user", job[q].on>> \in overlapped
         /\ {job[p].kind, job[q].kind} \subseteq {"staff", "erase"} =>
              <<"staff", None>> \in overlapped
BY DEF AccountInv, ApartInv, Account!About

\* The rows of a user are those of nobody else, and a request on the user's behalf leaves
\* the rows of others alone.
LEMMA RowsOfOthers ==
  ASSUME NEW u, NEW w \in Users, w # u,
         \A i \in RowIds : row'[i] # row[i] =>
           (row[i] = None \/ row[i].owner = u) /\ (row'[i] = None \/ row'[i].owner = u)
  PROVE  /\ Account!OwnedBy(w)' = Account!OwnedBy(w)
         /\ Account!Defaults(w)' = Account!Defaults(w)
         /\ \A i \in RowIds : row[i] # None /\ row[i].owner = w => row'[i] = row[i]
<1>1. \A i \in RowIds : row[i] # None /\ row[i].owner = w => row'[i] = row[i]
  OBVIOUS
<1>2. Account!OwnedBy(w)' = Account!OwnedBy(w)
  BY DEF Account!OwnedBy
<1>3. \A i \in Account!OwnedBy(w) : row'[i] = row[i]
  BY <1>1 DEF Account!OwnedBy
<1>. QED  BY <1>1, <1>2, <1>3 DEF Account!Defaults

\* A request that ends: what it changed is its account and rows of that account.
EndsWell(q, u) ==
  /\ job[q] # None /\ u = job[q].on
  /\ job' = [job EXCEPT ![q] = None]
  /\ UNCHANGED <<begun, overlapped>>
  /\ DOMAIN row' = RowIds
  /\ \A i \in RowIds : row'[i] # row[i] =>
       /\ \/ /\ row[i] # None /\ row[i].owner = u
             /\ \A p \in Requests \ {q} : job[p] # None /\ job[p].doomed # None => i \notin job[p].doomed
          \/ row[i] = None /\ job[q].kind \in Creating /\ i = job[q].item
       /\ row'[i] # None => /\ row'[i] \in PersonalRow /\ row'[i].owner = u
                            /\ row'[i].default => row'[i].kind = "address"
                            /\ row[i] # None => row'[i].kind = row[i].kind
  /\ DOMAIN user' = Users /\ user'[u] \in Flags
  /\ \A w \in Users : w # u => user'[w] = user[w]
  /\ erased' \subseteq erased \cup {u} /\ erased \ {u} \subseteq erased'
  /\ \A w \in erased \ {u} : w \in granted => w \in granted'
  /\ <<"user", u>> \notin overlapped =>
       /\ u \in erased' => Bare(u)'
       /\ \A a, b \in Account!Defaults(u)' : a = b
  /\ StaffInv'

LEMMA EndStep ==
  ASSUME AccountInv, NEW q \in Requests, NEW u, EndsWell(q, u)
  PROVE  AccountInv'
<1>. USE DEF AccountInv, EndsWell
<1>1. /\ DOMAIN user = Users /\ DOMAIN row = RowIds /\ DOMAIN job = Requests
      /\ JobInv(q) /\ u \in Account!Registered
  BY DEF RowsInv, JobsInv, JobInv
<1>2. Account!Registered' = Account!Registered
  BY <1>1, NoneAssumption DEF Account!Registered
<1>3. \A p \in Requests : job'[p] # None => p # q /\ job[p] # None /\ job'[p] = job[p]
  BY <1>1
<1>4. RowsInv'
  <2>1. \A w \in Account!Registered' : user'[w] \in Flags
    BY <1>1, <1>2 DEF RowsInv, Account!Registered
  <2>2. \A i \in RowIds : row'[i] # None =>
          /\ row'[i] \in PersonalRow /\ row'[i].owner \in Account!Registered'
          /\ row'[i].default => row'[i].kind = "address"
    BY <1>1, <1>2 DEF RowsInv
  <2>3. erased' \subseteq Account!Registered'
    BY <1>1, <1>2 DEF RowsInv
  <2>. QED  BY <1>1, <2>1, <2>2, <2>3 DEF RowsInv
<1>5. ASSUME NEW p \in Requests, job'[p] # None PROVE JobInv(p)'
  <2>. DEFINE j == job[p]
  <2>1. p # q /\ job[p] # None /\ job'[p] = j /\ JobInv(p)
    BY <1>3, <1>5 DEF JobsInv
  <2>2. j.kind \in Creating => j.item # job[q].item
    BY <2>1 DEF ApartInv
  <2>3. \A i \in RowIds :
          (i = j.item \/ i \in j.defaults) /\ job[q].kind \in Creating => i # job[q].item
    BY <2>1 DEF ApartInv
  <2>4. j.kind \in Creating => row'[j.item] = None
    BY <2>1, <2>2 DEF JobInv
  <2>5. ASSUME NEW i \in RowIds, i = j.item \/ i \in j.defaults,
               row[i] # None => IsAddressOf(i, j.on), row'[i] # None
        PROVE  IsAddressOf(i, j.on)'
    <3>1. row[i] # None
      BY <2>3, <2>5
    <3>2. CASE row'[i] = row[i]
      BY <2>1, <2>5, <3>1, <3>2 DEF IsAddressOf
    <3>3. CASE row'[i] # row[i]
      BY <2>1, <2>5, <3>1, <3>3 DEF IsAddressOf
    <3>. QED  BY <3>2, <3>3
  <2>6. j.doomed # None => j.doomed \subseteq Account!OwnedBy(j.on)'
    <3>1. ASSUME j.doomed # None, NEW i \in j.doomed
          PROVE  i \in RowIds /\ row'[i] = row[i] /\ row[i] # None /\ row[i].owner = j.on
      <4>1. i \in RowIds /\ row[i] # None /\ row[i].owner = j.on
        BY <2>1, <3>1 DEF JobInv, Account!OwnedBy
      <4>. QED  BY <2>1, <3>1, <4>1
    <3>. QED  BY <2>1, <3>1 DEF Account!OwnedBy
  <2>7. j.kind \in Changing /\ row'[j.item] # None => IsAddressOf(j.item, j.on)'
    BY <2>1, <2>5 DEF JobInv
  <2>8. \A i \in j.defaults : i \in RowIds /\ (row'[i] # None => IsAddressOf(i, j.on)')
    BY <2>1, <2>5 DEF JobInv
  <2>9. j.on \in Account!Registered'
    BY <1>2, <2>1 DEF JobInv
  <2>. QED  BY <2>1, <2>4, <2>6, <2>7, <2>8, <2>9 DEF JobInv
<1>6. ApartInv'
  BY <1>3 DEF ApartInv, Account!About
<1>7. ASSUME NEW w \in Users PROVE AloneInv(w)'
  <2>1. CASE w = u
    <3>1. <<"user", u>> \notin overlapped => \A p \in Requests : job'[p] # None => job'[p].on # u
      BY <1>3, Overlapping
    <3>. QED  BY <2>1, <3>1 DEF AloneInv
  <2>2. CASE w # u
    <3>1. /\ Account!OwnedBy(w)' = Account!OwnedBy(w)
          /\ Account!Defaults(w)' = Account!Defaults(w)
          /\ \A i \in RowIds : row[i] # None /\ row[i].owner = w => row'[i] = row[i]
      <4>1. \A i \in RowIds : row'[i] # row[i] =>
              (row[i] = None \/ row[i].owner = u) /\ (row'[i] = None \/ row'[i].owner = u)
        OBVIOUS
      <4>. HIDE DEF AccountInv, EndsWell
      <4>. QED  BY <2>2, <4>1, RowsOfOthers
    <3>2. /\ w \in erased' <=> w \in erased
          /\ user'[w] = user[w]
          /\ w \in erased /\ w \in granted => w \in granted'
      BY <2>2
    <3>3. ASSUME NEW p \in Requests, job'[p] # None, job'[p].on = w, <<"user", w>> \notin overlapped
          PROVE  SeesTrue(p)'
      <4>1. job'[p] = job[p] /\ job[p] # None /\ SeesTrue(p) /\ JobInv(p)
        BY <1>3, <3>3 DEF AloneInv, JobsInv
      <4>2. ASSUME job[p].kind \in {"prefer", "unprefer"} PROVE row'[job[p].item] = row[job[p].item]
        <5>1. job[p].on = w /\ row[job[p].item] # None
          BY <3>3, <4>1, <4>2 DEF SeesTrue
        <5>2. job[p].item \in RowIds /\ row[job[p].item].owner = w
          BY <4>1, <4>2, <5>1 DEF JobInv, Changing, IsAddressOf
        <5>. QED  BY <3>1, <5>1, <5>2
      <4>. HIDE DEF AccountInv, EndsWell
      <4>. QED  BY <3>1, <3>2, <3>3, <4>1, <4>2 DEF SeesTrue
    <3>. QED  BY <3>1, <3>2, <3>3 DEF AloneInv, Bare
  <2>. QED  BY <2>1, <2>2
<1>. QED  BY <1>4, <1>5, <1>6, <1>7 DEF JobsInv

\* A request that ends without touching anybody's way into the back office.
LEMMA StaffKept ==
  ASSUME AccountInv, NEW q \in Requests, job[q] # None, job' = [job EXCEPT ![q] = None],
         DOMAIN user' = Users, Account!Registered' = Account!Registered,
         \A w \in Users : user[w] # None =>
           user'[w].staff = user[w].staff /\ user'[w].active = user[w].active,
         overlapped' = overlapped, left' = left
  PROVE  StaffInv'
<1>1. DOMAIN job = Requests /\ Account!Registered \subseteq Users
  BY DEF AccountInv, RowsInv, Account!Registered
<1>2. \A p \in Requests : job'[p] # None =>
        job'[p] = job[p] /\ job[p] # None /\ job[p].on \in Account!Registered
  BY <1>1 DEF AccountInv, JobsInv, JobInv
<1>3. Account!ActiveStaff' = Account!ActiveStaff
  BY <1>1 DEF Account!ActiveStaff, Account!Registered
<1>4. \A p \in Requests : job'[p] # None => user'[job[p].on].staff = user[job[p].on].staff
  BY <1>1, <1>2 DEF Account!Registered
<1>. QED  BY <1>2, <1>3, <1>4 DEF AccountInv, StaffInv, Weakens

LEMMA FailStep ==
  ASSUME AccountInv, NEW q \in Requests, NEW u, u = job[q].on, Account!Fail(q)
  PROVE  AccountInv'
<1>1. /\ job[q] # None /\ job' = [job EXCEPT ![q] = None]
      /\ UNCHANGED <<user, row, begun, erased, granted, left, overlapped>>
  BY DEF Account!Fail
<1>2. DOMAIN row = RowIds /\ DOMAIN user = Users /\ u \in Account!Registered
  BY <1>1 DEF AccountInv, RowsInv, JobsInv, JobInv
<1>3. u \in Users /\ user[u] \in Flags
  BY <1>2 DEF AccountInv, RowsInv, Account!Registered
<1>4. Account!Registered' = Account!Registered
  BY <1>1 DEF Account!Registered
<1>5. StaffInv'
  BY <1>1, <1>2, <1>4, StaffKept
<1>6. <<"user", u>> \notin overlapped =>
        /\ (u \in erased' => Bare(u)')
        /\ \A a, b \in Account!Defaults(u)' : a = b
  BY <1>1, <1>3 DEF AccountInv, AloneInv, Bare, Account!OwnedBy, Account!Defaults
<1>7. EndsWell(q, u)
  BY <1>1, <1>2, <1>3, <1>5, <1>6 DEF EndsWell
<1>. QED  BY <1>7, EndStep

\* A request of the user's own ends only if the account was not erased meanwhile, or
\* requests of it overlapped.
LEMMA NotErased ==
  ASSUME AccountInv, NEW q \in Requests, job[q] # None, job[q].kind # "staff",
         <<"user", job[q].on>> \notin overlapped
  PROVE  SeesTrue(q) /\ job[q].on \notin erased
BY DEF AccountInv, JobsInv, JobInv, Account!Registered, AloneInv, SeesTrue

LEMMA UpdateMeStep ==
  ASSUME AccountInv, NEW q \in Requests, NEW u, u = job[q].on, Account!UpdateMe(q)
  PROVE  AccountInv'
<1>1. /\ job[q] # None /\ job[q].kind = "phone" /\ job' = [job EXCEPT ![q] = None]
      /\ user' = [user EXCEPT ![u].phone = ~job[q].seen.phone]
      /\ UNCHANGED <<row, begun, erased, granted, left, overlapped>>
  BY DEF Account!UpdateMe, Account!Ends
<1>2. /\ DOMAIN row = RowIds /\ DOMAIN user = Users
      /\ u \in Users /\ user[u] \in Flags /\ user[u] # None /\ job[q].seen \in Flags
  BY <1>1 DEF AccountInv, RowsInv, JobsInv, JobInv, Account!Registered
<1>3. user'[u] \in Flags /\ user'[u].staff = user[u].staff /\ user'[u].active = user[u].active
  BY <1>1, <1>2 DEF Flags
<1>4. \A w \in Users : w # u => user'[w] = user[w]
  BY <1>1, <1>2
<1>5. DOMAIN user' = Users
  BY <1>1, <1>2
<1>6. Account!Registered' = Account!Registered
  BY <1>2, <1>3, <1>4, NoneAssumption DEF Account!Registered
<1>7. StaffInv'
  BY <1>1, <1>3, <1>4, <1>5, <1>6, StaffKept
<1>8. job[q].kind # "staff"
  BY <1>1
<1>9. <<"user", u>> \notin overlapped =>
        (u \in erased' => Bare(u)') /\ \A a, b \in Account!Defaults(u)' : a = b
  <2>. SUFFICES ASSUME <<"user", u>> \notin overlapped
                PROVE  u \notin erased /\ \A a, b \in Account!Defaults(u)' : a = b
    BY <1>1
  <2>1. u \notin erased
    BY <1>1, <1>8, NotErased
  <2>2. \A a, b \in Account!Defaults(u) : a = b
    BY <1>2 DEF AccountInv, AloneInv
  <2>. QED  BY <1>1, <2>1, <2>2 DEF Account!Defaults, Account!OwnedBy
<1>10. /\ job[q] # None /\ job' = [job EXCEPT ![q] = None]
       /\ UNCHANGED <<row, begun, erased, granted, left, overlapped>>
  BY <1>1
<1>11. EndsWell(q, u)
  BY <1>2, <1>3, <1>4, <1>5, <1>7, <1>9, <1>10 DEF EndsWell
<1>. QED  BY <1>11, EndStep

LEMMA WriteCartStep ==
  ASSUME AccountInv, NEW q \in Requests, NEW u, u = job[q].on, Account!WriteCart(q)
  PROVE  AccountInv'
<1>. DEFINE i == job[q].item
            new == [owner |-> u, kind |-> "cart", default |-> FALSE]
<1>1. /\ job[q] # None /\ job[q].kind = "cart" /\ job' = [job EXCEPT ![q] = None]
      /\ row' = [row EXCEPT ![i] = new]
      /\ UNCHANGED <<user, begun, erased, granted, left, overlapped>>
  BY DEF Account!WriteCart, Account!Ends
<1>2. /\ DOMAIN row = RowIds /\ DOMAIN user = Users /\ i \in RowIds /\ row[i] = None
      /\ u \in Users /\ user[u] \in Flags /\ user[u] # None
  BY <1>1 DEF AccountInv, RowsInv, JobsInv, JobInv, Creating, Account!Registered
<1>3. Account!Registered' = Account!Registered
  BY <1>1 DEF Account!Registered
<1>4. StaffInv'
  BY <1>1, <1>2, <1>3, StaffKept
<1>5. job[q].kind # "staff" /\ job[q].kind \in Creating
  BY <1>1 DEF Creating
<1>6. /\ row'[i] = new /\ new \in PersonalRow /\ new.owner = u /\ ~new.default
      /\ \A x \in RowIds : x # i => row'[x] = row[x]
      /\ DOMAIN row' = RowIds
  BY <1>1, <1>2 DEF PersonalRow
<1>. HIDE DEF new
<1>7. <<"user", u>> \notin overlapped =>
        (u \in erased' => Bare(u)') /\ \A a, b \in Account!Defaults(u)' : a = b
  <2>. SUFFICES ASSUME <<"user", u>> \notin overlapped
                PROVE  u \notin erased /\ \A a, b \in Account!Defaults(u)' : a = b
    BY <1>1
  <2>1. u \notin erased
    BY <1>1, <1>5, NotErased
  <2>2. \A a, b \in Account!Defaults(u) : a = b
    BY <1>2 DEF AccountInv, AloneInv
  <2>3. \A x \in RowIds : row'[x] # None /\ row'[x].owner = u /\ row'[x].default => x # i
    BY <1>6
  <2>. HIDE DEF i
  <2>. QED  BY <1>1, <1>6, <2>1, <2>2, <2>3 DEF Account!Defaults, Account!OwnedBy
<1>8. \A x \in RowIds : row'[x] # row[x] =>
        /\ row[x] = None /\ x = job[q].item
        /\ row'[x] # None => /\ row'[x] \in PersonalRow /\ row'[x].owner = u
                             /\ row'[x].default => row'[x].kind = "address"
  BY <1>2, <1>6
<1>9. /\ job[q] # None /\ job' = [job EXCEPT ![q] = None]
      /\ UNCHANGED <<user, begun, erased, granted, left, overlapped>>
  BY <1>1
<1>10. DOMAIN row' = RowIds
  BY <1>6
<1>11. EndsWell(q, u)
  BY <1>2, <1>4, <1>5, <1>7, <1>8, <1>9, <1>10 DEF EndsWell
<1>. QED  BY <1>11, EndStep

\* An address written, changed or deleted: at most one default remains.
LEMMA WriteAddressStep ==
  ASSUME AccountInv, NEW q \in Requests, NEW u, u = job[q].on, Account!WriteAddress(q)
  PROVE  AccountInv'
<1>. DEFINE k == job[q].kind
            target == job[q].item
            ds == job[q].defaults
            taken == ds \cup (IF k \in {"create", "create default"} THEN {} ELSE {target})
<1>1. /\ job[q] # None /\ k \in {"create", "create default", "prefer", "unprefer", "remove"}
      /\ taken \cap Account!Locked = {}
      /\ \A i \in taken : row[i] # None
      /\ row' = Account!AddressRows(q) /\ job' = [job EXCEPT ![q] = None]
      /\ UNCHANGED <<user, begun, erased, granted, left, overlapped>>
  BY DEF Account!WriteAddress, Account!Ends
<1>2. /\ DOMAIN row = RowIds /\ DOMAIN user = Users
      /\ u \in Users /\ user[u] \in Flags /\ user[u] # None
      /\ JobInv(q)
  BY <1>1 DEF AccountInv, RowsInv, JobsInv, JobInv, Account!Registered
<1>3. /\ target \in RowIds /\ ds \subseteq RowIds /\ job[q].was \in BOOLEAN
      /\ k \in Creating \cup Changing /\ k # "staff"
      /\ \A i \in taken : i \in RowIds /\ row[i] \in PersonalRow /\ IsAddressOf(i, u)
  <2>1. k \in Creating \cup Changing /\ k # "staff"
    BY <1>1 DEF Creating, Changing
  <2>2. target \in RowIds /\ ds \subseteq RowIds /\ job[q].was \in BOOLEAN
    BY <1>2, <2>1 DEF JobInv
  <2>3. \A i \in taken : i \in RowIds /\ IsAddressOf(i, u)
    BY <1>1, <1>2, <2>1, <2>2 DEF JobInv, Creating, Changing
  <2>. QED  BY <1>1, <2>1, <2>2, <2>3 DEF AccountInv, RowsInv
<1>4. StaffInv'
  <2>1. Account!Registered' = Account!Registered
    BY <1>1 DEF Account!Registered
  <2>. QED  BY <1>1, <1>2, <2>1, StaffKept
<1>5. DOMAIN row' = RowIds
  BY <1>1 DEF Account!AddressRows
\* What becomes of each row.
<1>6. \A i \in RowIds : i # target /\ i \notin ds => row'[i] = row[i]
  BY <1>1 DEF Account!AddressRows
<1>7. \A i \in ds : i # target => row'[i] = [row[i] EXCEPT !.default = FALSE]
  BY <1>1, <1>3 DEF Account!AddressRows
<1>. DEFINE flag == IF job[q].was = (k = "prefer") THEN row[target].default ELSE ~job[q].was
<1>8. k = "remove" => row'[target] = None
  BY <1>1, <1>3 DEF Account!AddressRows
<1>9. k \in {"prefer", "unprefer"} => row'[target] = [row[target] EXCEPT !.default = flag]
  BY <1>1, <1>3 DEF Account!AddressRows
<1>10. k \in {"create", "create default"} =>
         row'[target] = [owner |-> u, kind |-> "address", default |-> k = "create default"]
  BY <1>1, <1>3 DEF Account!AddressRows
<1>. HIDE DEF k, target, ds, taken
<1>11. \A i \in RowIds : row'[i] # None /\ row'[i] # row[i] =>
        /\ row'[i] \in PersonalRow /\ row'[i].owner = u /\ row'[i].kind = "address"
  <2>1. CASE k \in {"create", "create default"}
    <3>1. row'[target] \in PersonalRow /\ row'[target].owner = u /\ row'[target].kind = "address"
      <4>. DEFINE d == k = "create default"
      <4>1. d \in BOOLEAN
        OBVIOUS
      <4>2. row'[target] = [owner |-> u, kind |-> "address", default |-> d]
        BY <1>10, <2>1
      <4>. HIDE DEF d
      <4>. QED  BY <1>2, <4>1, <4>2 DEF PersonalRow
    <3>2. \A i \in ds : i # target =>
            row'[i] \in PersonalRow /\ row'[i].owner = u /\ row'[i].kind = "address"
      BY <1>3, <1>7 DEF taken, PersonalRow, IsAddressOf
    <3>. QED  BY <1>6, <3>1, <3>2
  <2>2. CASE k \notin {"create", "create default"}
    <3>1. \A i \in ds : i # target =>
            row'[i] \in PersonalRow /\ row'[i].owner = u /\ row'[i].kind = "address"
      BY <1>3, <1>7 DEF taken, PersonalRow, IsAddressOf
    <3>2. k = "remove" \/ k \in {"prefer", "unprefer"}
      BY <1>1, <2>2 DEF k
    <3>3. row[target] \in PersonalRow /\ row[target].owner = u /\ row[target].kind = "address"
      BY <1>3, <2>2 DEF taken, IsAddressOf
    <3>4. ASSUME k \in {"prefer", "unprefer"}
          PROVE  row'[target] \in PersonalRow /\ row'[target].owner = u /\ row'[target].kind = "address"
      <4>1. flag \in BOOLEAN
        BY <1>3, <3>3 DEF PersonalRow
      <4>2. row'[target] = [row[target] EXCEPT !.default = flag]
        BY <1>9, <3>4
      <4>. HIDE DEF flag
      <4>. QED  BY <3>3, <4>1, <4>2 DEF PersonalRow
    <3>. QED  BY <1>6, <1>8, <3>1, <3>2, <3>4
  <2>. QED  BY <2>1, <2>2
<1>12. \A i \in RowIds : row'[i] # row[i] =>
         \/ i \in taken
         \/ row[i] = None /\ k \in Creating /\ i = target
  BY <1>2, <1>3, <1>6 DEF taken, JobInv, k, target, Creating
<1>13. <<"user", u>> \notin overlapped =>
         /\ u \notin erased
         /\ \A a, b \in Account!Defaults(u)' : a = b
  <2>. SUFFICES ASSUME <<"user", u>> \notin overlapped
                PROVE  u \notin erased /\ \A a, b \in Account!Defaults(u)' : a = b
    OBVIOUS
  <2>1. u \notin erased /\ SeesTrue(q)
    BY <1>1, <1>3, NotErased DEF k
  <2>2. \A a, b \in Account!Defaults(u) : a = b
    BY <1>2 DEF AccountInv, AloneInv
  <2>3. \A x \in Account!Defaults(u)' : x \in RowIds /\ row'[x] # None /\ row'[x].owner = u /\ row'[x].default
    BY DEF Account!Defaults, Account!OwnedBy
  <2>4. \A x \in RowIds : row[x] # None /\ row[x].owner = u /\ row[x].default => x \in Account!Defaults(u)
    BY DEF Account!Defaults, Account!OwnedBy
  <2>5. \A x \in ds : x # target => ~row'[x].default
    BY <1>3, <1>7 DEF taken, PersonalRow
  <2>6. \A x \in RowIds : x # target /\ x \in Account!Defaults(u)' => x \in Account!Defaults(u) \ ds
    BY <1>6, <2>3, <2>4, <2>5
  <2>7. CASE k = "create default" \/ (k = "prefer" /\ ~job[q].was)
    <3>1. ds = Account!Defaults(u)
      BY <2>1, <2>7 DEF SeesTrue, ds, k
    <3>. QED  BY <2>1, <2>3, <2>6, <3>1
  <2>8. CASE ~(k = "create default" \/ (k = "prefer" /\ ~job[q].was))
    <3>1. target \in Account!Defaults(u)' => target \in Account!Defaults(u)
      <4>1. CASE k = "create"
        <5>. DEFINE d == k = "create default"
        <5>1. row'[target] = [owner |-> u, kind |-> "address", default |-> d] /\ ~d
          BY <1>10, <4>1
        <5>. HIDE DEF d
        <5>2. ~row'[target].default
          BY <5>1
        <5>. QED  BY <2>3, <5>2
      <4>2. CASE k = "remove"
        BY <1>8, <2>3, <4>2
      <4>3. CASE k = "prefer"
        <5>1. row'[target] = [row[target] EXCEPT !.default = row[target].default]
          BY <1>3, <1>9, <2>8, <4>3
        <5>2. row[target] \in PersonalRow /\ row[target].owner = u /\ row[target] # None
          BY <1>1, <1>3, <4>3 DEF taken, IsAddressOf
        <5>. QED  BY <1>3, <2>3, <2>4, <5>1, <5>2 DEF PersonalRow
      <4>4. CASE k = "unprefer"
        <5>1. row[target] \in PersonalRow /\ row[target].owner = u /\ row[target] # None
          BY <1>1, <1>3, <4>4 DEF taken, IsAddressOf
        <5>2. job[q].was = row[target].default
          BY <2>1, <4>4 DEF SeesTrue, k, target
        <5>3. CASE job[q].was
          <6>1. row'[target] = [row[target] EXCEPT !.default = FALSE]
            BY <1>9, <4>4, <5>3
          <6>. QED  BY <2>3, <5>1, <6>1 DEF PersonalRow
        <5>4. CASE ~job[q].was
          <6>1. row'[target] = [row[target] EXCEPT !.default = row[target].default]
            BY <1>3, <1>9, <4>4, <5>4
          <6>. QED  BY <1>3, <2>3, <2>4, <5>1, <6>1 DEF PersonalRow
        <5>. QED  BY <5>3, <5>4
      <4>. QED  BY <1>1, <2>8, <4>1, <4>2, <4>3, <4>4 DEF k
    <3>. QED  BY <2>1, <2>2, <2>3, <2>6, <3>1
  <2>. QED  BY <2>7, <2>8
<1>14. \A i \in RowIds : row'[i] # row[i] =>
         \/ /\ row[i] # None /\ row[i].owner = u
            /\ \A p \in Requests \ {q} : job[p] # None /\ job[p].doomed # None => i \notin job[p].doomed
         \/ row[i] = None /\ k \in Creating /\ i = target
  <2>1. \A i \in taken : row[i] # None /\ row[i].owner = u
    BY <1>1, <1>3 DEF taken, IsAddressOf, ds, k, target
  <2>2. \A i \in taken, p \in Requests : job[p] # None /\ job[p].doomed # None => i \notin job[p].doomed
    BY <1>1 DEF Account!Locked, taken, ds, k, target
  <2>. QED  BY <1>12, <2>1, <2>2
<1>15. \A i \in RowIds : row'[i] # row[i] /\ row[i] # None /\ row'[i] # None => row'[i].kind = row[i].kind
  BY <1>3, <1>11, <1>12 DEF IsAddressOf
<1>16. EndsWell(q, u)
  <2>1. /\ job[q] # None /\ job' = [job EXCEPT ![q] = None]
        /\ UNCHANGED <<user, begun, erased, granted, left, overlapped>>
    BY <1>1
  <2>. QED  BY <1>2, <1>4, <1>5, <1>11, <1>13, <1>14, <1>15, <2>1 DEF EndsWell, k, target
<1>. QED  BY <1>16, EndStep

\* An erasure: the rows it deletes are all there were, if nothing else of the account was
\* under way, and a member of staff erased without being seen as one would have overlapped.
LEMMA AnonymizeStep ==
  ASSUME AccountInv, NEW q \in Requests, NEW u, u = job[q].on, Account!Anonymize(q)
  PROVE  AccountInv'
<1>1. /\ job[q] # None /\ job[q].kind = "erase" /\ job[q].doomed # None
      /\ row' = [i \in RowIds |-> IF i \in job[q].doomed THEN None ELSE row[i]]
      /\ user' = [user EXCEPT ![u] = Account!Scrubbed(u, job[q].seen)]
      /\ erased' = erased \cup {u}
      /\ granted' = granted \ {u}
      /\ left' = (left \/ job[q].seen.staff)
      /\ job' = [job EXCEPT ![q] = None]
      /\ UNCHANGED <<begun, overlapped>>
  BY DEF Account!Anonymize, Account!Ends
<1>2. /\ DOMAIN row = RowIds /\ DOMAIN user = Users /\ DOMAIN job = Requests
      /\ u \in Users /\ user[u] \in Flags /\ user[u] # None
      /\ JobInv(q) /\ job[q].seen \in Flags /\ job[q].doomed \subseteq Account!OwnedBy(u)
  BY <1>1 DEF AccountInv, RowsInv, JobsInv, JobInv, Account!Registered
<1>. DEFINE new == Account!Scrubbed(u, job[q].seen)
<1>3. new \in Flags /\ ~new.email
  BY <1>2 DEF Account!Scrubbed, Flags
<1>4. /\ job[q].seen = user[u] => ~new.phone /\ ~new.active /\ ~new.staff
      /\ ~job[q].seen.staff => new.staff = user[u].staff
  BY <1>2 DEF Account!Scrubbed, Flags
<1>5. user' = [user EXCEPT ![u] = new]
  BY <1>1
<1>. HIDE DEF new
<1>6. user'[u] = new /\ DOMAIN user' = Users /\ \A w \in Users : w # u => user'[w] = user[w]
  BY <1>2, <1>5
<1>7. DOMAIN row' = RowIds /\ \A i \in RowIds : row'[i] = IF i \in job[q].doomed THEN None ELSE row[i]
  BY <1>1
<1>8. ASSUME <<"user", u>> \notin overlapped
      PROVE  Bare(u)' /\ \A a, b \in Account!Defaults(u)' : a = b
  <2>1. SeesTrue(q)
    BY <1>1, <1>2, <1>8 DEF AccountInv, AloneInv
  <2>2. job[q].doomed = Account!OwnedBy(u) /\ job[q].seen = user[u]
    BY <1>1, <2>1 DEF SeesTrue
  <2>3. Account!OwnedBy(u)' = {}
    BY <1>7, <2>2 DEF Account!OwnedBy
  <2>4. Account!Defaults(u)' = {}
    BY <2>3 DEF Account!Defaults
  <2>. QED  BY <1>3, <1>4, <1>6, <2>2, <2>3, <2>4 DEF Bare
<1>9. StaffInv'
  <2>. SUFFICES ASSUME <<"staff", None>> \notin overlapped, ~left, ~job[q].seen.staff
                PROVE  /\ Account!ActiveStaff' # {}
                       /\ \A p \in Requests : job'[p] # None /\ Weakens(p)' =>
                            Account!ActiveStaff' \ {job'[p].on} # {}
                       /\ \A p \in Requests : job'[p] # None /\ job'[p].kind = "erase" =>
                            user'[job'[p].on].staff = job'[p].seen.staff
    BY <1>1 DEF StaffInv
  <2>1. user[u].staff = job[q].seen.staff /\ Account!ActiveStaff # {}
    BY <1>1 DEF AccountInv, StaffInv
  <2>2. ~user[u].staff /\ ~new.staff
    BY <1>4, <2>1
  <2>3. Account!ActiveStaff \subseteq Account!ActiveStaff'
    <3>1. ASSUME NEW w \in Account!ActiveStaff PROVE w \in Users /\ user'[w] = user[w]
      BY <1>6, <2>2 DEF Account!ActiveStaff, Account!Registered
    <3>. QED  BY <3>1 DEF Account!ActiveStaff, Account!Registered
  <2>4. \A p \in Requests : job'[p] # None => job'[p].kind \notin {"staff", "erase"}
    <3>1. ASSUME NEW p \in Requests, job'[p] # None PROVE job'[p].kind \notin {"staff", "erase"}
      <4>1. p # q /\ job'[p] = job[p] /\ job[p] # None
        BY <1>1, <1>2, <3>1
      <4>. QED  BY <1>1, <4>1, Overlapping
    <3>. QED  BY <3>1
  <2>. QED  BY <2>1, <2>3, <2>4 DEF Weakens
<1>10. EndsWell(q, u)
  <2>1. \A i \in RowIds : row'[i] # row[i] =>
          /\ row[i] # None /\ row[i].owner = u /\ row'[i] = None
          /\ \A p \in Requests \ {q} : job[p] # None /\ job[p].doomed # None => i \notin job[p].doomed
    BY <1>1, <1>2, <1>7 DEF Account!OwnedBy, AccountInv, ApartInv
  <2>2. /\ job[q] # None /\ job' = [job EXCEPT ![q] = None] /\ UNCHANGED <<begun, overlapped>>
        /\ erased' = erased \cup {u} /\ granted' = granted \ {u}
    BY <1>1
  <2>. QED  BY <1>3, <1>6, <1>7, <1>8, <1>9, <2>1, <2>2 DEF EndsWell
<1>. QED  BY <1>10, EndStep

\* A change of the staff flags.
LEMMA UpdateStaffStep ==
  ASSUME AccountInv, NEW q \in Requests, NEW u, u = job[q].on, Account!UpdateStaff(q)
  PROVE  AccountInv'
<1>. DEFINE c == job[q].change
            seen == job[q].seen
            new == Account!StaffFlags(u, c, seen)
<1>1. /\ job[q] # None /\ job[q].kind = "staff"
      /\ user' = [user EXCEPT ![u] = new]
      /\ erased' = IF "active" \in c.up THEN erased \ {u} ELSE erased
      /\ granted' = (IF "staff" \in c.up THEN granted \cup {u} ELSE granted) \cap erased'
      /\ job' = [job EXCEPT ![q] = None]
      /\ UNCHANGED <<row, begun, left, overlapped>>
  BY DEF Account!UpdateStaff, Account!Ends
<1>2. /\ DOMAIN row = RowIds /\ DOMAIN user = Users /\ DOMAIN job = Requests
      /\ u \in Users /\ user[u] \in Flags /\ user[u] # None /\ seen \in Flags
      /\ "phone" \in c.up => "active" \in c.up
      /\ "phone" \notin c.down
  BY <1>1 DEF AccountInv, RowsInv, JobsInv, JobInv, Account!Registered
<1>3. /\ new \in Flags /\ new.email = user[u].email
      /\ c.down = {} => (user[u].staff => new.staff) /\ (user[u].active => new.active)
      /\ "staff" \notin c.up /\ ~user[u].staff => ~new.staff
      /\ "active" \notin c.up /\ ~user[u].active => ~new.active
      /\ "phone" \notin c.up => new.phone = user[u].phone
  <2>. DEFINE written == Account!Written(c, seen)
              phoneLeft == IF "phone" \in written THEN TRUE ELSE user[u].phone
              activeLeft == IF "active" \in written THEN "active" \in c.up ELSE user[u].active
              staffLeft == IF "staff" \in written THEN "staff" \in c.up ELSE user[u].staff
  <2>1. new = [email |-> user[u].email, phone |-> phoneLeft, active |-> activeLeft, staff |-> staffLeft]
    BY DEF Account!StaffFlags
  <2>2. \A x \in written : x \in c.up \/ x \in c.down
    BY DEF Account!Written
  <2>. HIDE DEF written, new, c
  <2>3. /\ user[u].email \in BOOLEAN /\ user[u].phone \in BOOLEAN
        /\ user[u].active \in BOOLEAN /\ user[u].staff \in BOOLEAN
    BY <1>2 DEF Flags
  <2>9. ("active" \in c.up) \in BOOLEAN /\ ("staff" \in c.up) \in BOOLEAN
    OBVIOUS
  <2>4. phoneLeft \in BOOLEAN /\ activeLeft \in BOOLEAN /\ staffLeft \in BOOLEAN
    <3>1. phoneLeft \in BOOLEAN
      BY <2>3, Zenon
    <3>2. activeLeft \in BOOLEAN
      BY <2>3, <2>9, Zenon
    <3>3. staffLeft \in BOOLEAN
      BY <2>3, <2>9, Zenon
    <3>. QED  BY <3>1, <3>2, <3>3
  <2>5. "phone" \notin c.up => phoneLeft = user[u].phone
    BY <1>2, <2>2
  <2>6. /\ c.down = {} => (user[u].staff => staffLeft) /\ (user[u].active => activeLeft)
        /\ "staff" \notin c.up /\ ~user[u].staff => ~staffLeft
        /\ "active" \notin c.up /\ ~user[u].active => ~activeLeft
    BY <2>2, Zenon
  <2>. HIDE DEF phoneLeft, activeLeft, staffLeft
  <2>7. new \in Flags /\ new.email = user[u].email /\ new.phone = phoneLeft
    BY <2>1, <2>3, <2>4 DEF Flags
  <2>8. new.active = activeLeft /\ new.staff = staffLeft
    BY <2>1
  <2>. QED  BY <2>5, <2>6, <2>7, <2>8
<1>. HIDE DEF new, c
<1>4. user'[u] = new /\ DOMAIN user' = Users /\ \A w \in Users : w # u => user'[w] = user[w]
  BY <1>1, <1>2
<1>5. ASSUME <<"user", u>> \notin overlapped
      PROVE  (u \in erased' => Bare(u)') /\ \A a, b \in Account!Defaults(u)' : a = b
  <2>1. AloneInv(u)
    BY <1>2 DEF AccountInv
  <2>2. Account!Defaults(u)' = Account!Defaults(u) /\ Account!OwnedBy(u)' = Account!OwnedBy(u)
    BY <1>1 DEF Account!Defaults, Account!OwnedBy
  <2>3. u \in erased' => u \in erased /\ "active" \notin c.up /\ Bare(u)
    BY <1>1, <1>5, <2>1 DEF AloneInv
  <2>4. ASSUME u \in erased' PROVE Bare(u)'
    <3>1. new.staff => user[u].staff \/ "staff" \in c.up
      BY <1>3
    <3>2. new.staff => u \in granted'
      BY <1>1, <2>3, <2>4, <3>1 DEF Bare
    <3>3. ~new.email /\ ~new.phone /\ ~new.active
      BY <1>2, <1>3, <2>3, <2>4 DEF Bare
    <3>. QED  BY <1>4, <2>2, <2>3, <2>4, <3>2, <3>3 DEF Bare
  <2>. QED  BY <1>5, <2>1, <2>2, <2>4 DEF AloneInv
<1>6. StaffInv'
  <2>. SUFFICES ASSUME <<"staff", None>> \notin overlapped, ~left
                PROVE  /\ Account!ActiveStaff' # {}
                       /\ \A p \in Requests : job'[p] # None =>
                            job'[p].kind \notin {"staff", "erase"}
    BY <1>1 DEF StaffInv, Weakens
  <2>1. StaffInv
    BY DEF AccountInv
  <2>2. PICK w \in Account!ActiveStaff : c.down # {} => w # u
    BY <1>1, <2>1 DEF StaffInv, Weakens, c
  <2>3. w \in Users /\ user[w] # None /\ user[w].staff /\ user[w].active
    BY <2>2 DEF Account!ActiveStaff, Account!Registered
  <2>4. user'[w] # None /\ user'[w].staff /\ user'[w].active
    BY <1>3, <1>4, <2>2, <2>3, NoneAssumption
  <2>5. Account!ActiveStaff' # {}
    BY <2>3, <2>4 DEF Account!ActiveStaff, Account!Registered
  <2>6. ASSUME NEW p \in Requests, job'[p] # None PROVE job'[p].kind \notin {"staff", "erase"}
    <3>1. p # q /\ job'[p] = job[p] /\ job[p] # None
      BY <1>1, <1>2, <2>6
    <3>. QED  BY <1>1, <3>1, Overlapping
  <2>. QED  BY <2>5, <2>6
<1>7. EndsWell(q, u)
  <2>1. /\ job[q] # None /\ job' = [job EXCEPT ![q] = None] /\ UNCHANGED <<row, begun, overlapped>>
        /\ erased' \subseteq erased \cup {u} /\ erased \ {u} \subseteq erased'
        /\ \A w \in erased \ {u} : w \in granted => w \in granted'
    BY <1>1
  <2>. QED  BY <1>2, <1>3, <1>4, <1>5, <1>6, <2>1 DEF EndsWell
<1>. QED  BY <1>7, EndStep

\* The erasure notes the rows it is to delete.
LEMMA PurgeStep ==
  ASSUME AccountInv, NEW q \in Requests, Account!Purge(q)
  PROVE  AccountInv'
<1>. DEFINE u == job[q].on
            doomed == Account!OwnedBy(job[q].on)
<1>1. /\ job[q] # None /\ job[q].kind = "erase" /\ job[q].doomed = None
      /\ doomed \cap Account!Locked = {}
      /\ job' = [job EXCEPT ![q].doomed = doomed]
      /\ UNCHANGED <<user, row, begun, erased, granted, left, overlapped>>
  BY DEF Account!Purge, Account!Purged
<1>2. DOMAIN job = Requests /\ JobInv(q)
  BY <1>1 DEF AccountInv, RowsInv, JobsInv
<1>3. /\ \A p \in Requests : p # q => job'[p] = job[p]
      /\ job'[q].kind = "erase" /\ job'[q].on = job[q].on /\ job'[q].item = job[q].item
      /\ job'[q].change = job[q].change /\ job'[q].seen = job[q].seen /\ job'[q].was = job[q].was
      /\ job'[q].defaults = job[q].defaults /\ job'[q].doomed = doomed
      /\ job'[q] = [kind |-> job'[q].kind, on |-> job'[q].on, item |-> job'[q].item,
                    change |-> job'[q].change, seen |-> job'[q].seen, was |-> job'[q].was,
                    defaults |-> job'[q].defaults, doomed |-> job'[q].doomed]
  <2>. DEFINE j == job[q]
  <2>1. j = [kind |-> j.kind, on |-> j.on, item |-> j.item, change |-> j.change,
             seen |-> j.seen, was |-> j.was, defaults |-> j.defaults, doomed |-> j.doomed]
    BY <1>2 DEF JobInv
  <2>2. job'[q] = [j EXCEPT !.doomed = doomed] /\ \A p \in Requests : p # q => job'[p] = job[p]
    BY <1>1, <1>2
  <2>. HIDE DEF doomed, j
  <2>3. job'[q] = [kind |-> j.kind, on |-> j.on, item |-> j.item, change |-> j.change,
                   seen |-> j.seen, was |-> j.was, defaults |-> j.defaults, doomed |-> doomed]
    BY <2>1, <2>2
  <2>. QED  BY <1>1, <2>2, <2>3 DEF j
<1>4. /\ Account!Registered' = Account!Registered /\ Account!ActiveStaff' = Account!ActiveStaff
      /\ \A w : Account!OwnedBy(w)' = Account!OwnedBy(w)
      /\ \A w : Account!Defaults(w)' = Account!Defaults(w)
  BY <1>1 DEF Account!Registered, Account!ActiveStaff, Account!OwnedBy, Account!Defaults
<1>10. UNCHANGED <<user, row, begun, erased, granted, left, overlapped>> /\ job[q].kind = "erase"
  BY <1>1
<1>. HIDE DEF u, doomed
<1>5. RowsInv'
  BY <1>1, <1>2, <1>4 DEF AccountInv, RowsInv
<1>6. ASSUME NEW p \in Requests, job'[p] # None PROVE JobInv(p)'
  <2>1. CASE p = q
    BY <1>1, <1>2, <1>3, <1>4, <2>1 DEF JobInv, IsAddressOf, doomed, Creating, Changing
  <2>2. CASE p # q
    <3>1. job'[p] = job[p] /\ JobInv(p)
      BY <1>3, <1>6, <2>2 DEF AccountInv, JobsInv
    <3>. QED  BY <1>4, <1>10, <3>1 DEF JobInv, IsAddressOf
  <2>. QED  BY <2>1, <2>2
<1>7. ApartInv'
  <2>1. \A p \in Requests : p # q /\ job[p] # None /\ job[p].doomed # None =>
          doomed \cap job[p].doomed = {}
    BY <1>1 DEF Account!Locked
  <2>2. \A p \in Requests : job'[p] # None =>
          /\ job[p] # None /\ job'[p].kind = job[p].kind /\ job'[p].on = job[p].on
          /\ job'[p].item = job[p].item /\ job'[p].defaults = job[p].defaults
          /\ job'[p].doomed = IF p = q THEN doomed ELSE job[p].doomed
    BY <1>1, <1>3
  <2>. QED  BY <1>1, <2>1, <2>2 DEF AccountInv, ApartInv, Account!About
<1>8. ASSUME NEW w \in Users PROVE AloneInv(w)'
  <2>. SUFFICES ASSUME <<"user", w>> \notin overlapped
                PROVE  /\ w \in erased => Bare(w)'
                       /\ \A a, b \in Account!Defaults(w)' : a = b
                       /\ \A p \in Requests : job'[p] # None /\ job'[p].on = w => SeesTrue(p)'
    BY <1>1 DEF AloneInv
  <2>1. AloneInv(w)
    BY DEF AccountInv
  <2>2. ASSUME NEW p \in Requests, job'[p] # None, job'[p].on = w PROVE SeesTrue(p)'
    <3>1. CASE p = q
      <4>1. SeesTrue(q) /\ job[q].on = w
        BY <1>1, <1>3, <2>1, <2>2, <3>1 DEF AloneInv
      <4>2. job'[q].kind = job[q].kind
        BY <1>1, <1>3
      <4>. QED  BY <1>3, <1>4, <1>10, <3>1, <4>1, <4>2 DEF SeesTrue, doomed
    <3>2. CASE p # q
      <4>1. SeesTrue(p) /\ job'[p] = job[p]
        BY <1>3, <2>1, <2>2, <3>2 DEF AloneInv
      <4>. QED  BY <1>4, <1>10, <4>1 DEF SeesTrue
    <3>. QED  BY <3>1, <3>2
  <2>. QED  BY <1>1, <1>4, <2>1, <2>2 DEF AloneInv, Bare
<1>9. StaffInv'
  <2>1. \A p \in Requests : job'[p] # None =>
          /\ job[p] # None /\ job'[p].kind = job[p].kind /\ job'[p].on = job[p].on
          /\ job'[p].seen = job[p].seen /\ job'[p].change = job[p].change
    BY <1>1, <1>3
  <2>. QED  BY <1>1, <1>4, <2>1 DEF AccountInv, StaffInv, Weakens
<1>. QED  BY <1>5, <1>6, <1>7, <1>8, <1>9 DEF AccountInv, JobsInv

\* A new account, staff or not.
LEMMA InsertStep ==
  ASSUME AccountInv, NEW u \in Users, NEW phone \in BOOLEAN, NEW staff \in BOOLEAN,
         Account!Insert(u, phone, staff)
  PROVE  AccountInv'
<1>. DEFINE new == Account!NewUser(phone, staff)
<1>1. /\ user[u] = None /\ user' = [user EXCEPT ![u] = new]
      /\ UNCHANGED <<row, job, begun, erased, granted, left, overlapped>>
  BY DEF Account!Insert
<1>2. DOMAIN user = Users /\ new \in Flags
  BY DEF AccountInv, RowsInv, Account!NewUser, Flags
<1>. HIDE DEF new
<1>3. user'[u] = new /\ new \in Flags /\ new # None
      /\ DOMAIN user' = Users /\ \A w \in Users : w # u => user'[w] = user[w]
  BY <1>1, <1>2, NoneAssumption
<1>4. Account!Registered' = Account!Registered \cup {u} /\ u \notin Account!Registered
  BY <1>1, <1>3 DEF Account!Registered
<1>5. Account!ActiveStaff \subseteq Account!ActiveStaff'
  BY <1>3, <1>4 DEF Account!ActiveStaff, Account!Registered
<1>6. /\ \A w : Account!OwnedBy(w)' = Account!OwnedBy(w)
      /\ \A w : Account!Defaults(w)' = Account!Defaults(w)
  BY <1>1 DEF Account!OwnedBy, Account!Defaults
<1>7. RowsInv'
  BY <1>1, <1>3, <1>4 DEF AccountInv, RowsInv, Account!Registered
<1>8. \A p \in Requests : job'[p] # None =>
        job[p] # None /\ JobInv(p) /\ JobInv(p)' /\ job[p].on # u /\ job[p].on \in Users
  <2>1. ASSUME NEW p \in Requests, job[p] # None
        PROVE  JobInv(p) /\ JobInv(p)' /\ job[p].on # u /\ job[p].on \in Users
    <3>1. JobInv(p) /\ job[p].on \in Account!Registered
      BY <2>1 DEF AccountInv, JobsInv, JobInv
    <3>. QED  BY <1>1, <1>4, <1>6, <3>1 DEF JobInv, IsAddressOf, Account!Registered
  <2>. QED  BY <1>1, <2>1
<1>9. ApartInv'
  BY <1>1 DEF AccountInv, ApartInv, Account!About
<1>10. ASSUME NEW w \in Users PROVE AloneInv(w)'
  <2>1. AloneInv(w)
    BY DEF AccountInv
  <2>2. CASE w = u
    <3>1. u \notin erased /\ Account!OwnedBy(u) = {}
      BY <1>4 DEF AccountInv, RowsInv, Account!OwnedBy
    <3>2. Account!Defaults(u) = {}
      BY <3>1 DEF Account!Defaults
    <3>. QED  BY <1>1, <1>6, <1>8, <2>2, <3>1, <3>2 DEF AloneInv
  <2>3. CASE w # u
    <3>1. \A p \in Requests : job[p] # None /\ job[p].on = w /\ SeesTrue(p) => SeesTrue(p)'
      BY <1>1, <1>3, <1>6, <2>3 DEF SeesTrue
    <3>2. user'[w] = user[w]
      BY <1>3, <2>3
    <3>. QED  BY <1>1, <1>6, <2>1, <3>1, <3>2 DEF AloneInv, Bare
  <2>. QED  BY <2>2, <2>3
<1>11. StaffInv'
  <2>1. \A p \in Requests : job[p] # None => user'[job[p].on] = user[job[p].on]
    BY <1>1, <1>3, <1>8
  <2>. QED  BY <1>1, <1>5, <2>1 DEF AccountInv, StaffInv, Weakens
<1>. QED  BY <1>7, <1>8, <1>9, <1>10, <1>11 DEF AccountInv, JobsInv

\* What a route lets through.
LEMMA LetThrough ==
  ASSUME AccountInv, NEW kind \in Account!PersonalKinds \cup {"staff"}, NEW c,
         NEW who \in Users, NEW on \in Users, NEW target, Account!Accepted(kind, who, on, target, c)
  PROVE  /\ on \in Account!Registered
         /\ kind \in Creating => target \in Account!Free
         /\ kind \in Changing => target \in Account!OwnedBy(on) /\ row[target].kind = "address"
         /\ kind \notin Creating \cup Changing => target = None
         /\ kind \in Account!PersonalKinds => user[on].active
         /\ kind = "staff" /\ c.down # {} => Account!ActiveStaff # {on}
<1>1. CASE kind \in Changing
  BY <1>1 DEF Account!Accepted, Changing, Creating, Account!CurrentUser
<1>2. CASE kind \in Creating
  BY <1>2 DEF Account!Accepted, Changing, Creating, Account!CurrentUser
<1>3. CASE kind \in {"phone", "erase"}
  BY <1>3 DEF Account!Accepted, Changing, Creating, Account!CurrentUser
<1>4. CASE kind = "staff"
  BY <1>4 DEF Account!Accepted, Changing, Creating, Account!PersonalKinds, Account!LastActiveStaff
<1>. QED  BY <1>1, <1>2, <1>3, <1>4 DEF Creating, Changing, Account!PersonalKinds

LEMMA BeginStep ==
  ASSUME AccountInv, NEW q \in Requests, NEW kind \in Account!PersonalKinds \cup {"staff"},
         NEW c \in Account!StaffChanges,
         NEW who \in Users, NEW on \in Users, NEW target, Account!Begin(q, kind, who, on, target, c)
  PROVE  AccountInv'
<1>. DEFINE was == kind \in {"prefer", "unprefer"} /\ row[target].default
            ds == IF Account!ClearsDefault(kind, target) THEN Account!Defaults(on) ELSE {}
            new == [kind |-> kind, on |-> on, item |-> target, change |-> c,
                    seen |-> user[on], was |-> was,
                    defaults |-> ds, doomed |-> None]
            others == UNION {Account!About(job[p].kind, job[p].on) : p \in {p \in Requests : job[p] # None}}
<1>1. /\ job[q] = None /\ begun < MaxRequests /\ Account!Accepted(kind, who, on, target, c)
      /\ job' = [job EXCEPT ![q] = new]
      /\ begun' = begun + 1
      /\ overlapped' = overlapped \cup (Account!About(kind, on) \cap others)
      /\ UNCHANGED <<user, row, erased, granted, left>>
  BY DEF Account!Begin
<1>2. /\ DOMAIN user = Users /\ DOMAIN row = RowIds /\ DOMAIN job = Requests
  BY DEF AccountInv, RowsInv
<1>3. /\ on \in Account!Registered
      /\ kind \in Creating => target \in Account!Free
      /\ kind \in Changing => target \in Account!OwnedBy(on) /\ row[target].kind = "address"
      /\ kind \notin Creating \cup Changing => target = None
      /\ kind \in Account!PersonalKinds => user[on].active
      /\ kind = "staff" /\ c.down # {} => Account!ActiveStaff # {on}
  BY <1>1, LetThrough
<1>4. was \in BOOLEAN /\ (kind \in {"prefer", "unprefer"} => was = row[target].default)
  <2>1. kind \in {"prefer", "unprefer"} => row[target].default \in BOOLEAN
    BY <1>3 DEF Changing, Account!OwnedBy, AccountInv, RowsInv, PersonalRow
  <2>. QED  BY <2>1
<1>5. /\ kind \notin {"create default", "prefer"} => ds = {}
      /\ kind = "create default" => ds = Account!Defaults(on)
      /\ kind = "prefer" => ds = IF was THEN {} ELSE Account!Defaults(on)
  BY DEF Account!ClearsDefault
<1>6. user[on] \in Flags
  BY <1>3 DEF AccountInv, RowsInv
<1>7. /\ new.kind = kind /\ new.on = on /\ new.item = target /\ new.seen = user[on]
      /\ new.change = c /\ new.was = was /\ new.defaults = ds /\ new.doomed = None
      /\ new = [kind |-> new.kind, on |-> new.on, item |-> new.item, change |-> new.change,
                seen |-> new.seen, was |-> new.was, defaults |-> new.defaults, doomed |-> new.doomed]
  OBVIOUS
<1>8. ds \subseteq Account!Defaults(on)
  BY <1>5
<1>. HIDE DEF was, ds, new, others
<1>9. job'[q] = new /\ \A p \in Requests : p # q => job'[p] = job[p]
  BY <1>1, <1>2
<1>10. UNCHANGED <<user, row, erased, granted, left>> /\ overlapped \subseteq overlapped' /\ job[q] = None
  BY <1>1
<1>11. /\ Account!Registered' = Account!Registered /\ Account!ActiveStaff' = Account!ActiveStaff
       /\ \A w : Account!OwnedBy(w)' = Account!OwnedBy(w)
       /\ \A w : Account!Defaults(w)' = Account!Defaults(w)
  BY <1>10 DEF Account!Registered, Account!ActiveStaff, Account!OwnedBy, Account!Defaults
\* No address is a row another request has yet to make.
<1>12. \A i \in Account!Defaults(on) : i \in RowIds /\ row[i] # None /\ IsAddressOf(i, on)
  BY DEF Account!Defaults, Account!OwnedBy, IsAddressOf, AccountInv, RowsInv
<1>13. RowsInv'
  <2>1. begun' \in 0 .. MaxRequests
    BY <1>1, BoundsAssumption DEF AccountInv, RowsInv
  <2>2. DOMAIN job' = Requests
    BY <1>1, <1>2
  <2>. QED  BY <1>2, <1>10, <1>11, <2>1, <2>2 DEF AccountInv, RowsInv
<1>14. ASSUME NEW p \in Requests, job'[p] # None PROVE JobInv(p)'
  <2>1. CASE p = q
    <3>1. kind \in Creating => target \in RowIds /\ row[target] = None
      BY <1>3 DEF Account!Free
    <3>2. kind \in Changing => target \in RowIds /\ (row[target] # None => IsAddressOf(target, on))
      BY <1>3 DEF Account!OwnedBy, IsAddressOf
    <3>3. \A i \in ds : i \in RowIds /\ (row[i] # None => IsAddressOf(i, on))
      BY <1>8, <1>12
    <3>4. ("phone" \in c.up => "active" \in c.up) /\ "phone" \notin c.down
      BY DEF Account!StaffChanges
    <3>. QED  BY <1>3, <1>4, <1>5, <1>6, <1>7, <1>9, <1>10, <1>11, <2>1, <3>1, <3>2, <3>3, <3>4
              DEF JobInv, IsAddressOf
  <2>2. CASE p # q
    <3>1. job'[p] = job[p] /\ JobInv(p)
      BY <1>9, <1>14, <2>2 DEF AccountInv, JobsInv
    <3>. QED  BY <1>10, <1>11, <3>1 DEF JobInv, IsAddressOf
  <2>. QED  BY <2>1, <2>2
<1>15. ApartInv'
  <2>1. ASSUME NEW p \in Requests, job[p] # None, p # q
        PROVE  /\ kind \in Creating => target # job[p].item /\ target \notin job[p].defaults
               /\ job[p].kind \in Creating => job[p].item # target /\ job[p].item \notin ds
               /\ Account!About(kind, on) \cap Account!About(job[p].kind, job[p].on) \subseteq overlapped'
    <3>1. kind \in Creating => target # job[p].item /\ target \notin job[p].defaults
      BY <1>3, <2>1 DEF Account!Free
    <3>2. job[p].kind \in Creating => job[p].item \in RowIds /\ row[job[p].item] = None
      BY <2>1 DEF AccountInv, JobsInv, JobInv
    <3>3. kind \in Changing => target \in RowIds /\ row[target] # None
      BY <1>3 DEF Account!OwnedBy
    <3>4. job[p].kind \in Creating => job[p].item # target /\ job[p].item \notin ds
      BY <1>3, <1>8, <1>12, <3>1, <3>2, <3>3, NoneAssumption
    <3>5. Account!About(job[p].kind, job[p].on) \subseteq others
      BY <2>1 DEF others
    <3>. QED  BY <1>1, <3>1, <3>4, <3>5
  <2>2. \A p \in Requests : p # q /\ job'[p] # None => job'[p] = job[p] /\ job[p] # None
    BY <1>9
  <2>3. ASSUME NEW p \in Requests, NEW r \in Requests, p # r, job'[p] # None, job'[r] # None
        PROVE  /\ job'[p].kind \in Creating =>
                    job'[p].item # job'[r].item /\ job'[p].item \notin job'[r].defaults
               /\ job'[p].doomed # None /\ job'[r].doomed # None => job'[p].doomed \cap job'[r].doomed = {}
               /\ Account!About(job'[p].kind, job'[p].on) \cap Account!About(job'[r].kind, job'[r].on)
                    \subseteq overlapped'
    <3>1. CASE p = q
      BY <1>7, <1>9, <2>1, <2>2, <2>3, <3>1
    <3>2. CASE r = q
      BY <1>7, <1>9, <2>1, <2>2, <2>3, <3>2
    <3>3. CASE p # q /\ r # q
      BY <1>10, <2>2, <2>3, <3>3 DEF AccountInv, ApartInv
    <3>. QED  BY <3>1, <3>2, <3>3
  <2>. QED  BY <2>3 DEF ApartInv, Account!About
<1>16. ASSUME NEW w \in Users PROVE AloneInv(w)'
  <2>. SUFFICES ASSUME <<"user", w>> \notin overlapped'
                PROVE  /\ w \in erased => Bare(w)'
                       /\ \A a, b \in Account!Defaults(w)' : a = b
                       /\ \A p \in Requests : job'[p] # None /\ job'[p].on = w => SeesTrue(p)'
    BY <1>10 DEF AloneInv
  <2>1. AloneInv(w) /\ <<"user", w>> \notin overlapped
    BY <1>10 DEF AccountInv
  <2>2. ASSUME NEW p \in Requests, job'[p] # None, job'[p].on = w PROVE SeesTrue(p)'
    <3>1. CASE p = q
      <4>1. on = w
        BY <1>7, <1>9, <2>2, <3>1
      <4>2. on \in erased => kind = "staff"
        BY <1>3, <2>1, <4>1 DEF AloneInv, Bare
      <4>3. kind \in {"prefer", "unprefer"} => row[target] # None
        BY <1>3 DEF Account!OwnedBy, Changing
      <4>. QED  BY <1>4, <1>5, <1>7, <1>9, <1>10, <1>11, <3>1, <4>2, <4>3 DEF SeesTrue
    <3>2. CASE p # q
      <4>1. SeesTrue(p) /\ job'[p] = job[p]
        BY <1>9, <2>1, <2>2, <3>2 DEF AloneInv
      <4>2. user' = user /\ row' = row /\ erased' = erased
        BY <1>10
      <4>3. \A v : Account!OwnedBy(v)' = Account!OwnedBy(v) /\ Account!Defaults(v)' = Account!Defaults(v)
        BY <1>11
      <4>. QED  BY <4>1, <4>2, <4>3 DEF SeesTrue
    <3>. QED  BY <3>1, <3>2
  <2>. QED  BY <1>10, <1>11, <2>1, <2>2 DEF AloneInv, Bare
<1>17. StaffInv'
  <2>. SUFFICES ASSUME <<"staff", None>> \notin overlapped', ~left
                PROVE  /\ Account!ActiveStaff # {}
                       /\ \A p \in Requests : job'[p] # None /\ Weakens(p)' =>
                            Account!ActiveStaff \ {job'[p].on} # {}
                       /\ \A p \in Requests : job'[p] # None /\ job'[p].kind = "erase" =>
                            user[job'[p].on].staff = job'[p].seen.staff
    BY <1>10, <1>11 DEF StaffInv
  <2>1. StaffInv /\ <<"staff", None>> \notin overlapped
    BY <1>10 DEF AccountInv
  <2>2. kind = "staff" /\ c.down # {} => Account!ActiveStaff \ {on} # {}
    BY <1>3, <2>1 DEF StaffInv
  <2>3. \A p \in Requests : p # q /\ job'[p] # None => job'[p] = job[p] /\ job[p] # None
    BY <1>9
  <2>. QED  BY <1>7, <1>9, <2>1, <2>2, <2>3 DEF StaffInv, Weakens
<1>. QED  BY <1>13, <1>14, <1>15, <1>16, <1>17 DEF AccountInv, JobsInv

LEMMA AccountStep ==
  ASSUME AccountInv, AccountsStep PROVE AccountInv'
<1>1. ASSUME NEW q \in Requests, NEW on \in Users, NEW kind \in Account!PersonalKinds,
             NEW i \in RowIds \cup {None}, Account!Begin(q, kind, on, on, i, Account!NoChange)
      PROVE  AccountInv'
  <2>1. Account!NoChange \in Account!StaffChanges
    BY DEF Account!NoChange, Account!StaffChanges
  <2>. QED  BY <1>1, <2>1, BeginStep
<1>2. ASSUME NEW q \in Requests, NEW who \in Users, NEW on \in Users, NEW c \in Account!StaffChanges,
             Account!Begin(q, "staff", who, on, None, c)
      PROVE  AccountInv'
  BY <1>2, BeginStep
<1>3. ASSUME NEW q \in Requests,
             \/ Account!Fail(q) \/ Account!WriteAddress(q) \/ Account!WriteCart(q)
             \/ Account!UpdateMe(q) \/ Account!Anonymize(q) \/ Account!UpdateStaff(q)
      PROVE  AccountInv'
  <2>1. \E u : u = job[q].on
    OBVIOUS
  <2>. QED  BY <1>3, <2>1, FailStep, WriteAddressStep, WriteCartStep, UpdateMeStep,
               AnonymizeStep, UpdateStaffStep
<1>4. ASSUME NEW u \in Users, NEW phone \in BOOLEAN,
             Account!Register(u, phone) \/ \E who \in Users : Account!Hire(who, u, phone)
      PROVE  AccountInv'
  BY <1>4, InsertStep DEF Account!Register, Account!Hire
<1>. QED  BY <1>1, <1>2, <1>3, <1>4, PurgeStep DEF AccountsStep

\* An erased account holds nothing personal, is nobody's way in until staff make it active
\* again, and is staff only if staff gave it the flag since; a user has at most one default
\* address and the back office is never locked for everybody, unless requests of
\* the same account, or about staff, overlapped (anonymize_account, clear_default,
\* update_staff); a refresh token makes one pair and none after logout, unless two
\* requests used it at once (refresh, logout).
THEOREM AccountsStaySafe == Spec => []AccountsAreSafe
<1>. DEFINE Inv == (part = "accounts" => AccountInv) /\ (part = "sessions" => SessionInv)
<1>1. Init => Inv
  BY AccountInit, SessionInit DEF Init
<1>2. Inv /\ [Next]_vars => Inv'
  <2>. SUFFICES ASSUME Inv, [Next]_vars PROVE Inv'
    OBVIOUS
  <2>1. ASSUME part = "accounts" PROVE AccountInv'
    <3>1. CASE AccountsStep
      BY <2>1, <3>1, AccountStep
    <3>2. CASE UNCHANGED accounts
      <4>1. UNCHANGED <<user, row, job, begun, erased, granted, left, overlapped>> /\ AccountInv
        BY <2>1, <3>2 DEF accounts
      <4>2. RowsInv'
        BY <4>1 DEF AccountInv, RowsInv, Account!Registered
      <4>7. /\ Account!Registered' = Account!Registered
            /\ \A w : Account!OwnedBy(w)' = Account!OwnedBy(w)
            /\ \A w : Account!Defaults(w)' = Account!Defaults(w)
        BY <4>1 DEF Account!Registered, Account!OwnedBy, Account!Defaults
      <4>3. JobsInv'
        <5>1. ASSUME NEW p \in Requests, JobInv(p) PROVE JobInv(p)'
          <6>1. job'[p] = job[p] /\ row' = row
            BY <4>1
          <6>. QED  BY <4>7, <5>1, <6>1 DEF JobInv, IsAddressOf
        <5>. QED  BY <4>1, <5>1 DEF AccountInv, JobsInv
      <4>4. ApartInv'
        BY <4>1 DEF AccountInv, ApartInv, Account!About
      <4>5. StaffInv'
        BY <4>1 DEF AccountInv, StaffInv, Weakens, Account!ActiveStaff, Account!Registered
      <4>6. \A u \in Users : AloneInv(u)'
        <5>1. \A p \in Requests : SeesTrue(p) => SeesTrue(p)'
          BY <4>1, <4>7 DEF SeesTrue
        <5>. QED  BY <4>1, <4>7, <5>1 DEF AccountInv, AloneInv, Bare
      <4>. QED  BY <4>2, <4>3, <4>4, <4>5, <4>6 DEF AccountInv
    <3>. QED  BY <2>1, <3>1, <3>2, PartStep
  <2>2. ASSUME part = "sessions" PROVE SessionInv'
    <3>1. CASE SessionsStep
      BY <2>2, <3>1, SessionStep
    <3>2. CASE UNCHANGED sessions
      BY <2>2, <3>2 DEF sessions, SessionInv, TokenInv, UsedOnce, Asked, Spent,
           Session!Children, Session!Issued
    <3>. QED  BY <2>2, <3>1, <3>2, PartStep
  <2>. QED  BY <2>1, <2>2, PartStep
<1>3. Inv => AccountsAreSafe
  BY AccountSound, SessionSound DEF AccountsAreSafe
<1>. QED  BY <1>1, <1>2, <1>3, PTL DEF Spec

-----------------------------------------------------------------------------
\* The carrier

OnTheWay == {"cache", "token", "mint", "keep", "send", "save"}
Over == {"answered", "unavailable", "broken"}

Shaped(r) ==
  /\ r = [pc |-> r.pc, job |-> r.job, lang |-> r.lang, attempt |-> r.attempt, token |-> r.token,
          rows |-> r.rows, names |-> r.names, since |-> r.since]
  /\ r.names = [ro |-> r.names.ro, ru |-> r.names.ru]

\* The carrier's answer to this question, but for capitals and spaces.
Tells(rows, what) ==
  <<rows.kind, rows.lang, Folded[rows.text]>> = <<what.kind, what.lang, Folded[what.text]>>
\* It was given while the request was under way.
Since(rows, r) == rows.at \in Nat /\ rows.at >= r.since /\ rows.at =< clock

\* Where a request stands, and in which language it asks.
AskInv(e) ==
  LET r == errand[e]
  IN  /\ Shaped(r) /\ r.pc \in {"idle"} \cup OnTheWay \cup Over
      /\ r.since \in Nat /\ r.since =< clock /\ r.attempt \in {1, 2}
      /\ r.pc \in OnTheWay => clock =< r.since + 1
      /\ r.pc # "idle" => r.job \in Jobs
      /\ r.pc \in {"cache", "save"} => r.job.kind \in DOMAIN TTL
      /\ r.pc \in OnTheWay /\ r.job.kind \in DOMAIN TTL => r.lang = r.job.lang
      /\ r.pc \in OnTheWay /\ r.job.kind = "snapshot" => r.lang \in {"ro", "ru"}

\* A second attempt uses a token made for it, and knows if that one died.
RetryInv(e) ==
  errand[e].pc \in {"keep", "send"} /\ errand[e].attempt = 2 =>
    errand[e].token \in alive \/ "token" \in met[e]

\* What a request has to show.
ShownInv(e) ==
  LET r == errand[e]
  IN  /\ r.pc = "save" => Tells(r.rows, r.job) /\ Since(r.rows, r)
      /\ r.pc = "answered" /\ r.job.kind \in DOMAIN TTL =>
           Tells(r.rows, r.job) /\ r.rows.at \in Nat /\ r.rows.at + TTL[r.job.kind] >= r.since
      /\ r.pc = "answered" /\ r.job.kind = "quote" => r.rows.at >= r.since
      /\ r.names.ro # None => r.names.ro.lang = "ro" /\ r.names.ro.at >= r.since
      /\ r.names.ru # None => r.names.ru.lang = "ru" /\ r.names.ru.at >= r.since
      /\ r.pc = "unavailable" => r.job.kind # "snapshot" /\ met[e] \cap {"carrier", "token", "price"} # {}
      /\ r.pc = "broken" => "redis" \in met[e]

\* The cache holds answers to the question their key spells, kept from when they were stored,
\* which is no later than one unit after they were given.
RefsInv ==
  \A k \in DOMAIN refs :
    LET rows == refs[k].rows
    IN  /\ k = <<rows.kind, rows.lang, Folded[rows.text]>> /\ rows.kind \in DOMAIN TTL
        /\ rows.at \in Nat /\ refs[k].until \in Nat
        /\ refs[k].until =< rows.at + TTL[rows.kind] + 1

CarrierInv ==
  /\ clock \in Nat /\ DOMAIN errand = Errands /\ DOMAIN met = Errands
  /\ RefsInv
  /\ \A e \in Errands : AskInv(e) /\ RetryInv(e) /\ ShownInv(e)

LEMMA CarrierInit ==
  ASSUME Parcel!Init PROVE CarrierInv
<1>1. /\ clock = 0 /\ DOMAIN refs = {} /\ DOMAIN errand = Errands /\ DOMAIN met = Errands
      /\ \A e \in Errands : errand[e] = Parcel!NoErrand
  BY DEF Parcel!Init
<1>2. ASSUME NEW e \in Errands PROVE AskInv(e) /\ RetryInv(e) /\ ShownInv(e)
  BY <1>1 DEF AskInv, RetryInv, ShownInv, Shaped, OnTheWay, Over, Parcel!NoErrand
<1>. QED  BY <1>1, <1>2 DEF CarrierInv, RefsInv

LEMMA CarrierSound ==
  ASSUME CarrierInv PROVE Parcel!FailuresAreFaults /\ Parcel!AnswersFit
<1>1. Parcel!FailuresAreFaults
  BY DEF CarrierInv, ShownInv, Parcel!FailuresAreFaults
<1>2. ASSUME NEW e \in Errands
      PROVE  LET r == errand[e]
                 named == {<<"ro", r.names.ro>>, <<"ru", r.names.ru>>}
             IN  /\ r.pc = "answered" /\ r.job.kind \in Parcel!Lookups =>
                      /\ <<r.rows.kind, r.rows.lang, Folded[r.rows.text]>> = Parcel!CacheKey(r.job)
                      /\ r.rows.at + TTL[r.job.kind] >= r.since
                 /\ r.pc = "answered" /\ r.job.kind = "quote" => r.rows.at >= r.since
                 /\ \A n \in named : n[2] # None => n[2].lang = n[1] /\ n[2].at >= r.since
  BY <1>2 DEF CarrierInv, ShownInv, Tells, Parcel!Lookups, Parcel!CacheKey
<1>. QED  BY <1>1, <1>2 DEF Parcel!AnswersFit

\* What ends a call, or goes on to the next language, leaves a record.
LEMMA DoneShaped ==
  ASSUME NEW r, Shaped(r), NEW pc
  PROVE  LET d == Parcel!Done(r, pc)
         IN  /\ Shaped(d) /\ d.pc = pc /\ d.job = r.job /\ d.attempt = 1 /\ d.rows = r.rows
             /\ d.names = r.names /\ d.since = r.since
<1>1. PICK at, does, lang, attempt, held, rows, nms, since :
        r = [pc |-> at, job |-> does, lang |-> lang, attempt |-> attempt, token |-> held,
             rows |-> rows, names |-> nms, since |-> since]
  BY DEF Shaped
<1>2. Parcel!Done(r, pc) =
        [pc |-> pc, job |-> r.job, lang |-> None, attempt |-> 1, token |-> None,
         rows |-> r.rows, names |-> r.names, since |-> r.since]
  <2>1. Parcel!Done(r, pc) = [r EXCEPT !.pc = pc, !.attempt = 1, !.token = None, !.lang = None]
    BY DEF Parcel!Done
  <2>2. r.job = does /\ r.rows = rows /\ r.names = nms /\ r.since = since
    BY <1>1
  <2>. QED  BY ONLY <1>1, <2>1, <2>2
<1>3. r.names = [ro |-> r.names.ro, ru |-> r.names.ru]
  BY DEF Shaped
<1>. QED  BY <1>2, <1>3 DEF Shaped

LEMMA NamedShaped ==
  ASSUME NEW r, Shaped(r), NEW name
  PROVE  LET n == Parcel!Named(r, name)
         IN  /\ Shaped(n) /\ n.job = r.job /\ n.attempt = 1 /\ n.since = r.since
             /\ r.lang = "ro" =>
                  n.pc = "token" /\ n.lang = "ru" /\ n.names.ro = name /\ n.names.ru = r.names.ru
             /\ r.lang # "ro" =>
                  n.pc = "answered" /\ n.names.ru = name /\ n.names.ro = r.names.ro
<1>1. CASE r.lang = "ro"
  BY <1>1 DEF Shaped, Parcel!Named
<1>2. CASE r.lang # "ro"
  BY <1>2 DEF Shaped, Parcel!Named, Parcel!Done
<1>. QED  BY <1>1, <1>2

\* One request moves, at one time.
Alone(e) ==
  /\ clock' = clock /\ alive \subseteq alive'
  /\ DOMAIN errand' = Errands /\ DOMAIN met' = Errands
  /\ \A f \in Errands : f # e => errand'[f] = errand[f] /\ met'[f] = met[f]

LEMMA OneMoves ==
  ASSUME CarrierInv, NEW e \in Errands, Alone(e), RefsInv', AskInv(e)', RetryInv(e)', ShownInv(e)'
  PROVE  CarrierInv'
<1>1. ASSUME NEW f \in Errands, f # e PROVE AskInv(f)' /\ RetryInv(f)' /\ ShownInv(f)'
  <2>1. /\ errand'[f] = errand[f] /\ met'[f] = met[f] /\ clock' = clock /\ alive \subseteq alive'
        /\ AskInv(f) /\ RetryInv(f) /\ ShownInv(f)
    BY <1>1 DEF Alone, CarrierInv
  <2>. QED  BY <2>1 DEF AskInv, RetryInv, ShownInv, Since
<1>. QED  BY <1>1 DEF Alone, CarrierInv

LEMMA RefsKept ==
  ASSUME RefsInv, UNCHANGED refs PROVE RefsInv'
BY DEF RefsInv

\* An order's name in one language is there, or stays blank.
LEMMA NameGiven ==
  ASSUME CarrierInv, NEW e \in Errands, NEW name, Alone(e), UNCHANGED refs,
         errand[e].pc \in OnTheWay, errand[e].job.kind = "snapshot",
         errand'[e] = Parcel!Named(errand[e], name),
         name # None => name.lang = errand[e].lang /\ name.at >= errand[e].since
  PROVE  CarrierInv'
<1>. DEFINE r == errand[e]
<1>1. AskInv(e) /\ ShownInv(e) /\ Shaped(r) /\ r.lang \in {"ro", "ru"} /\ r.job \in Jobs
  BY DEF CarrierInv, AskInv, OnTheWay
<1>2. r.job.kind \notin DOMAIN TTL
  BY JobsAssumption
<1>3. /\ Shaped(r)' /\ r'.job = r.job /\ r'.attempt = 1 /\ r'.since = r.since
      /\ r.lang = "ro" =>
           r'.pc = "token" /\ r'.lang = "ru" /\ r'.names.ro = name /\ r'.names.ru = r.names.ru
      /\ r.lang # "ro" =>
           r'.pc = "answered" /\ r'.names.ru = name /\ r'.names.ro = r.names.ro
  <2>1. Shaped(Parcel!Named(r, name))
    BY <1>1, NamedShaped
  <2>. QED  BY <1>1, <2>1, NamedShaped DEF Shaped
<1>4. AskInv(e)'
  BY <1>1, <1>2, <1>3 DEF AskInv, OnTheWay, Over, Alone
<1>5. RetryInv(e)'
  BY <1>3 DEF RetryInv
<1>6. ShownInv(e)'
  BY <1>1, <1>2, <1>3 DEF ShownInv
<1>7. RefsInv'
  BY RefsKept DEF CarrierInv
<1>. QED  BY <1>4, <1>5, <1>6, <1>7, OneMoves

\* A call that is refused ends the request, unless it is for an order's names.
LEMMA CallRefused ==
  ASSUME CarrierInv, NEW e \in Errands, Alone(e), UNCHANGED refs,
         errand[e].pc \in OnTheWay, errand'[e] = Parcel!Refused(errand[e]),
         errand[e].job.kind # "snapshot" => met'[e] \cap {"carrier", "token", "price"} # {}
  PROVE  CarrierInv'
<1>. DEFINE r == errand[e]
<1>1. CASE r.job.kind = "snapshot"
  <2>1. r' = Parcel!Named(r, None)
    BY <1>1 DEF Parcel!Refused
  <2>. QED  BY <1>1, <2>1, NameGiven
<1>2. CASE r.job.kind # "snapshot"
  <2>1. AskInv(e) /\ ShownInv(e) /\ Shaped(r) /\ r.job \in Jobs
    BY DEF CarrierInv, AskInv, OnTheWay
  <2>2. r' = Parcel!Done(r, "unavailable")
    BY <1>2 DEF Parcel!Refused
  <2>3. /\ Shaped(r)' /\ r'.pc = "unavailable" /\ r'.job = r.job /\ r'.attempt = 1
        /\ r'.names = r.names /\ r'.since = r.since
    BY <2>1, <2>2, DoneShaped DEF Shaped
  <2>4. AskInv(e)'
    BY <2>1, <2>3 DEF AskInv, OnTheWay, Over, Alone
  <2>5. RetryInv(e)'
    BY <2>3 DEF RetryInv
  <2>6. ShownInv(e)'
    BY <1>2, <2>1, <2>3 DEF ShownInv
  <2>7. RefsInv'
    BY RefsKept DEF CarrierInv
  <2>. QED  BY <2>4, <2>5, <2>6, <2>7, OneMoves
<1>. QED  BY <1>1, <1>2

\* A failure of Redis that nobody catches breaks the request.
LEMMA Broken ==
  ASSUME CarrierInv, NEW e \in Errands, Alone(e), UNCHANGED refs,
         errand[e].pc \in OnTheWay, errand'[e] = Parcel!Done(errand[e], "broken"),
         "redis" \in met'[e]
  PROVE  CarrierInv'
<1>. DEFINE r == errand[e]
<1>1. AskInv(e) /\ ShownInv(e) /\ Shaped(r) /\ r.job \in Jobs
  BY DEF CarrierInv, AskInv, OnTheWay
<1>2. /\ Shaped(r)' /\ r'.pc = "broken" /\ r'.job = r.job /\ r'.attempt = 1
      /\ r'.names = r.names /\ r'.since = r.since
  BY <1>1, DoneShaped DEF Shaped
<1>3. AskInv(e)'
  BY <1>1, <1>2 DEF AskInv, OnTheWay, Over, Alone
<1>4. RetryInv(e)'
  BY <1>2 DEF RetryInv
<1>5. ShownInv(e)'
  BY <1>1, <1>2 DEF ShownInv
<1>6. RefsInv'
  BY RefsKept DEF CarrierInv
<1>. QED  BY <1>3, <1>4, <1>5, <1>6, OneMoves

LEMMA ParcelBegin ==
  ASSUME CarrierInv, NEW e \in Errands, NEW what \in Jobs, Parcel!Begin(e, what)
  PROVE  CarrierInv'
<1>. DEFINE r == errand[e]
            pc == IF what.kind \in DOMAIN TTL THEN "cache" ELSE "token"
<1>1. /\ r' = [pc |-> pc, job |-> what, lang |-> what.lang, attempt |-> 1, token |-> None,
               rows |-> None, names |-> [ro |-> None, ru |-> None], since |-> clock]
      /\ \A f \in Errands : f # e => errand'[f] = errand[f]
      /\ DOMAIN errand' = Errands
      /\ UNCHANGED <<clock, bearer, refs, alive, minted, met, shocks>>
  BY DEF CarrierInv, Parcel!Begin, Parcel!NoErrand, Parcel!Lookups, Parcel!redisVars, Parcel!tokens
<1>2. /\ Shaped(r)' /\ r'.pc \in {"cache", "token"} /\ r'.job = what /\ r'.lang = what.lang
      /\ r'.attempt = 1 /\ r'.names.ro = None /\ r'.names.ru = None /\ r'.since = clock
      /\ r'.pc = "cache" => what.kind \in DOMAIN TTL
  BY <1>1 DEF Shaped
<1>3. AskInv(e)'
  <2>1. what.kind = "snapshot" => what.lang = "ro"
    BY JobsAssumption
  <2>. QED  BY <1>1, <1>2, <2>1 DEF CarrierInv, AskInv, OnTheWay, Over
<1>4. RetryInv(e)' /\ ShownInv(e)'
  BY <1>2 DEF RetryInv, ShownInv
<1>5. RefsInv' /\ Alone(e)
  BY <1>1, RefsKept DEF CarrierInv, Alone
<1>. QED  BY <1>3, <1>4, <1>5, OneMoves

\* A request goes on with the same question and nothing more to show.
Onwards(r, s) ==
  /\ Shaped(s) /\ s.job = r.job /\ s.lang = r.lang /\ s.names = r.names /\ s.since = r.since

LEMMA ParcelOnwards ==
  ASSUME CarrierInv, NEW e \in Errands, Alone(e), UNCHANGED refs, errand[e].pc \in OnTheWay,
         NEW s, s = errand'[e], Onwards(errand[e], s), s.pc \in {"token", "mint", "keep", "send"},
         s.attempt \in {1, 2}, RetryInv(e)'
  PROVE  CarrierInv'
<1>1. AskInv(e) /\ ShownInv(e)
  BY DEF CarrierInv
<1>2. AskInv(e)'
  BY <1>1 DEF AskInv, OnTheWay, Over, Alone, Onwards
<1>3. ShownInv(e)'
  BY <1>1 DEF ShownInv, Onwards
<1>4. RefsInv'
  BY RefsKept DEF CarrierInv
<1>. QED  BY <1>2, <1>3, <1>4, OneMoves

\* What a request with this record is next, when one field of it changes.
LEMMA OneField ==
  ASSUME NEW r, Shaped(r), NEW s, NEW v
  PROVE  /\ s = [r EXCEPT !.pc = v] =>
              Onwards(r, s) /\ s.pc = v /\ s.token = r.token /\ s.attempt = r.attempt /\ s.rows = r.rows
         /\ s = [r EXCEPT !.token = v] =>
              Onwards(r, s) /\ s.pc = r.pc /\ s.token = v /\ s.attempt = r.attempt /\ s.rows = r.rows
         /\ s = [r EXCEPT !.attempt = v] =>
              Onwards(r, s) /\ s.pc = r.pc /\ s.token = r.token /\ s.attempt = v /\ s.rows = r.rows
         /\ s = [r EXCEPT !.rows = v] =>
              Onwards(r, s) /\ s.pc = r.pc /\ s.token = r.token /\ s.attempt = r.attempt /\ s.rows = v
<1>1. ASSUME s = [r EXCEPT !.pc = v]
      PROVE  Onwards(r, s) /\ s.pc = v /\ s.token = r.token /\ s.attempt = r.attempt /\ s.rows = r.rows
  BY <1>1 DEF Onwards, Shaped
<1>2. ASSUME s = [r EXCEPT !.token = v]
      PROVE  Onwards(r, s) /\ s.pc = r.pc /\ s.token = v /\ s.attempt = r.attempt /\ s.rows = r.rows
  BY <1>2 DEF Onwards, Shaped
<1>3. ASSUME s = [r EXCEPT !.attempt = v]
      PROVE  Onwards(r, s) /\ s.pc = r.pc /\ s.token = r.token /\ s.attempt = v /\ s.rows = r.rows
  BY <1>3 DEF Onwards, Shaped
<1>4. ASSUME s = [r EXCEPT !.rows = v]
      PROVE  Onwards(r, s) /\ s.pc = r.pc /\ s.token = r.token /\ s.attempt = r.attempt /\ s.rows = v
  BY <1>4 DEF Onwards, Shaped
<1>. QED  BY <1>1, <1>2, <1>3, <1>4

LEMMA ParcelReadCache ==
  ASSUME CarrierInv, NEW e \in Errands, NEW r, r = errand[e], NEW s, s = errand'[e],
         Parcel!ReadCache(e)
  PROVE  CarrierInv'
<1>. DEFINE found == refs[Parcel!CacheKey(r.job)].rows
<1>1. /\ r.pc = "cache" /\ DOMAIN errand' = Errands /\ DOMAIN met' = Errands
      /\ \A f \in Errands : f # e => errand'[f] = errand[f] /\ met'[f] = met[f]
      /\ UNCHANGED <<clock, refs, alive>>
  BY DEF CarrierInv, Parcel!ReadCache, Parcel!Fails, Parcel!Move, Parcel!redisVars, Parcel!tokens
<1>2. \/ s = [r EXCEPT !.pc = "token"]
      \/ Parcel!Kept(r.job) /\ s = [Parcel!Done(r, "answered") EXCEPT !.rows = found]
  BY DEF CarrierInv, Parcel!ReadCache, Parcel!Move
<1>3. AskInv(e) /\ ShownInv(e) /\ Shaped(r) /\ Alone(e) /\ RefsInv
  BY <1>1 DEF CarrierInv, AskInv, Alone
<1>4. CASE s = [r EXCEPT !.pc = "token"]
  <2>1. Onwards(r, s) /\ s.pc = "token" /\ s.attempt = r.attempt
    BY <1>3, <1>4, OneField
  <2>2. RetryInv(e)'
    BY <2>1 DEF RetryInv
  <2>3. s.attempt \in {1, 2}
    BY <1>3, <2>1 DEF AskInv
  <2>. QED  BY <1>1, <1>3, <2>1, <2>2, <2>3, ParcelOnwards DEF OnTheWay
<1>5. CASE Parcel!Kept(r.job) /\ s = [Parcel!Done(r, "answered") EXCEPT !.rows = found]
  <2>1. /\ Shaped(s) /\ s.pc = "answered" /\ s.job = r.job /\ s.attempt = 1 /\ s.rows = found
        /\ s.names = r.names /\ s.since = r.since
    <3>. DEFINE d == Parcel!Done(r, "answered")
    <3>1. /\ Shaped(d) /\ d.pc = "answered" /\ d.job = r.job /\ d.attempt = 1
          /\ d.names = r.names /\ d.since = r.since
      BY <1>3, DoneShaped
    <3>. HIDE DEF d
    <3>2. s = [d EXCEPT !.rows = found]
      BY <1>5 DEF d
    <3>. QED  BY <3>1, <3>2 DEF Shaped
  <2>2. AskInv(e)'
    BY <1>1, <1>3, <2>1 DEF AskInv, OnTheWay, Over
  <2>3. RetryInv(e)'
    BY <2>1 DEF RetryInv
  <2>4. Tells(found, r.job) /\ found.at \in Nat /\ found.at + TTL[r.job.kind] >= r.since
    <3>. DEFINE k == Parcel!CacheKey(r.job)
    <3>1. k = <<r.job.kind, r.job.lang, Folded[r.job.text]>> /\ k \in DOMAIN refs /\ clock < refs[k].until
      BY <1>5 DEF Parcel!Kept, Parcel!Fresh, Parcel!CacheKey
    <3>2. /\ k = <<found.kind, found.lang, Folded[found.text]>> /\ found.kind \in DOMAIN TTL
          /\ found.at \in Nat /\ refs[k].until \in Nat /\ refs[k].until =< found.at + TTL[found.kind] + 1
      BY <1>3, <3>1 DEF RefsInv
    <3>. HIDE DEF k, found
    <3>3. found.kind = r.job.kind /\ Tells(found, r.job)
      BY <3>1, <3>2 DEF Tells
    <3>4. TTL[r.job.kind] \in Nat /\ clock \in Nat /\ r.since \in Nat /\ r.since =< clock
      BY <1>3, <3>2, <3>3, JobsAssumption DEF CarrierInv, AskInv
    <3>. QED  BY <3>1, <3>2, <3>3, <3>4
  <2>5. ShownInv(e)'
    <3>1. r.job.kind \in DOMAIN TTL
      BY <1>1, <1>3 DEF AskInv
    <3>2. r.job.kind # "quote"
      BY <3>1, JobsAssumption
    <3>. QED  BY <1>3, <2>1, <2>4, <3>2 DEF ShownInv
  <2>6. RefsInv'
    BY <1>1, <1>3, RefsKept
  <2>. QED  BY <1>3, <2>2, <2>3, <2>5, <2>6, OneMoves
<1>. QED  BY <1>2, <1>4, <1>5

LEMMA ParcelReadToken ==
  ASSUME CarrierInv, NEW e \in Errands, NEW r, r = errand[e], NEW s, s = errand'[e],
         Parcel!ReadToken(e)
  PROVE  CarrierInv'
<1>1. /\ r.pc = "token" /\ DOMAIN errand' = Errands /\ DOMAIN met' = Errands
      /\ \A f \in Errands : f # e => errand'[f] = errand[f] /\ met'[f] = met[f]
      /\ UNCHANGED <<clock, refs, alive>>
  BY DEF CarrierInv, Parcel!ReadToken, Parcel!Fails, Parcel!Move, Parcel!redisVars, Parcel!tokens
<1>2. \/ r.attempt # 2 /\ s = [r EXCEPT !.pc = "send", !.token = bearer.id]
      \/ s = [r EXCEPT !.pc = "mint"]
      \/ s = Parcel!Done(r, "broken") /\ "redis" \in met'[e]
  BY DEF CarrierInv, Parcel!ReadToken, Parcel!Move, Parcel!Fails, Parcel!Forced
<1>3. AskInv(e) /\ Shaped(r) /\ Alone(e) /\ r.attempt \in {1, 2}
  BY <1>1 DEF CarrierInv, AskInv, Alone
<1>4. CASE r.attempt # 2 /\ s = [r EXCEPT !.pc = "send", !.token = bearer.id]
  <2>1. Onwards(r, s) /\ s.pc = "send" /\ s.attempt = r.attempt
    <3>1. PICK m : m = [r EXCEPT !.pc = "send"]
      OBVIOUS
    <3>2. s = [m EXCEPT !.token = bearer.id]
      BY <1>4, <3>1
    <3>3. Onwards(r, m) /\ m.pc = "send" /\ m.attempt = r.attempt
      BY <1>3, <3>1, OneField
    <3>4. Shaped(m)
      BY <3>3 DEF Onwards
    <3>5. Onwards(m, s) /\ s.pc = m.pc /\ s.token = bearer.id /\ s.attempt = m.attempt
      BY <3>2, <3>4, OneField
    <3>. QED  BY <3>3, <3>5 DEF Onwards
  <2>2. RetryInv(e)'
    BY <1>4, <2>1 DEF RetryInv
  <2>. QED  BY <1>1, <1>3, <2>1, <2>2, ParcelOnwards DEF OnTheWay
<1>5. CASE s = [r EXCEPT !.pc = "mint"]
  <2>1. Onwards(r, s) /\ s.pc = "mint" /\ s.attempt = r.attempt
    BY <1>3, <1>5, OneField
  <2>2. RetryInv(e)'
    BY <2>1 DEF RetryInv
  <2>. QED  BY <1>1, <1>3, <2>1, <2>2, ParcelOnwards DEF OnTheWay
<1>6. CASE s = Parcel!Done(r, "broken") /\ "redis" \in met'[e]
  BY <1>1, <1>3, <1>6, Broken DEF OnTheWay
<1>. QED  BY <1>2, <1>4, <1>5, <1>6

LEMMA ParcelMint ==
  ASSUME CarrierInv, NEW e \in Errands, NEW r, r = errand[e], NEW s, s = errand'[e],
         Parcel!Mint(e)
  PROVE  CarrierInv'
<1>1. /\ r.pc = "mint" /\ DOMAIN errand' = Errands /\ DOMAIN met' = Errands
      /\ \A f \in Errands : f # e => errand'[f] = errand[f] /\ met'[f] = met[f]
      /\ UNCHANGED <<clock, refs>> /\ alive \subseteq alive'
  BY DEF CarrierInv, Parcel!Mint, Parcel!Fails, Parcel!Move, Parcel!redisVars, Parcel!tokens
<1>2. \/ minted' \in alive' /\ s = [r EXCEPT !.pc = "keep", !.token = minted']
      \/ s = Parcel!Refused(r) /\ "carrier" \in met'[e]
  BY DEF CarrierInv, Parcel!Mint, Parcel!Move, Parcel!Fails
<1>3. AskInv(e) /\ Shaped(r) /\ Alone(e) /\ r.attempt \in {1, 2}
  BY <1>1 DEF CarrierInv, AskInv, Alone
<1>4. CASE minted' \in alive' /\ s = [r EXCEPT !.pc = "keep", !.token = minted']
  <2>1. Onwards(r, s) /\ s.pc = "keep" /\ s.attempt = r.attempt /\ s.token = minted'
    <3>1. PICK m : m = [r EXCEPT !.pc = "keep"]
      OBVIOUS
    <3>2. s = [m EXCEPT !.token = minted']
      BY <1>4, <3>1
    <3>3. Onwards(r, m) /\ m.pc = "keep" /\ m.attempt = r.attempt
      BY <1>3, <3>1, OneField
    <3>4. Shaped(m)
      BY <3>3 DEF Onwards
    <3>5. Onwards(m, s) /\ s.pc = m.pc /\ s.token = minted' /\ s.attempt = m.attempt
      BY <3>2, <3>4, OneField
    <3>. QED  BY <3>3, <3>5 DEF Onwards
  <2>2. RetryInv(e)'
    BY <1>4, <2>1 DEF RetryInv
  <2>. QED  BY <1>1, <1>3, <2>1, <2>2, ParcelOnwards DEF OnTheWay
<1>5. CASE s = Parcel!Refused(r) /\ "carrier" \in met'[e]
  BY <1>1, <1>3, <1>5, CallRefused DEF OnTheWay
<1>. QED  BY <1>2, <1>4, <1>5

LEMMA ParcelKeepToken ==
  ASSUME CarrierInv, NEW e \in Errands, NEW r, r = errand[e], NEW s, s = errand'[e],
         Parcel!KeepToken(e)
  PROVE  CarrierInv'
<1>1. /\ r.pc = "keep" /\ DOMAIN errand' = Errands /\ DOMAIN met' = Errands
      /\ \A f \in Errands : f # e => errand'[f] = errand[f] /\ met'[f] = met[f]
      /\ UNCHANGED <<clock, refs, alive>>
  BY DEF CarrierInv, Parcel!KeepToken, Parcel!Fails, Parcel!Move, Parcel!tokens
<1>2. \/ s = [r EXCEPT !.pc = "send"] /\ met' = met
      \/ s = Parcel!Done(r, "broken") /\ "redis" \in met'[e]
  BY DEF CarrierInv, Parcel!KeepToken, Parcel!Move, Parcel!Fails
<1>3. AskInv(e) /\ RetryInv(e) /\ Shaped(r) /\ Alone(e) /\ r.attempt \in {1, 2}
  BY <1>1 DEF CarrierInv, AskInv, Alone
<1>4. CASE s = [r EXCEPT !.pc = "send"] /\ met' = met
  <2>1. Onwards(r, s) /\ s.pc = "send" /\ s.attempt = r.attempt /\ s.token = r.token
    BY <1>3, <1>4, OneField
  <2>2. RetryInv(e)'
    BY <1>1, <1>3, <1>4, <2>1 DEF RetryInv
  <2>. QED  BY <1>1, <1>3, <2>1, <2>2, ParcelOnwards DEF OnTheWay
<1>5. CASE s = Parcel!Done(r, "broken") /\ "redis" \in met'[e]
  BY <1>1, <1>3, <1>5, Broken DEF OnTheWay
<1>. QED  BY <1>2, <1>4, <1>5

LEMMA ParcelSend ==
  ASSUME CarrierInv, NEW e \in Errands, NEW r, r = errand[e], NEW s, s = errand'[e],
         Parcel!Send(e)
  PROVE  CarrierInv'
<1>1. /\ r.pc = "send" /\ DOMAIN errand' = Errands /\ DOMAIN met' = Errands
      /\ \A f \in Errands : f # e => errand'[f] = errand[f] /\ met'[f] = met[f]
      /\ UNCHANGED <<clock, refs, alive>>
  BY DEF CarrierInv, Parcel!Send, Parcel!Received, Parcel!Fails, Parcel!Move, Parcel!redisVars,
         Parcel!tokens
<1>2. \/ r.job.kind \in DOMAIN TTL /\ s = [r EXCEPT !.pc = "save", !.rows = Parcel!Answer(r)]
      \/ r.job.kind = "quote" /\ s = [Parcel!Done(r, "answered") EXCEPT !.rows = Parcel!Answer(r)]
      \/ r.job.kind = "snapshot" /\ s = Parcel!Named(r, Parcel!Answer(r))
      \/ s = Parcel!Refused(r) /\ met'[e] \cap {"carrier", "token", "price"} # {}
      \/ s = [r EXCEPT !.pc = "token", !.attempt = 2]
  <2>1. r.job \in Jobs
    BY <1>1 DEF CarrierInv, AskInv
  <2>2. r.job.kind \in DOMAIN TTL \/ r.job.kind = "quote" \/ r.job.kind = "snapshot"
    BY <2>1, JobsAssumption
  <2>3. "quote" \notin DOMAIN TTL /\ "snapshot" \notin DOMAIN TTL
    BY JobsAssumption
  <2>4. r.attempt \in {1, 2} /\ (r.attempt = 2 => r.token \in alive \/ "token" \in met[e])
    BY <1>1 DEF CarrierInv, AskInv, RetryInv
  <2>5. CASE r.token \in alive /\ Parcel!Received(e)
    BY <1>1, <2>2, <2>3, <2>5 DEF CarrierInv, Parcel!Received, Parcel!Fails, Parcel!Move, Parcel!Lookups
  <2>6. CASE r.token \notin alive /\ r.attempt = 1
             /\ Parcel!Move(e, [r EXCEPT !.pc = "token", !.attempt = 2])
    BY <2>6 DEF CarrierInv, Parcel!Move
  <2>7. CASE r.token \notin alive /\ r.attempt # 1 /\ Parcel!Move(e, Parcel!Refused(r)) /\ met' = met
    <3>1. "token" \in met'[e]
      BY <2>4, <2>7
    <3>. QED  BY <2>7, <3>1 DEF CarrierInv, Parcel!Move
  <2>8. CASE Parcel!Fails(e, "carrier") /\ Parcel!Move(e, Parcel!Refused(r))
    BY <2>8 DEF CarrierInv, Parcel!Fails, Parcel!Move
  <2>. QED  BY <2>5, <2>6, <2>7, <2>8 DEF Parcel!Send
<1>3. /\ AskInv(e) /\ ShownInv(e) /\ Shaped(r) /\ Alone(e) /\ r.attempt \in {1, 2}
      /\ r.job \in Jobs /\ r.since \in Nat /\ r.since =< clock /\ clock \in Nat
      /\ RefsInv'
  BY <1>1, RefsKept DEF CarrierInv, AskInv, Alone
<1>4. PICK a : a = Parcel!Answer(r)
  OBVIOUS
<1>5. a.kind = r.job.kind /\ a.lang = r.lang /\ a.text = r.job.text /\ a.at = clock
  BY <1>4 DEF Parcel!Answer
<1>6. CASE r.job.kind \in DOMAIN TTL /\ s = [r EXCEPT !.pc = "save", !.rows = a]
  <2>1. PICK m : m = [r EXCEPT !.pc = "save"]
    OBVIOUS
  <2>2. s = [m EXCEPT !.rows = a]
    BY <1>6, <2>1
  <2>3. Onwards(r, m) /\ m.pc = "save" /\ m.attempt = r.attempt
    BY <1>3, <2>1, OneField
  <2>4. Shaped(m)
    BY <2>3 DEF Onwards
  <2>5. Onwards(m, s) /\ s.pc = m.pc /\ s.rows = a /\ s.attempt = m.attempt
    BY <2>2, <2>4, OneField
  <2>6. Onwards(r, s) /\ s.pc = "save" /\ s.rows = a /\ s.attempt \in {1, 2}
    BY <1>3, <2>3, <2>5 DEF Onwards
  <2>7. AskInv(e)'
    BY <1>1, <1>3, <1>6, <2>6 DEF AskInv, OnTheWay, Over, Onwards
  <2>8. RetryInv(e)'
    BY <2>6 DEF RetryInv
  <2>9. Tells(a, r.job) /\ Since(a, r)
    <3>1. r.lang = r.job.lang
      BY <1>1, <1>3, <1>6 DEF AskInv, OnTheWay
    <3>. QED  BY <1>3, <1>5, <3>1 DEF Tells, Since
  <2>10. Tells(s.rows, s.job) /\ Since(s.rows, s)'
    BY <1>1, <2>6, <2>9 DEF Since, Onwards
  <2>11. ShownInv(e)'
    BY <1>3, <2>6, <2>10 DEF ShownInv, Onwards, Since
  <2>. QED  BY <1>3, <2>7, <2>8, <2>11, OneMoves
<1>7. CASE r.job.kind = "quote" /\ s = [Parcel!Done(r, "answered") EXCEPT !.rows = a]
  <2>1. PICK d : d = Parcel!Done(r, "answered")
    OBVIOUS
  <2>2. /\ Shaped(d) /\ d.pc = "answered" /\ d.job = r.job /\ d.attempt = 1
        /\ d.names = r.names /\ d.since = r.since
    BY <1>3, <2>1, DoneShaped
  <2>3. s = [d EXCEPT !.rows = a]
    BY <1>7, <2>1
  <2>4. Onwards(d, s) /\ s.pc = d.pc /\ s.attempt = d.attempt /\ s.rows = a
    BY <2>2, <2>3, OneField
  <2>5. /\ Shaped(s) /\ s.pc = "answered" /\ s.job = r.job /\ s.attempt = 1 /\ s.rows = a
        /\ s.names = r.names /\ s.since = r.since
    BY <2>2, <2>4 DEF Onwards
  <2>6. AskInv(e)'
    BY <1>1, <1>3, <2>5 DEF AskInv, OnTheWay, Over
  <2>7. RetryInv(e)'
    BY <2>5 DEF RetryInv
  <2>8. r.job.kind \notin DOMAIN TTL
    BY <1>7, JobsAssumption
  <2>9. ShownInv(e)'
    BY <1>3, <1>5, <2>5, <2>8 DEF ShownInv
  <2>. QED  BY <1>3, <2>6, <2>7, <2>9, OneMoves
<1>8. CASE r.job.kind = "snapshot" /\ s = Parcel!Named(r, a)
  <2>1. a.lang = r.lang /\ a.at >= r.since
    BY <1>3, <1>5
  <2>. QED  BY <1>1, <1>3, <1>8, <2>1, NameGiven DEF OnTheWay
<1>9. CASE s = Parcel!Refused(r) /\ met'[e] \cap {"carrier", "token", "price"} # {}
  BY <1>1, <1>3, <1>9, CallRefused DEF OnTheWay
<1>10. CASE s = [r EXCEPT !.pc = "token", !.attempt = 2]
  <2>1. PICK m : m = [r EXCEPT !.pc = "token"]
    OBVIOUS
  <2>2. s = [m EXCEPT !.attempt = 2]
    BY <1>10, <2>1
  <2>3. Onwards(r, m) /\ m.pc = "token"
    BY <1>3, <2>1, OneField
  <2>4. Shaped(m)
    BY <2>3 DEF Onwards
  <2>5. Onwards(m, s) /\ s.pc = m.pc /\ s.attempt = 2
    BY <2>2, <2>4, OneField
  <2>6. Onwards(r, s) /\ s.pc = "token" /\ s.attempt = 2
    BY <2>3, <2>5 DEF Onwards
  <2>7. RetryInv(e)'
    BY <2>6 DEF RetryInv
  <2>. QED  BY <1>1, <1>3, <2>6, <2>7, ParcelOnwards DEF OnTheWay
<1>. QED  BY <1>2, <1>4, <1>6, <1>7, <1>8, <1>9, <1>10

LEMMA ParcelSaveCache ==
  ASSUME CarrierInv, NEW e \in Errands, NEW r, r = errand[e], NEW s, s = errand'[e],
         Parcel!SaveCache(e)
  PROVE  CarrierInv'
<1>. DEFINE key == Parcel!CacheKey(r.job)
            entry == [rows |-> r.rows, until |-> clock + TTL[r.job.kind]]
<1>1. /\ r.pc = "save" /\ DOMAIN errand' = Errands /\ DOMAIN met' = Errands
      /\ \A f \in Errands : f # e => errand'[f] = errand[f] /\ met'[f] = met[f]
      /\ UNCHANGED <<clock, alive>> /\ s = Parcel!Done(r, "answered")
  BY DEF CarrierInv, Parcel!SaveCache, Parcel!Fails, Parcel!Move, Parcel!tokens
<1>2. \/ refs' = refs
      \/ refs' = [k \in DOMAIN refs \cup {key} |-> IF k = key THEN entry ELSE refs[k]]
  BY DEF Parcel!SaveCache
<1>3. /\ AskInv(e) /\ ShownInv(e) /\ Shaped(r) /\ Alone(e) /\ r.job \in Jobs /\ RefsInv
      /\ r.since \in Nat /\ r.since =< clock /\ clock \in Nat /\ clock =< r.since + 1
      /\ r.job.kind \in DOMAIN TTL /\ Tells(r.rows, r.job) /\ Since(r.rows, r)
  BY <1>1 DEF CarrierInv, AskInv, ShownInv, Alone, OnTheWay
<1>4. TTL[r.job.kind] \in Nat /\ r.job.kind # "quote"
  BY <1>3, JobsAssumption
<1>5. /\ Shaped(s) /\ s.pc = "answered" /\ s.job = r.job /\ s.attempt = 1 /\ s.rows = r.rows
      /\ s.names = r.names /\ s.since = r.since
  BY <1>1, <1>3, DoneShaped
<1>6. AskInv(e)'
  BY <1>1, <1>3, <1>5 DEF AskInv, OnTheWay, Over
<1>7. RetryInv(e)'
  BY <1>5 DEF RetryInv
<1>8. ShownInv(e)'
  BY <1>3, <1>4, <1>5 DEF ShownInv, Since
<1>9. RefsInv'
  <2>1. CASE refs' = refs
    BY <1>3, <2>1, RefsKept
  <2>2. CASE refs' = [k \in DOMAIN refs \cup {key} |-> IF k = key THEN entry ELSE refs[k]]
    <3>1. key = <<r.rows.kind, r.rows.lang, Folded[r.rows.text]>> /\ r.rows.kind = r.job.kind
      BY <1>3 DEF Tells, Parcel!CacheKey
    <3>2. /\ r.rows.at \in Nat /\ entry.until \in Nat
          /\ entry.until =< r.rows.at + TTL[r.rows.kind] + 1
      BY <1>3, <1>4, <3>1 DEF Since
    <3>3. entry.rows = r.rows
      OBVIOUS
    <3>. HIDE DEF key, entry
    <3>. SUFFICES ASSUME NEW k \in DOMAIN refs'
                  PROVE  LET rows == refs'[k].rows
                         IN  /\ k = <<rows.kind, rows.lang, Folded[rows.text]>> /\ rows.kind \in DOMAIN TTL
                             /\ rows.at \in Nat /\ refs'[k].until \in Nat
                             /\ refs'[k].until =< rows.at + TTL[rows.kind] + 1
      BY DEF RefsInv
    <3>4. CASE k = key
      <4>1. refs'[k] = entry
        BY <2>2, <3>4
      <4>. QED  BY <1>3, <3>1, <3>2, <3>3, <3>4, <4>1
    <3>5. CASE k # key
      <4>1. k \in DOMAIN refs /\ refs'[k] = refs[k]
        BY <2>2, <3>5
      <4>. QED  BY <1>3, <4>1 DEF RefsInv
    <3>. QED  BY <3>4, <3>5
  <2>. QED  BY <1>2, <2>1, <2>2
<1>. QED  BY <1>3, <1>6, <1>7, <1>8, <1>9, OneMoves

\* Nobody under way has seen a unit end, so none sees more than one.
LEMMA ParcelTick ==
  ASSUME CarrierInv, Parcel!Tick PROVE CarrierInv'
<1>1. /\ clock' = clock + 1 /\ clock \in Nat
      /\ UNCHANGED <<bearer, refs, alive, minted, errand, met>>
  BY DEF CarrierInv, Parcel!Tick, Parcel!redisVars, Parcel!tokens
<1>2. ASSUME NEW e \in Errands PROVE AskInv(e)' /\ RetryInv(e)' /\ ShownInv(e)'
  <2>1. AskInv(e) /\ RetryInv(e) /\ ShownInv(e)
    BY DEF CarrierInv
  <2>2. errand[e].pc \in OnTheWay => errand[e].since = clock
    BY DEF Parcel!Tick, Parcel!UnderWay, OnTheWay
  <2>3. AskInv(e)'
    <3>. DEFINE r == errand[e]
    <3>1. errand'[e] = r
      BY <1>1
    <3>2. /\ Shaped(r) /\ r.pc \in {"idle"} \cup OnTheWay \cup Over
          /\ r.since \in Nat /\ r.since =< clock /\ r.attempt \in {1, 2}
          /\ r.pc # "idle" => r.job \in Jobs
          /\ r.pc \in {"cache", "save"} => r.job.kind \in DOMAIN TTL
          /\ r.pc \in OnTheWay /\ r.job.kind \in DOMAIN TTL => r.lang = r.job.lang
          /\ r.pc \in OnTheWay /\ r.job.kind = "snapshot" => r.lang \in {"ro", "ru"}
      BY <2>1 DEF AskInv
    <3>3. r.pc \in OnTheWay => clock' =< r.since + 1
      BY <1>1, <2>2
    <3>. HIDE DEF r
    <3>4. r.since =< clock'
      BY <1>1, <3>2
    <3>. QED  BY <3>1, <3>2, <3>3, <3>4 DEF AskInv
  <2>4. RetryInv(e)'
    BY <1>1, <2>1 DEF RetryInv
  <2>5. ShownInv(e)'
    <3>1. Since(errand[e].rows, errand[e]) => Since(errand[e].rows, errand[e])'
      BY <1>1 DEF Since
    <3>. QED  BY <1>1, <2>1, <3>1 DEF ShownInv
  <2>. QED  BY <2>3, <2>4, <2>5
<1>3. RefsInv'
  BY <1>1, RefsKept DEF CarrierInv
<1>. QED  BY <1>1, <1>2, <1>3 DEF CarrierInv

\* A token that dies is told to the request that holds it.
LEMMA ParcelTokenDies ==
  ASSUME CarrierInv, NEW t, Parcel!TokenDies(t) PROVE CarrierInv'
<1>1. /\ alive' = alive \ {t} /\ UNCHANGED <<clock, bearer, refs, minted, errand>>
      /\ met' = [e \in Errands |-> IF errand[e].token = t THEN met[e] \cup {"token"} ELSE met[e]]
  BY DEF Parcel!TokenDies, Parcel!redisVars
<1>2. ASSUME NEW e \in Errands PROVE AskInv(e)' /\ RetryInv(e)' /\ ShownInv(e)'
  <2>1. AskInv(e) /\ RetryInv(e) /\ ShownInv(e)
    BY DEF CarrierInv
  <2>2. /\ met[e] \subseteq met'[e] /\ errand' = errand /\ clock' = clock
        /\ errand[e].token \in alive /\ "token" \notin met'[e] => errand[e].token \in alive'
    BY <1>1
  <2>3. AskInv(e)'
    BY <2>1, <2>2 DEF AskInv
  <2>4. RetryInv(e)'
    BY <2>1, <2>2 DEF RetryInv
  <2>5. ShownInv(e)'
    BY <2>1, <2>2 DEF ShownInv, Since
  <2>. QED  BY <2>3, <2>4, <2>5
<1>3. RefsInv'
  BY <1>1, RefsKept DEF CarrierInv
<1>. QED  BY <1>1, <1>2, <1>3 DEF CarrierInv

LEMMA ParcelForget ==
  ASSUME CarrierInv, Parcel!Forget PROVE CarrierInv'
<1>1. DOMAIN refs' = {} /\ UNCHANGED <<clock, alive, minted, errand, met>>
  BY DEF Parcel!Forget, Parcel!tokens
<1>2. RefsInv'
  BY <1>1 DEF RefsInv
<1>3. \A e \in Errands : AskInv(e)' /\ RetryInv(e)' /\ ShownInv(e)'
  BY <1>1 DEF CarrierInv, AskInv, RetryInv, ShownInv, Since
<1>. QED  BY <1>1, <1>2, <1>3 DEF CarrierInv

LEMMA ParcelStep ==
  ASSUME CarrierInv, CarrierStep PROVE CarrierInv'
<1>1. ASSUME NEW e \in Errands, NEW what \in Jobs, Parcel!Begin(e, what) PROVE CarrierInv'
  BY <1>1, ParcelBegin
<1>2. ASSUME NEW e \in Errands,
             \/ Parcel!ReadCache(e) \/ Parcel!ReadToken(e) \/ Parcel!Mint(e)
             \/ Parcel!KeepToken(e) \/ Parcel!Send(e) \/ Parcel!SaveCache(e)
      PROVE  CarrierInv'
  <2>1. \E r, s : r = errand[e] /\ s = errand'[e]
    OBVIOUS
  <2>. QED  BY <1>2, <2>1, ParcelReadCache, ParcelReadToken, ParcelMint, ParcelKeepToken,
               ParcelSend, ParcelSaveCache
<1>3. ASSUME NEW t, Parcel!TokenDies(t) PROVE CarrierInv'
  BY <1>3, ParcelTokenDies
<1>. QED  BY <1>1, <1>2, <1>3, ParcelTick, ParcelForget DEF CarrierStep

\* A request for the carrier is refused only by a failure of its own, never by a token that
\* others left dead in Redis, and what it shows is the carrier's answer to the same
\* question (but for capitals and spaces around it), in the same language and recent
\* (_request, _token, settlements, divisions, snapshot).
THEOREM CarrierStaysBridged == Spec => []CarrierIsBridged
<1>. DEFINE Inv == part = "carrier" => CarrierInv
<1>1. Init => Inv
  BY CarrierInit DEF Init
<1>2. Inv /\ [Next]_vars => Inv'
  <2>. SUFFICES ASSUME Inv, [Next]_vars, part = "carrier" PROVE CarrierInv'
    BY PartStep
  <2>1. CASE CarrierStep
    BY <2>1, ParcelStep
  <2>2. CASE UNCHANGED carrier
    <3>1. UNCHANGED <<clock, bearer, refs, alive, minted, errand, met, shocks>>
      BY <2>2 DEF carrier
    <3>. QED  BY <3>1 DEF CarrierInv, RefsInv, AskInv, RetryInv, ShownInv, Since
  <2>. QED  BY <2>1, <2>2, PartStep
<1>3. Inv => CarrierIsBridged
  BY CarrierSound DEF CarrierIsBridged
<1>. QED  BY <1>1, <1>2, <1>3, PTL DEF Spec

-----------------------------------------------------------------------------
\* Banners and content pages

RowsOf(d) == IF d \in Banners THEN BannerRow ELSE PageRow

\* A document in use has its texts from one save and, unless that save was stale, its columns
\* too; and no two pages in use share a slug.
Uniform(d) == \A l, m \in Langs : text[d][l] = text[d][m]
DocInv ==
  /\ DOMAIN doc = Page!Docs /\ DOMAIN text = Page!Docs /\ DOMAIN asked = Page!Docs
  /\ \A d \in Page!Docs : Page!Exists(d) =>
       /\ doc[d] \in RowsOf(d)
       /\ Uniform(d)
       /\ d \in stale \/ doc[d] = asked[d]
  /\ \A p, q \in Pages : Page!Exists(p) /\ Page!Exists(q) /\ doc[p].slug = doc[q].slug => p = q

\* What a request works on: a valid payload for one document, or positions for banners, and
\* the rows it loaded.
Job(j) ==
  /\ DOMAIN j = {"op", "ids", "want", "seen", "plan", "locks", "waits", "saw", "serial"}
  /\ j.op \in {"create", "update", "delete", "reorder"}
  /\ j.op \in {"create", "update"} => \E d \in Page!Docs :
       /\ j.ids = {d} /\ j.want.row \in RowsOf(d) /\ j.want.langs = Langs
       /\ j.op = "update" => j.seen \in RowsOf(d)
  /\ j.op = "delete" => \E d \in Page!Docs : j.ids = {d}
  /\ j.op = "reorder" => /\ j.ids \subseteq Banners
                         /\ \A b \in j.ids : j.want[b] \in Int /\ j.seen[b] \in BannerRow
SaveInv == DOMAIN save = Editors /\ \A e \in Editors : save[e] # None => Job(save[e])

ContentInv == DocInv /\ SaveInv

LEMMA ContentInit ==
  ASSUME Page!Init PROVE ContentInv
<1>1. doc \in Sites /\ asked = doc /\ save = [e \in Editors |-> None]
      /\ text = [d \in Page!Docs |-> IF doc[d] = None THEN Page!NoText ELSE [l \in Langs |-> 0]]
  BY DEF Page!Init
<1>2. ASSUME NEW d \in Page!Docs, Page!Exists(d) PROVE doc[d] \in RowsOf(d) /\ Uniform(d)
  <2>1. doc[d] # None /\ text[d] = [l \in Langs |-> 0]
    BY <1>1, <1>2 DEF Page!Exists
  <2>. QED  BY <1>1, <2>1, ContentAssumption DEF RowsOf, Uniform, Page!Docs
<1>3. \A p, q \in Pages : Page!Exists(p) /\ Page!Exists(q) /\ doc[p].slug = doc[q].slug => p = q
  BY <1>1, ContentAssumption DEF Page!Exists
<1>4. DOMAIN doc = Page!Docs /\ DOMAIN text = Page!Docs /\ DOMAIN asked = Page!Docs
  BY <1>1, ContentAssumption DEF Page!Docs
<1>5. SaveInv
  BY <1>1 DEF SaveInv
<1>. QED  BY <1>1, <1>2, <1>3, <1>4, <1>5 DEF ContentInv, DocInv

\* A request begins with the payload it was sent.
LEMMA JobBegins ==
  ASSUME SaveInv, NEW e \in Editors, NEW sent, Page!Start(e, sent),
         sent.op \in {"create", "update", "delete", "reorder"},
         sent.op \in {"create", "update"} => \E d \in Page!Docs :
           /\ sent.ids = {d} /\ sent.want.row \in RowsOf(d) /\ sent.want.langs = Langs
           /\ sent.op = "update" => sent.seen \in RowsOf(d),
         sent.op = "delete" => \E d \in Page!Docs : sent.ids = {d},
         sent.op = "reorder" => /\ sent.ids \subseteq Banners
                               /\ \A b \in sent.ids : sent.want[b] \in Int /\ sent.seen[b] \in BannerRow
  PROVE  SaveInv' /\ UNCHANGED <<doc, text, asked, stale>>
<1>. DEFINE new == [op |-> sent.op, ids |-> sent.ids, want |-> sent.want, seen |-> sent.seen,
                    plan |-> sent.plan, locks |-> {}, waits |-> FALSE, saw |-> Page!NoText,
                    serial |-> saves + 1]
<1>1. save' = [save EXCEPT ![e] = new] /\ UNCHANGED <<doc, text, asked, stale>>
  BY DEF Page!Start
<1>2. /\ DOMAIN new = {"op", "ids", "want", "seen", "plan", "locks", "waits", "saw", "serial"}
      /\ new.op = sent.op /\ new.ids = sent.ids /\ new.want = sent.want /\ new.seen = sent.seen
  OBVIOUS
<1>. HIDE DEF new
<1>3. Job(new)
  BY <1>2 DEF Job
<1>. QED  BY <1>1, <1>3 DEF SaveInv, Job

\* What staff may send for a document.
LEMMA PayloadFits ==
  ASSUME NEW d \in Page!Docs, NEW p \in Page!Payloads(d), Page!Valid(p)
  PROVE  p.row \in RowsOf(d) /\ p.langs = Langs
BY ContentAssumption DEF Page!Payloads, Page!Valid, Page!RequireBothLangs, RowsOf, Page!Docs

LEMMA SaveBegins ==
  ASSUME ContentInv, NEW e \in Editors, NEW d \in Page!Docs, NEW p \in BannerPayloads \cup PagePayloads,
         Page!BeginCreate(e, d, p) \/ Page!BeginUpdateBanner(e, d, p) \/ Page!BeginUpdatePage(e, d, p)
  PROVE  SaveInv' /\ UNCHANGED <<doc, text, asked, stale>>
<1>1. p.row \in RowsOf(d) /\ p.langs = Langs
  BY PayloadFits DEF Page!BeginCreate, Page!BeginUpdateBanner, Page!BeginUpdatePage
<1>2. CASE Page!BeginCreate(e, d, p)
  <2>. DEFINE sent == [op |-> "create", ids |-> {d}, want |-> p, seen |-> None, plan |-> <<>>]
  <2>1. Page!Start(e, sent)
    BY <1>2 DEF Page!BeginCreate
  <2>2. sent.op = "create" /\ sent.ids = {d} /\ sent.want = p
    OBVIOUS
  <2>. HIDE DEF sent
  <2>. QED  BY <1>1, <2>1, <2>2, JobBegins DEF ContentInv
<1>3. CASE Page!BeginUpdateBanner(e, d, p)
  <2>. DEFINE sent == [op |-> "update", ids |-> {d}, want |-> p, seen |-> doc[d],
                      plan |-> Page!UpdateBannerPlan(d, Page!Changed(p.row, doc[d]) # {})]
  <2>1. Page!Start(e, sent) /\ Page!Exists(d)
    BY <1>3 DEF Page!BeginUpdateBanner
  <2>2. sent.op = "update" /\ sent.ids = {d} /\ sent.want = p /\ sent.seen = doc[d]
    OBVIOUS
  <2>. HIDE DEF sent
  <2>3. doc[d] \in RowsOf(d)
    BY <2>1 DEF ContentInv, DocInv
  <2>. QED  BY <1>1, <2>1, <2>2, <2>3, JobBegins DEF ContentInv
<1>4. CASE Page!BeginUpdatePage(e, d, p)
  <2>. DEFINE sent == [op |-> "update", ids |-> {d}, want |-> p, seen |-> doc[d],
                      plan |-> Page!UpdatePagePlan(d, Page!Changed(p.row, doc[d]) # {})]
  <2>1. Page!Start(e, sent) /\ Page!Exists(d)
    BY <1>4 DEF Page!BeginUpdatePage
  <2>2. sent.op = "update" /\ sent.ids = {d} /\ sent.want = p /\ sent.seen = doc[d]
    OBVIOUS
  <2>. HIDE DEF sent
  <2>3. doc[d] \in RowsOf(d)
    BY <2>1 DEF ContentInv, DocInv
  <2>. QED  BY <1>1, <2>1, <2>2, <2>3, JobBegins DEF ContentInv
<1>. QED  BY <1>2, <1>3, <1>4

LEMMA DeleteBegins ==
  ASSUME ContentInv, NEW e \in Editors, NEW d \in Page!Docs, Page!BeginDelete(e, d)
  PROVE  SaveInv' /\ UNCHANGED <<doc, text, asked, stale>>
<1>. DEFINE sent == [op |-> "delete", ids |-> {d}, want |-> None, seen |-> doc[d], plan |-> Page!DeletePlan(d)]
<1>1. Page!Start(e, sent)
  BY DEF Page!BeginDelete
<1>2. sent.op = "delete" /\ sent.ids = {d}
  OBVIOUS
<1>. HIDE DEF sent
<1>. QED  BY <1>1, <1>2, JobBegins DEF ContentInv

LEMMA ReorderBegins ==
  ASSUME ContentInv, NEW e \in Editors, NEW want \in Orders, Page!BeginReorder(e, want)
  PROVE  SaveInv' /\ UNCHANGED <<doc, text, asked, stale>>
<1>. DEFINE loaded == [b \in DOMAIN want |-> doc[b]]
            sent == [op |-> "reorder", ids |-> DOMAIN want, want |-> want, seen |-> loaded,
                    plan |-> Page!ReorderPlan(want)]
<1>1. Page!Start(e, sent) /\ \A b \in DOMAIN want : Page!Exists(b)
  BY DEF Page!BeginReorder
<1>2. sent.op = "reorder" /\ sent.ids = DOMAIN want /\ sent.want = want /\ sent.seen = loaded
  OBVIOUS
<1>3. DOMAIN want \subseteq Banners /\ \A b \in DOMAIN want : want[b] \in Int
  BY ContentAssumption
<1>4. \A b \in DOMAIN want : loaded[b] \in BannerRow
  BY <1>1, <1>3 DEF ContentInv, DocInv, RowsOf, Page!Docs
<1>. HIDE DEF sent, loaded
<1>. QED  BY <1>1, <1>2, <1>3, <1>4, JobBegins DEF ContentInv

\* Waiting for locks changes nothing of what a request wants.
LEMMA SaveWaits ==
  ASSUME ContentInv, NEW e \in Editors, Page!Lock(e) \/ Page!Resume(e)
  PROVE  SaveInv' /\ UNCHANGED <<doc, text, asked, stale>>
<1>. DEFINE j == save[e]
<1>1. PICK saw, waits, plan, locks :
        save' = [save EXCEPT ![e].saw = saw, ![e].waits = waits, ![e].plan = plan, ![e].locks = locks]
  <2>1. CASE Page!Lock(e)
    BY <2>1 DEF Page!Lock
  <2>2. CASE Page!Resume(e)
    <3>1. /\ save' = [save EXCEPT ![e].waits = FALSE, ![e].plan = Tail(@),
                                 ![e].locks = @ \cup {Page!Wanted(e)}]
          /\ Job(j) /\ DOMAIN save = Editors
      BY <2>2 DEF Page!Resume, ContentInv, SaveInv
    <3>2. save' = [save EXCEPT ![e].saw = j.saw, ![e].waits = FALSE, ![e].plan = Tail(j.plan),
                               ![e].locks = j.locks \cup {Page!Wanted(e)}]
      BY <3>1 DEF Job
    <3>. QED  BY <3>2
  <2>. QED  BY <2>1, <2>2
<1>2. Job(j) /\ j # None /\ DOMAIN save = Editors /\ UNCHANGED <<doc, text, asked, stale>>
  BY DEF ContentInv, SaveInv, Page!Lock, Page!Resume
<1>. DEFINE new == [j EXCEPT !.saw = saw, !.waits = waits, !.plan = plan, !.locks = locks]
<1>3. save' = [save EXCEPT ![e] = new]
  BY <1>1, <1>2
<1>4. /\ DOMAIN new = DOMAIN j
      /\ new.op = j.op /\ new.ids = j.ids /\ new.want = j.want /\ new.seen = j.seen
  BY <1>2 DEF Job
<1>. HIDE DEF new
<1>5. Job(new)
  BY <1>2, <1>4 DEF Job
<1>. QED  BY <1>2, <1>3, <1>5 DEF ContentInv, SaveInv, Job
\* What a flush leaves of two rows is a row: the one wanted, if the loaded one is current.
LEMMA MergedRow ==
  ASSUME NEW d \in Page!Docs, NEW now \in RowsOf(d), NEW want \in RowsOf(d), NEW seen \in RowsOf(d)
  PROVE  /\ Page!Merged(now, want, seen) \in RowsOf(d)
         /\ seen = now => Page!Merged(now, want, seen) = want
         /\ d \in Pages => Page!Merged(now, want, seen).slug \in {now.slug, want.slug}
<1>. DEFINE new == [c \in DOMAIN now |-> IF c \in Page!Changed(want, seen) THEN want[c] ELSE now[c]]
<1>1. Page!Merged(now, want, seen) = new
  BY DEF Page!Merged
<1>2. DOMAIN now = DOMAIN want /\ DOMAIN seen = DOMAIN want /\ now = [c \in DOMAIN now |-> now[c]]
      /\ want = [c \in DOMAIN want |-> want[c]]
  BY DEF RowsOf, BannerRow, PageRow
<1>3. \A c \in DOMAIN now : new[c] \in {now[c], want[c]}
  OBVIOUS
<1>4. DOMAIN new = DOMAIN now /\ new = [c \in DOMAIN now |-> new[c]]
  OBVIOUS
<1>5. ASSUME seen = now PROVE new = want
  <2>1. \A c \in DOMAIN now : new[c] = want[c]
    BY <1>2, <1>5 DEF Page!Changed
  <2>. HIDE DEF new
  <2>. QED  BY <1>2, <1>4, <2>1
<1>. HIDE DEF new
<1>6. CASE d \in Banners
  <2>1. now \in BannerRow /\ want \in BannerRow
    BY <1>6 DEF RowsOf
  <2>2. DOMAIN now = {"on", "start", "stop", "pos"}
    BY <2>1 DEF BannerRow
  <2>3. /\ new["on"] \in BOOLEAN /\ new["start"] \in Int \cup {None} /\ new["stop"] \in Int \cup {None}
        /\ new["pos"] \in Int
    BY <1>3, <2>1, <2>2 DEF BannerRow
  <2>4. new \in BannerRow
    BY <1>4, <2>2, <2>3 DEF BannerRow
  <2>. QED  BY <1>1, <1>5, <1>6, <2>4, ContentAssumption DEF RowsOf
<1>7. CASE d \notin Banners
  <2>1. now \in PageRow /\ want \in PageRow
    BY <1>7 DEF RowsOf
  <2>2. DOMAIN now = {"slug", "on", "footer"}
    BY <2>1 DEF PageRow
  <2>3. new["on"] \in BOOLEAN /\ new["slug"] \in {now.slug, want.slug} /\ new["footer"] \in BOOLEAN
    BY <1>3, <2>1, <2>2 DEF PageRow
  <2>4. new \in PageRow
    BY <1>4, <2>1, <2>2, <2>3 DEF PageRow
  <2>. QED  BY <1>1, <1>5, <1>7, <2>3, <2>4 DEF RowsOf
<1>. QED  BY <1>6, <1>7

\* A document is written by one request.
LEMMA DocWritten ==
  ASSUME DocInv, NEW d \in Page!Docs, NEW new \in RowsOf(d), NEW n, NEW want,
         doc' = [doc EXCEPT ![d] = new], text' = [text EXCEPT ![d] = [l \in Langs |-> n]],
         asked' = [asked EXCEPT ![d] = want],
         \A x \in Page!Docs \ {d} : x \in stale' <=> x \in stale,
         d \in stale' \/ new = want,
         d \in Pages => \A x \in Pages \ {d} : Page!Exists(x) => doc[x].slug # new.slug
  PROVE  DocInv'
<1>1. \A x \in Page!Docs \ {d} : doc'[x] = doc[x] /\ text'[x] = text[x] /\ asked'[x] = asked[x]
  BY DEF DocInv
<1>2. doc'[d] = new /\ text'[d] = [l \in Langs |-> n] /\ asked'[d] = want
  BY DEF DocInv
<1>3. ASSUME NEW x \in Page!Docs, Page!Exists(x)'
      PROVE  doc'[x] \in RowsOf(x) /\ Uniform(x)' /\ (x \in stale' \/ doc'[x] = asked'[x])
  <2>1. CASE x = d
    BY <1>2, <2>1 DEF Uniform
  <2>2. CASE x # d
    BY <1>1, <1>3, <2>2 DEF Uniform, DocInv, Page!Exists
  <2>. QED  BY <2>1, <2>2
<1>4. ASSUME NEW p \in Pages, NEW q \in Pages, Page!Exists(p)', Page!Exists(q)', doc'[p].slug = doc'[q].slug
      PROVE  p = q
  <2>1. p \in Page!Docs /\ q \in Page!Docs
    BY DEF Page!Docs
  <2>2. CASE p # d /\ q # d
    BY <1>1, <1>4, <2>1, <2>2 DEF DocInv, Page!Exists
  <2>3. CASE p = d /\ q # d
    BY <1>1, <1>2, <1>4, <2>1, <2>3 DEF Page!Exists
  <2>4. CASE p # d /\ q = d
    BY <1>1, <1>2, <1>4, <2>1, <2>4 DEF Page!Exists
  <2>. QED  BY <2>2, <2>3, <2>4
<1>5. DOMAIN doc' = Page!Docs /\ DOMAIN text' = Page!Docs /\ DOMAIN asked' = Page!Docs
  BY DEF DocInv
<1>. QED  BY <1>3, <1>4, <1>5 DEF DocInv

\* The one document of a request.
LEMMA TheOneIs == ASSUME NEW e, NEW d, save[e].ids = {d} PROVE Page!TheOne(e) = d
BY DEF Page!TheOne

\* What a request that ends leaves of the others.
LEMMA JobEnds ==
  ASSUME SaveInv, NEW e \in Editors, Page!Done(e) PROVE SaveInv'
BY DEF SaveInv, Page!Done, Job

LEMMA CreateStep ==
  ASSUME ContentInv, NEW e \in Editors, Page!Create(e) PROVE DocInv'
<1>. DEFINE p == save[e].want
<1>1. PICK d \in Page!Docs : save[e].ids = {d} /\ p.row \in RowsOf(d) /\ p.langs = Langs
  BY DEF ContentInv, SaveInv, Job, Page!Create, Page!Ready
<1>2. Page!TheOne(e) = d
  BY <1>1, TheOneIs
<1>3. /\ Page!SlugFree(d, p.row)
      /\ doc' = [doc EXCEPT ![d] = p.row] /\ asked' = [asked EXCEPT ![d] = p.row]
      /\ text' = [text EXCEPT ![d] = [l \in Langs |-> save[e].serial]] /\ stale' = stale
  BY <1>1, <1>2 DEF Page!Create, Page!Replaced
<1>. HIDE DEF p
<1>. QED  BY <1>1, <1>3, DocWritten DEF ContentInv, Page!SlugFree

LEMMA UpdateStep ==
  ASSUME ContentInv, NEW e \in Editors, Page!Update(e) PROVE DocInv'
<1>. DEFINE p == save[e].want
            seen == save[e].seen
<1>1. PICK d \in Page!Docs :
        save[e].ids = {d} /\ p.row \in RowsOf(d) /\ p.langs = Langs /\ seen \in RowsOf(d)
  BY DEF ContentInv, SaveInv, Job, Page!Update, Page!Ready
<1>2. Page!TheOne(e) = d
  BY <1>1, TheOneIs
<1>. DEFINE new == Page!Merged(doc[d], p.row, seen)
<1>3. /\ Page!SlugFree(d, p.row) /\ Page!Exists(d)
      /\ doc' = [doc EXCEPT ![d] = new] /\ asked' = [asked EXCEPT ![d] = p.row]
      /\ text' = [text EXCEPT ![d] = [l \in Langs |-> save[e].serial]]
      /\ stale' = IF seen = doc[d] THEN stale \ {d} ELSE stale \cup {d}
  BY <1>1, <1>2 DEF Page!Update, Page!Replaced
<1>4. doc[d] \in RowsOf(d)
  BY <1>3 DEF ContentInv, DocInv
<1>5. /\ new \in RowsOf(d)
      /\ seen = doc[d] => new = p.row
      /\ d \in Pages => new.slug \in {doc[d].slug, p.row.slug}
  BY <1>1, <1>4, MergedRow
<1>. HIDE DEF new, p, seen
<1>6. ASSUME d \in Pages, NEW x \in Pages \ {d}, Page!Exists(x) PROVE doc[x].slug # new.slug
  BY <1>3, <1>5, <1>6 DEF ContentInv, DocInv, Page!SlugFree
<1>. QED  BY <1>1, <1>3, <1>5, <1>6, DocWritten DEF ContentInv

LEMMA DeleteStep ==
  ASSUME ContentInv, NEW e \in Editors, Page!Delete(e) PROVE DocInv'
<1>1. PICK d \in Page!Docs : save[e].ids = {d}
  BY DEF ContentInv, SaveInv, Job, Page!Delete, Page!Ready
<1>2. Page!TheOne(e) = d
  BY <1>1, TheOneIs
<1>3. /\ doc' = [doc EXCEPT ![d] = Deleted] /\ asked' = [asked EXCEPT ![d] = Deleted]
      /\ text' = [text EXCEPT ![d] = Page!NoText] /\ stale' = stale
  BY <1>1, <1>2 DEF Page!Delete
<1>4. \A x \in Page!Docs : Page!Exists(x)' =>
        x # d /\ Page!Exists(x) /\ doc'[x] = doc[x] /\ text'[x] = text[x] /\ asked'[x] = asked[x]
  BY <1>3 DEF ContentInv, DocInv, Page!Exists
<1>5. DOMAIN doc' = Page!Docs /\ DOMAIN text' = Page!Docs /\ DOMAIN asked' = Page!Docs
  BY <1>3 DEF ContentInv, DocInv
<1>6. ASSUME NEW x \in Page!Docs, Page!Exists(x)'
      PROVE  doc'[x] \in RowsOf(x) /\ Uniform(x)' /\ (x \in stale' \/ doc'[x] = asked'[x])
  BY <1>3, <1>4, <1>6 DEF ContentInv, DocInv, Uniform
<1>7. \A p, q \in Pages : Page!Exists(p)' /\ Page!Exists(q)' /\ doc'[p].slug = doc'[q].slug => p = q
  <2>1. Pages \subseteq Page!Docs
    BY DEF Page!Docs
  <2>. QED  BY <1>4, <2>1 DEF ContentInv, DocInv
<1>. QED  BY <1>5, <1>6, <1>7 DEF DocInv

LEMMA ReorderStep ==
  ASSUME ContentInv, NEW e \in Editors, Page!Reorder(e) PROVE DocInv'
<1>. DEFINE j == save[e]
<1>1. /\ j.ids \subseteq Banners /\ \A b \in j.ids : j.want[b] \in Int /\ j.seen[b] \in BannerRow
      /\ \A d \in j.ids : j.want[d] # j.seen[d].pos => Page!Exists(d)
      /\ doc' = [d \in Page!Docs |-> IF d \in j.ids /\ j.want[d] # j.seen[d].pos
                                     THEN [doc[d] EXCEPT !.pos = j.want[d]] ELSE doc[d]]
      /\ asked' = [d \in Page!Docs |-> IF d \in j.ids /\ Page!Exists(d)
                                       THEN [asked[d] EXCEPT !.pos = j.want[d]] ELSE asked[d]]
      /\ stale' = stale \cup {d \in j.ids : j.seen[d] # doc[d]}
      /\ text' = text
  BY DEF ContentInv, SaveInv, Job, Page!Reorder, Page!Ready, Page!Reordered
<1>. HIDE DEF j
<1>2. ASSUME NEW d \in Page!Docs, Page!Exists(d)'
      PROVE  /\ Page!Exists(d) /\ doc'[d] \in RowsOf(d)
             /\ d \in stale' \/ doc'[d] = asked'[d]
             /\ d \in Pages => doc'[d] = doc[d]
  <2>1. Page!Exists(d)
    BY <1>1, <1>2 DEF Page!Exists
  <2>2. doc[d] \in RowsOf(d) /\ (d \in stale \/ doc[d] = asked[d])
    BY <2>1 DEF ContentInv, DocInv
  <2>3. CASE d \notin j.ids
    BY <1>1, <2>1, <2>2, <2>3
  <2>4. CASE d \in j.ids
    <3>1. /\ d \in Banners /\ d \notin Pages
          /\ doc[d] \in BannerRow /\ j.want[d] \in Int /\ j.seen[d] \in BannerRow
      BY <1>1, <2>2, <2>4, ContentAssumption DEF RowsOf
    <3>2. [doc[d] EXCEPT !.pos = j.want[d]] \in BannerRow
      BY <3>1 DEF BannerRow
    <3>3. j.want[d] = doc[d].pos => [doc[d] EXCEPT !.pos = j.want[d]] = doc[d]
      BY <3>1 DEF BannerRow
    <3>4. doc'[d] \in {doc[d], [doc[d] EXCEPT !.pos = j.want[d]]}
      BY <1>1
    <3>5. ASSUME d \notin stale' PROVE doc'[d] = asked'[d]
      <4>1. j.seen[d] = doc[d] /\ doc[d] = asked[d]
        BY <1>1, <2>2, <2>4, <3>5
      <4>2. asked'[d] = [doc[d] EXCEPT !.pos = j.want[d]]
        BY <1>1, <2>1, <2>4, <4>1
      <4>. QED  BY <1>1, <2>4, <3>3, <4>1, <4>2
    <3>. QED  BY <2>1, <2>2, <3>1, <3>2, <3>4, <3>5 DEF RowsOf
  <2>. QED  BY <2>3, <2>4
<1>3. \A p, q \in Pages : Page!Exists(p)' /\ Page!Exists(q)' /\ doc'[p].slug = doc'[q].slug => p = q
  <2>1. Pages \subseteq Page!Docs
    BY DEF Page!Docs
  <2>. QED  BY <1>2, <2>1 DEF ContentInv, DocInv
<1>4. \A d \in Page!Docs : Page!Exists(d)' => Uniform(d)'
  <2>1. \A d \in Page!Docs : Page!Exists(d)' => Uniform(d)
    BY <1>2 DEF ContentInv, DocInv
  <2>2. text' = text
    BY <1>1
  <2>. QED  BY <2>1, <2>2 DEF Uniform
<1>5. DOMAIN doc' = Page!Docs /\ DOMAIN text' = Page!Docs /\ DOMAIN asked' = Page!Docs
  BY <1>1 DEF ContentInv, DocInv
<1>. QED  BY <1>2, <1>3, <1>4, <1>5 DEF DocInv

LEMMA ContentSound ==
  ASSUME ContentInv PROVE Page!AsSaved /\ Page!SameInEveryLanguage /\ Page!FooterLinksOpen
<1>1. Page!AsSaved
  BY DEF ContentInv, DocInv, Page!AsSaved, Uniform
<1>2. Page!SameInEveryLanguage
  <2>1. SUFFICES ASSUME NEW now \in Times, NEW l \in Langs, NEW m \in Langs, NEW b \in Banners,
                        b \in Page!ListLive(l, now)
                 PROVE  b \in Page!ListLive(m, now)
    BY DEF Page!SameInEveryLanguage, Page!ListLive
  <2>2. Page!Exists(b) /\ b \in Page!Docs
    BY <2>1 DEF Page!ListLive, Page!Docs
  <2>3. text[b][l] = text[b][m]
    BY <2>2 DEF ContentInv, DocInv, Uniform
  <2>. QED  BY <2>1, <2>3 DEF Page!ListLive
<1>3. Page!FooterLinksOpen
  BY DEF ContentInv, DocInv, Page!FooterLinksOpen, Page!ListFooter, Page!GetPage
<1>. QED  BY <1>1, <1>2, <1>3

\* A banner or page is what one save asked for, in all its languages at once and, unless that
\* save was stale, in all its columns; the home page shows the same banners in every language,
\* and a footer link opens its page and no other (update, update_page, reorder, list_footer).
THEOREM PagesStayWhole == Spec => []PagesAreWhole
<1>. DEFINE Inv == part = "content" => ContentInv
<1>1. Init => Inv
  BY ContentInit DEF Init
<1>2. Inv /\ [Next]_vars => Inv'
  <2>. SUFFICES ASSUME Inv, [Next]_vars, part = "content" PROVE ContentInv'
    BY PartStep
  <2>0. UNCHANGED <<doc, text, asked, stale>> => DocInv'
    BY DEF ContentInv, DocInv, Uniform, Page!Exists
  <2>1. CASE ContentStep
    <3>1. ASSUME NEW e \in Editors, NEW d \in Page!Docs, NEW p \in BannerPayloads \cup PagePayloads,
                 \/ Page!BeginCreate(e, d, p) \/ Page!BeginUpdateBanner(e, d, p)
                 \/ Page!BeginUpdatePage(e, d, p)
          PROVE  ContentInv'
      BY <2>0, <3>1, SaveBegins DEF ContentInv
    <3>2. ASSUME NEW e \in Editors, NEW d \in Page!Docs, Page!BeginDelete(e, d) PROVE ContentInv'
      BY <2>0, <3>2, DeleteBegins DEF ContentInv
    <3>3. ASSUME NEW e \in Editors, NEW want \in Orders, Page!BeginReorder(e, want) PROVE ContentInv'
      BY <2>0, <3>3, ReorderBegins DEF ContentInv
    <3>4. ASSUME NEW e \in Editors, Page!Lock(e) \/ Page!Resume(e) PROVE ContentInv'
      BY <2>0, <3>4, SaveWaits DEF ContentInv
    <3>5. ASSUME NEW e \in Editors,
                 Page!Create(e) \/ Page!Update(e) \/ Page!Delete(e) \/ Page!Reorder(e) \/ Page!Fail(e)
          PROVE  ContentInv'
      <4>1. SaveInv'
        BY <3>5, JobEnds DEF ContentInv, Page!Create, Page!Update, Page!Delete, Page!Reorder, Page!Fail
      <4>2. CASE Page!Fail(e)
        BY <2>0, <4>1, <4>2 DEF Page!Fail, ContentInv
      <4>. QED  BY <3>5, <4>1, <4>2, CreateStep, UpdateStep, DeleteStep, ReorderStep DEF ContentInv
    <3>. QED  BY <2>1, <3>1, <3>2, <3>3, <3>4, <3>5 DEF ContentStep
  <2>2. CASE UNCHANGED content
    <3>1. UNCHANGED <<doc, text, asked, stale, save>>
      BY <2>2 DEF content
    <3>. QED  BY <2>0, <3>1 DEF ContentInv, SaveInv, Job
  <2>. QED  BY <2>1, <2>2, PartStep
<1>3. Inv => PagesAreWhole
  BY ContentSound DEF PagesAreWhole
<1>. QED  BY <1>1, <1>2, <1>3, PTL DEF Spec

-----------------------------------------------------------------------------
\* Restock alerts

AlertRow == [id : 0 .. MaxRows, status : {"none", "active", "notified"}]

\* The parts of the state that steps change together, each with its types and with what
\* the other parts rely on.
QtyInv == qty \in [Products -> 0 .. MaxQty]

\* A row that exists has a number.
SubInv ==
  /\ sub \in [Products -> [Waiters -> AlertRow]]
  /\ \A p \in Products, u \in Waiters : sub[p][u].status # "none" => sub[p][u].id > 0

ReadInv == readable \subseteq Waiters

WishInv ==
  /\ wish \in [Waiters -> {"idle", "checked", "found"}]
  /\ wished \in [Waiters -> [product : Products \cup {None}, row : AlertRow]]
  /\ \A u \in Waiters : wish[u] # "idle" => wished[u].product \in Products

ChangeInv ==
  /\ change \in [Keepers -> [pc : {"idle", "read", "credited", "committed"},
                           kind : {"none", "update", "return"},
                           product : Products \cup {None}, before : 0 .. MaxQty, to : 0 .. MaxQty]]
  /\ \A e \in Keepers : change[e].pc # "idle" => change[e].product \in Products

\* Only a crash puts a message back into a queue that is full.
QueueInv ==
  /\ queue \in [Products -> Nat]
  /\ failures \in 0 .. MaxFaults
  /\ \A p \in Products : queue[p] =< MaxQueue + failures

\* A task has mailed nobody before it loaded a product's waiters.
WorkInv ==
  /\ work \in [Workers -> [pc : {"idle", "next", "send"}, kind : {"none", "notify", "sweep"},
                           todo : SUBSET Products, product : Products \cup {None},
                           jobs : SUBSET (Waiters \X (1 .. MaxRows)),
                           sent : SUBSET (Waiters \X (1 .. MaxRows))]]
  /\ \A w \in Workers : /\ work[w].pc = "send" => work[w].product \in Products
                        /\ work[w].pc # "send" => work[w].sent = {}

ToldInv == told \subseteq Products \X Waiters \X (1 .. MaxRows)

\* What a task counts as mailed was mailed.
SentMeansTold ==
  \A w \in Workers : \A mail \in work[w].sent : <<work[w].product, mail[1], mail[2]>> \in told

AlertTypes == /\ QtyInv /\ SubInv /\ ReadInv /\ WishInv
              /\ ChangeInv /\ QueueInv /\ WorkInv /\ ToldInv

RestockInv == AlertTypes /\ SentMeansTold /\ Alert!SpentMeansTold

-----------------------------------------------------------------------------
\* Which steps change which part.
LEMMA AlertFrames ==
  ASSUME [Alert!Next]_restock
  PROVE  /\ \/ UNCHANGED qty
            \/ \E p \in Products : Alert!Sell(p)
            \/ \E e \in Keepers : Alert!StaffWrites(e) \/ Alert!CommitReturn(e)
         /\ \/ UNCHANGED sub
            \/ \E u \in Waiters : Alert!Subscribe(u) \/ \E p \in Products : Alert!Unsubscribe(u, p)
            \/ \E w \in Workers : Alert!Mark(w)
         /\ UNCHANGED readable
         /\ \/ UNCHANGED <<wish, wished>>
            \/ \E u \in Waiters :
                 Alert!FindRow(u) \/ Alert!Subscribe(u) \/ \E p \in Products : Alert!Ask(u, p)
         /\ \/ UNCHANGED change
            \/ \E e \in Keepers, p \in Products :
                 Alert!ReadStock(e, p, "return", 0) \/ \E n \in Levels : Alert!ReadStock(e, p, "update", n)
            \/ \E e \in Keepers : Alert!Editing(e)
         /\ \/ UNCHANGED <<queue, failures>>
            \/ \E e \in Keepers : Alert!StaffNotifies(e) \/ Alert!CreditReturn(e)
            \/ \E w \in Workers, p \in Products : Alert!TakeNotify(w, p)
            \/ \E w \in Workers : Alert!Crash(w)
         /\ \/ UNCHANGED <<work, told>>
            \/ \E w \in Workers, p \in Products : Alert!TakeNotify(w, p) \/ Alert!LoadWaiters(w, p)
            \/ \E w \in Workers : Alert!Sweep(w) \/ Alert!Mark(w) \/ Alert!Crash(w)
            \/ \E w \in Workers, u \in Waiters : Alert!Mailing(w, u)
<1>1. CASE UNCHANGED restock
  BY <1>1 DEF restock
<1>2. CASE \E u \in Waiters, p \in Products : Alert!Unsubscribe(u, p) \/ Alert!Ask(u, p)
  BY <1>2 DEF Alert!Unsubscribe, Alert!Ask
<1>3. CASE \E u \in Waiters : Alert!FindRow(u) \/ Alert!Subscribe(u)
  BY <1>3 DEF Alert!FindRow, Alert!Subscribe
<1>4. CASE \E p \in Products : Alert!Sell(p)
  BY <1>4 DEF Alert!Sell
<1>5. CASE \E e \in Keepers, p \in Products :
             Alert!ReadStock(e, p, "return", 0) \/ \E n \in Levels : Alert!ReadStock(e, p, "update", n)
  BY <1>5 DEF Alert!ReadStock
<1>6. CASE \E e \in Keepers : Alert!Editing(e)
  BY <1>6 DEF Alert!Editing, Alert!StaffWrites, Alert!StaffNotifies, Alert!CreditReturn, Alert!CommitReturn
<1>7. CASE \E w \in Workers, p \in Products : Alert!TakeNotify(w, p)
  BY <1>7 DEF Alert!TakeNotify
<1>8. CASE \E w \in Workers : Alert!Sweep(w) \/ Alert!Crash(w)
  BY <1>8 DEF Alert!Sweep, Alert!Crash
<1>9. CASE \E w \in Workers : Alert!RunTask(w)
  BY <1>9 DEF Alert!RunTask, Alert!LoadWaiters, Alert!Mark
<1>10. CASE \E w \in Workers, u \in Waiters : Alert!Mailing(w, u)
  BY <1>10 DEF Alert!Mailing, Alert!Send, Alert!SendFails
<1>. QED  BY <1>1, <1>2, <1>3, <1>4, <1>5, <1>6, <1>7, <1>8, <1>9, <1>10 DEF Alert!Next

-----------------------------------------------------------------------------
LEMMA QtyStep ==
  ASSUME AlertTypes, [Alert!Next]_restock
  PROVE  QtyInv'
<1>. QtyInv /\ ChangeInv
  BY DEF AlertTypes
<1>1. CASE UNCHANGED qty
  BY <1>1 DEF QtyInv
<1>2. ASSUME NEW p \in Products, Alert!Sell(p)
      PROVE  QtyInv'
  BY <1>2, AlertsAssumption DEF Alert!Sell, QtyInv
<1>3. ASSUME NEW e \in Keepers, Alert!StaffWrites(e)
      PROVE  QtyInv'
  BY <1>3 DEF Alert!StaffWrites, QtyInv, ChangeInv
<1>4. ASSUME NEW e \in Keepers, Alert!CommitReturn(e)
      PROVE  QtyInv'
  BY <1>4, AlertsAssumption DEF Alert!CommitReturn, QtyInv, ChangeInv
<1>. QED  BY <1>1, <1>2, <1>3, <1>4, AlertFrames

\* A subscriber's flush leaves a row, and never spends one.
LEMMA UpsertedRow ==
  ASSUME NEW seen \in AlertRow, NEW now \in AlertRow, now.status # "none" => now.id > 0,
         seen.status = "none" => now.id < MaxRows
  PROVE  /\ Alert!Upserted(seen, now) \in AlertRow
         /\ Alert!Upserted(seen, now).status # "none" => Alert!Upserted(seen, now).id > 0
         /\ Alert!Upserted(seen, now).status = "notified" => Alert!Upserted(seen, now) = now
<1>1. CASE seen.status = "none" /\ now.status = "none"
  BY <1>1, AlertsAssumption DEF Alert!Upserted, AlertRow
<1>2. CASE seen.status = "notified" /\ now.status # "none" /\ now.id = seen.id
  BY <1>2 DEF Alert!Upserted, AlertRow
<1>3. CASE Alert!Upserted(seen, now) = now
  BY <1>3
<1>. QED  BY <1>1, <1>2, <1>3 DEF Alert!Upserted

LEMMA SubStep ==
  ASSUME AlertTypes, [Alert!Next]_restock
  PROVE  SubInv'
<1>. SubInv /\ WishInv /\ WorkInv
  BY DEF AlertTypes
<1>1. CASE UNCHANGED sub
  BY <1>1 DEF SubInv
<1>2. ASSUME NEW p \in Products, NEW u \in Waiters, NEW became \in AlertRow,
             became.status # "none" => became.id > 0,
             sub' = [sub EXCEPT ![p][u] = became]
      PROVE  SubInv'
  BY <1>2 DEF SubInv
<1>3. ASSUME NEW u \in Waiters, Alert!Subscribe(u)
      PROVE  SubInv'
  <2>. DEFINE p == wished[u].product
              became == Alert!Upserted(wished[u].row, sub[p][u])
  <2>1. p \in Products /\ wished[u].row \in AlertRow /\ sub[p][u] \in AlertRow
    BY <1>3 DEF Alert!Subscribe, WishInv, SubInv
  <2>2. sub[p][u].status # "none" => sub[p][u].id > 0
    BY <2>1 DEF SubInv
  <2>3. /\ wished[u].row.status = "none" => sub[p][u].id < MaxRows
        /\ sub' = [sub EXCEPT ![p][u] = became]
    BY <1>3 DEF Alert!Subscribe
  <2>4. became \in AlertRow /\ (became.status # "none" => became.id > 0)
    BY <2>1, <2>2, <2>3, UpsertedRow
  <2>. HIDE DEF p, became
  <2>. QED  BY <1>2, <2>1, <2>3, <2>4
<1>4. ASSUME NEW u \in Waiters, NEW p \in Products, Alert!Unsubscribe(u, p)
      PROVE  SubInv'
  <2>. DEFINE became == [sub[p][u] EXCEPT !.status = "none"]
  <2>1. became \in AlertRow /\ became.status = "none"
    BY DEF SubInv, AlertRow
  <2>2. sub' = [sub EXCEPT ![p][u] = became]
    BY <1>4 DEF Alert!Unsubscribe, SubInv
  <2>. HIDE DEF became
  <2>. QED  BY <1>2, <2>1, <2>2
<1>5. ASSUME NEW w \in Workers, Alert!Mark(w)
      PROVE  SubInv'
  <2>. DEFINE p == work[w].product
              done == [u \in Waiters |->
                         IF <<u, sub[p][u].id>> \in Alert!Spent(w) /\ sub[p][u].status # "none"
                         THEN [sub[p][u] EXCEPT !.status = "notified"]
                         ELSE sub[p][u]]
  <2>1. p \in Products /\ sub' = [sub EXCEPT ![p] = done]
    BY <1>5 DEF Alert!Mark, WorkInv
  <2>2. ASSUME NEW u \in Waiters
        PROVE  done[u] \in AlertRow /\ (done[u].status # "none" => done[u].id > 0)
    <3>1. sub[p][u] \in AlertRow /\ (sub[p][u].status # "none" => sub[p][u].id > 0)
      BY <2>1 DEF SubInv
    <3>. QED  BY <3>1 DEF AlertRow
  <2>3. done \in [Waiters -> AlertRow]
    BY <2>2
  <2>. HIDE DEF p, done
  <2>. QED  BY <2>1, <2>2, <2>3 DEF SubInv
<1>. QED  BY <1>1, <1>3, <1>4, <1>5, AlertFrames

LEMMA WishStep ==
  ASSUME AlertTypes, [Alert!Next]_restock
  PROVE  WishInv'
<1>. WishInv /\ SubInv
  BY DEF AlertTypes
<1>1. CASE UNCHANGED <<wish, wished>>
  BY <1>1 DEF WishInv
<1>2. ASSUME NEW u \in Waiters, NEW step \in {"idle", "checked", "found"},
             NEW product \in Products \cup {None}, NEW became \in AlertRow,
             step # "idle" => product \in Products,
             wish' = [wish EXCEPT ![u] = step],
             wished' = [wished EXCEPT ![u] = [product |-> product, row |-> became]]
      PROVE  WishInv'
  BY <1>2 DEF WishInv
<1>3. Alert!Gone \in AlertRow
  BY AlertsAssumption DEF Alert!Gone, AlertRow
<1>4. ASSUME NEW u \in Waiters, NEW p \in Products, Alert!Ask(u, p)
      PROVE  WishInv'
  BY <1>2, <1>3, <1>4 DEF Alert!Ask
<1>5. ASSUME NEW u \in Waiters, Alert!Subscribe(u)
      PROVE  WishInv'
  BY <1>2, <1>3, <1>5 DEF Alert!Subscribe, Alert!Nothing
<1>6. ASSUME NEW u \in Waiters, Alert!FindRow(u)
      PROVE  WishInv'
  <2>1. /\ wished[u].product \in Products /\ sub[wished[u].product][u] \in AlertRow
        /\ wish' = [wish EXCEPT ![u] = "found"]
    BY <1>6 DEF Alert!FindRow, WishInv, SubInv
  <2>2. wished' = [wished EXCEPT ![u].row = sub[wished[u].product][u]]
    BY <1>6 DEF Alert!FindRow
  <2>. QED  BY <2>1, <2>2 DEF WishInv
<1>. QED  BY <1>1, <1>4, <1>5, <1>6, AlertFrames

LEMMA ChangeStep ==
  ASSUME AlertTypes, [Alert!Next]_restock
  PROVE  ChangeInv'
<1>. ChangeInv /\ QtyInv
  BY DEF AlertTypes
<1>1. CASE UNCHANGED change
  BY <1>1 DEF ChangeInv
<1>2. ASSUME NEW e \in Keepers, NEW p \in Products, NEW kind \in {"update", "return"},
             NEW n \in 0 .. MaxQty, Alert!ReadStock(e, p, kind, n)
      PROVE  ChangeInv'
  <2>1. qty[p] \in 0 .. MaxQty
    BY DEF QtyInv
  <2>. QED  BY <1>2, <2>1 DEF Alert!ReadStock, ChangeInv
<1>3. ASSUME NEW e \in Keepers, NEW step \in {"credited", "committed"}, change[e].pc # "idle",
             change' = [change EXCEPT ![e].pc = step]
      PROVE  ChangeInv'
  BY <1>3 DEF ChangeInv
<1>4. ASSUME NEW e \in Keepers, change' = [change EXCEPT ![e] = Alert!NoEdit]
      PROVE  ChangeInv'
  BY <1>4, AlertsAssumption DEF ChangeInv, Alert!NoEdit
<1>5. ASSUME NEW e \in Keepers, Alert!Editing(e)
      PROVE  ChangeInv'
  BY <1>3, <1>4, <1>5
  DEF Alert!Editing, Alert!StaffWrites, Alert!StaffNotifies, Alert!CreditReturn, Alert!CommitReturn
<1>6. ASSUME NEW e \in Keepers, NEW p \in Products,
             Alert!ReadStock(e, p, "return", 0) \/ \E n \in Levels : Alert!ReadStock(e, p, "update", n)
      PROVE  ChangeInv'
  <2>1. 0 \in 0 .. MaxQty /\ Levels \subseteq 0 .. MaxQty
    BY AlertsAssumption
  <2>. QED  BY <1>2, <1>6, <2>1
<1>. QED  BY <1>1, <1>5, <1>6, AlertFrames

LEMMA QueueStep ==
  ASSUME AlertTypes, [Alert!Next]_restock
  PROVE  QueueInv'
<1>. QueueInv /\ failures \in Nat
  BY AlertsAssumption DEF AlertTypes, QueueInv
<1>1. CASE UNCHANGED <<queue, failures>>
  BY <1>1 DEF QueueInv
<1>2. ASSUME NEW p \in Products \cup {None}, Alert!Enqueue(p), UNCHANGED failures
      PROVE  QueueInv'
  BY <1>2, AlertsAssumption DEF Alert!Enqueue, QueueInv
<1>3. ASSUME NEW e \in Keepers, Alert!StaffNotifies(e) \/ Alert!CreditReturn(e)
      PROVE  QueueInv'
  <2>1. UNCHANGED failures /\ (UNCHANGED queue \/ Alert!Enqueue(change[e].product))
    BY <1>3 DEF Alert!StaffNotifies, Alert!CreditReturn
  <2>2. change[e].product \in Products \cup {None}
    BY DEF AlertTypes, ChangeInv
  <2>. QED  BY <1>1, <1>2, <2>1, <2>2
<1>4. ASSUME NEW w \in Workers, NEW p \in Products, Alert!TakeNotify(w, p)
      PROVE  QueueInv'
  BY <1>4, AlertsAssumption DEF Alert!TakeNotify, QueueInv
<1>5. ASSUME NEW w \in Workers, Alert!Crash(w)
      PROVE  QueueInv'
  <2>. DEFINE p == CHOOSE q \in work[w].todo \cup {work[w].product} : q # None
  <2>1. failures < MaxFaults /\ failures' = failures + 1
    BY <1>5 DEF Alert!Crash
  <2>2. queue' = queue \/ queue' = [queue EXCEPT ![p] = @ + 1]
    BY <1>5 DEF Alert!Crash
  <2>. HIDE DEF p
  <2>. QED  BY <2>1, <2>2, AlertsAssumption DEF QueueInv
<1>. QED  BY <1>1, <1>3, <1>4, <1>5, AlertFrames

AlertTask == [pc : {"idle", "next", "send"}, kind : {"none", "notify", "sweep"},
              todo : SUBSET Products, product : Products \cup {None},
              jobs : SUBSET (Waiters \X (1 .. MaxRows)), sent : SUBSET (Waiters \X (1 .. MaxRows))]

\* What each kind of step makes of a task: it starts, loads a product's waiters, takes a
\* waiter off the list, mailed or not, or ends a product.
Starts(w) ==
  \E task \in AlertTask : /\ task.pc # "send" /\ task.sent = {}
                     /\ work' = [work EXCEPT ![w] = task]
                     /\ told' = told
Loads(w) ==
  \E task \in AlertTask : /\ task.pc = "send" /\ task.product \in Products
                     /\ work[w].sent = {} /\ task.sent = {}
                     /\ work' = [work EXCEPT ![w] = task]
                     /\ told' = told
Mails(w) ==
  \E mail \in Waiters \X (1 .. MaxRows), task \in AlertTask :
    /\ work[w].pc = "send" /\ task.pc = "send" /\ task.product = work[w].product
    /\ work' = [work EXCEPT ![w] = task]
    /\ \/ task.sent = work[w].sent /\ told' = told
       \/ /\ task.sent = work[w].sent \cup {mail}
          /\ told' = told \cup {<<work[w].product, mail[1], mail[2]>>}

LEMMA WorkShape ==
  ASSUME AlertTypes, [Alert!Next]_restock
  PROVE  UNCHANGED <<work, told>> \/ \E w \in Workers : Starts(w) \/ Loads(w) \/ Mails(w)
<1>. WorkInv /\ SubInv /\ ReadInv
  BY DEF AlertTypes
<1>. \A w \in Workers : work[w] \in AlertTask
  BY DEF WorkInv, AlertTask
<1>1. Alert!NoWork \in AlertTask /\ Alert!NoWork.pc = "idle" /\ Alert!NoWork.sent = {}
  BY DEF Alert!NoWork, AlertTask
<1>2. ASSUME NEW kind \in {"notify", "sweep"}, NEW todo \in SUBSET Products, NEW w \in Workers,
             work' = [work EXCEPT ![w] = [Alert!NoWork EXCEPT !.pc = "next", !.kind = kind, !.todo = todo]],
             told' = told
      PROVE  Starts(w)
  <2>. DEFINE task == [Alert!NoWork EXCEPT !.pc = "next", !.kind = kind, !.todo = todo]
  <2>1. task \in AlertTask /\ task.pc # "send" /\ task.sent = {}
    BY DEF Alert!NoWork, AlertTask
  <2>. HIDE DEF task
  <2>2. work' = [work EXCEPT ![w] = task]
    BY <1>2 DEF task
  <2>. QED  BY <1>2, <2>1, <2>2 DEF Starts
<1>3. ASSUME NEW w \in Workers, NEW p \in Products, Alert!TakeNotify(w, p)
      PROVE  Starts(w)
  BY <1>2, <1>3 DEF Alert!TakeNotify
<1>4. ASSUME NEW w \in Workers, Alert!Sweep(w)
      PROVE  Starts(w)
  BY <1>2, <1>4 DEF Alert!Sweep, Alert!ToNotify
<1>5. ASSUME NEW w \in Workers, Alert!Crash(w)
      PROVE  Starts(w)
  <2>1. work' = [work EXCEPT ![w] = Alert!NoWork] /\ told' = told
    BY <1>5 DEF Alert!Crash
  <2>. QED  BY <1>1, <2>1 DEF Starts
<1>6. ASSUME NEW w \in Workers, Alert!Mark(w)
      PROVE  Starts(w)
  <2>. DEFINE task == IF work[w].todo = {} THEN Alert!NoWork
                      ELSE [work[w] EXCEPT !.pc = "next", !.product = None, !.sent = {}]
  <2>1. task \in AlertTask /\ task.pc # "send" /\ task.sent = {}
    BY <1>1 DEF AlertTask
  <2>2. work' = [work EXCEPT ![w] = task] /\ told' = told
    BY <1>6 DEF Alert!Mark
  <2>. HIDE DEF task
  <2>. QED  BY <2>1, <2>2 DEF Starts
<1>7. ASSUME NEW w \in Workers, NEW p \in Products, Alert!LoadWaiters(w, p)
      PROVE  Loads(w)
  <2>. DEFINE jobs == {<<u, sub[p][u].id>> : u \in Alert!Waiting(p) \cap readable}
              task == [work[w] EXCEPT !.pc = "send", !.product = p, !.todo = @ \ {p}, !.jobs = jobs]
  <2>1. ASSUME NEW u \in Alert!Waiting(p) \cap readable
        PROVE  <<u, sub[p][u].id>> \in Waiters \X (1 .. MaxRows)
    <3>1. u \in Waiters /\ sub[p][u].status = "active"
      BY DEF Alert!Waiting
    <3>2. sub[p][u] \in AlertRow /\ sub[p][u].id > 0
      BY <3>1 DEF SubInv
    <3>. QED  BY <3>1, <3>2, AlertsAssumption DEF AlertRow
  <2>2. jobs \in SUBSET (Waiters \X (1 .. MaxRows))
    BY <2>1
  <2>. HIDE DEF jobs
  <2>3. work[w].sent = {}
    BY <1>7 DEF Alert!LoadWaiters, WorkInv
  <2>4. task \in AlertTask /\ task.pc = "send" /\ task.product = p /\ task.sent = {}
    BY <2>2, <2>3 DEF AlertTask
  <2>5. work' = [work EXCEPT ![w] = task] /\ told' = told
    BY <1>7 DEF Alert!LoadWaiters, WorkInv, jobs
  <2>. HIDE DEF task
  <2>. QED  BY <2>3, <2>4, <2>5 DEF Loads
<1>8. ASSUME NEW w \in Workers, NEW u \in Waiters, Alert!Mailing(w, u)
      PROVE  Mails(w)
  <2>1. CASE Alert!Send(w, u)
    <3>1. PICK mail \in work[w].jobs :
            /\ work' = [work EXCEPT ![w].jobs = @ \ {mail}, ![w].sent = @ \cup {mail}]
            /\ told' = told \cup {<<work[w].product, mail[1], mail[2]>>}
      BY <2>1 DEF Alert!Send
    <3>. DEFINE task == [work[w] EXCEPT !.jobs = @ \ {mail}, !.sent = @ \cup {mail}]
    <3>2. mail \in Waiters \X (1 .. MaxRows)
      BY DEF AlertTask
    <3>3. work[w].pc = "send"
      BY <2>1 DEF Alert!Send
    <3>4. /\ task \in AlertTask /\ task.pc = "send" /\ task.product = work[w].product
          /\ task.sent = work[w].sent \cup {mail}
      BY <3>2, <3>3 DEF AlertTask
    <3>5. work' = [work EXCEPT ![w] = task]
      BY <3>1 DEF WorkInv
    <3>. HIDE DEF task
    <3>. QED  BY <3>1, <3>2, <3>3, <3>4, <3>5 DEF Mails
  <2>2. CASE Alert!SendFails(w, u)
    <3>1. PICK mail \in work[w].jobs : work' = [work EXCEPT ![w].jobs = @ \ {mail}]
      BY <2>2 DEF Alert!SendFails
    <3>. DEFINE task == [work[w] EXCEPT !.jobs = @ \ {mail}]
    <3>2. mail \in Waiters \X (1 .. MaxRows)
      BY DEF AlertTask
    <3>3. work[w].pc = "send" /\ told' = told
      BY <2>2 DEF Alert!SendFails
    <3>4. /\ task \in AlertTask /\ task.pc = "send" /\ task.product = work[w].product
          /\ task.sent = work[w].sent
      BY <3>3 DEF AlertTask
    <3>5. work' = [work EXCEPT ![w] = task]
      BY <3>1 DEF WorkInv
    <3>. HIDE DEF task
    <3>. QED  BY <3>2, <3>3, <3>4, <3>5 DEF Mails
  <2>. QED  BY <1>8, <2>1, <2>2 DEF Alert!Mailing
<1>. QED  BY <1>3, <1>4, <1>5, <1>6, <1>7, <1>8, AlertFrames

\* Tasks keep their types, and what they count as mailed was mailed.
LEMMA WorkStep ==
  ASSUME AlertTypes, SentMeansTold, [Alert!Next]_restock
  PROVE  WorkInv' /\ ToldInv' /\ SentMeansTold' /\ told \subseteq told'
<1>. WorkInv /\ ToldInv
  BY DEF AlertTypes
<1>1. CASE UNCHANGED <<work, told>>
  BY <1>1 DEF WorkInv, ToldInv, SentMeansTold
<1>2. ASSUME NEW w \in Workers, NEW task \in AlertTask,
             work' = [work EXCEPT ![w] = task]
      PROVE  /\ work' \in [Workers -> AlertTask]
             /\ work'[w] = task /\ \A v \in Workers \ {w} : work'[v] = work[v]
  BY <1>2 DEF WorkInv, AlertTask
<1>3. ASSUME NEW w \in Workers, NEW task \in AlertTask,
             work' = [work EXCEPT ![w] = task],
             task.pc = "send" => task.product \in Products,
             task.pc # "send" => task.sent = {}
      PROVE  WorkInv'
  BY <1>2, <1>3 DEF WorkInv, AlertTask
<1>4. ASSUME NEW w \in Workers, NEW task \in AlertTask,
             work' = [work EXCEPT ![w] = task], told \subseteq told',
             \A mail \in task.sent : <<task.product, mail[1], mail[2]>> \in told'
      PROVE  SentMeansTold'
  BY <1>2, <1>4 DEF SentMeansTold
<1>5. ASSUME NEW w \in Workers, Starts(w) \/ Loads(w)
      PROVE  WorkInv' /\ ToldInv' /\ SentMeansTold' /\ told \subseteq told'
  <2>1. ASSUME NEW task \in AlertTask,
               work' = [work EXCEPT ![w] = task], task.sent = {}, told' = told,
               task.pc = "send" => task.product \in Products
        PROVE  WorkInv' /\ ToldInv' /\ SentMeansTold' /\ told \subseteq told'
    BY <1>3, <1>4, <2>1 DEF ToldInv
  <2>2. CASE Starts(w)
    <3>1. PICK task \in AlertTask : /\ task.pc # "send" /\ task.sent = {}
                                    /\ work' = [work EXCEPT ![w] = task] /\ told' = told
      BY <2>2 DEF Starts
    <3>. QED  BY <2>1, <3>1
  <2>3. CASE Loads(w)
    <3>1. PICK task \in AlertTask : /\ task.product \in Products /\ task.sent = {}
                                    /\ work' = [work EXCEPT ![w] = task] /\ told' = told
      BY <2>3 DEF Loads
    <3>. QED  BY <2>1, <3>1
  <2>. QED  BY <1>5, <2>2, <2>3
<1>6. ASSUME NEW w \in Workers, Mails(w)
      PROVE  WorkInv' /\ ToldInv' /\ SentMeansTold' /\ told \subseteq told'
  <2>1. PICK mail \in Waiters \X (1 .. MaxRows), task \in AlertTask :
          /\ work[w].pc = "send" /\ task.pc = "send" /\ task.product = work[w].product
          /\ work' = [work EXCEPT ![w] = task]
          /\ \/ task.sent = work[w].sent /\ told' = told
             \/ /\ task.sent = work[w].sent \cup {mail}
                /\ told' = told \cup {<<work[w].product, mail[1], mail[2]>>}
    BY <1>6 DEF Mails
  <2>2. work[w].product \in Products
    BY <2>1 DEF WorkInv
  <2>3. WorkInv'
    BY <1>3, <2>1, <2>2
  <2>4. ToldInv' /\ told \subseteq told'
    BY <2>1, <2>2 DEF ToldInv
  <2>5. \A done \in task.sent : <<task.product, done[1], done[2]>> \in told'
    BY <2>1 DEF SentMeansTold
  <2>. QED  BY <1>4, <2>1, <2>3, <2>4, <2>5
<1>. QED  BY <1>1, <1>5, <1>6, WorkShape

\* A row is spent by the task that mailed it, and by nothing else.
LEMMA SpentStep ==
  ASSUME AlertTypes, SentMeansTold, Alert!SpentMeansTold, [Alert!Next]_restock
  PROVE  Alert!SpentMeansTold'
<1>. SubInv /\ WishInv /\ WorkInv
  BY DEF AlertTypes
<1>. told \subseteq told'
  BY WorkStep
<1>1. CASE UNCHANGED sub
  BY <1>1 DEF Alert!SpentMeansTold
<1>2. ASSUME NEW u \in Waiters, NEW p \in Products, Alert!Unsubscribe(u, p)
      PROVE  Alert!SpentMeansTold'
  <2>1. \A q \in Products, v \in Waiters : sub'[q][v] = sub[q][v] \/ sub'[q][v].status = "none"
    BY <1>2 DEF Alert!Unsubscribe, SubInv, AlertRow
  <2>. QED  BY <2>1 DEF Alert!SpentMeansTold
<1>3. ASSUME NEW u \in Waiters, Alert!Subscribe(u)
      PROVE  Alert!SpentMeansTold'
  <2>. DEFINE p == wished[u].product
              became == Alert!Upserted(wished[u].row, sub[p][u])
  <2>1. p \in Products /\ wished[u].row \in AlertRow /\ sub[p][u] \in AlertRow
    BY <1>3 DEF Alert!Subscribe, WishInv, SubInv
  <2>2. sub[p][u].status # "none" => sub[p][u].id > 0
    BY <2>1 DEF SubInv
  <2>3. /\ wished[u].row.status = "none" => sub[p][u].id < MaxRows
        /\ sub' = [sub EXCEPT ![p][u] = became]
    BY <1>3 DEF Alert!Subscribe
  <2>4. became.status = "notified" => became = sub[p][u]
    BY <2>1, <2>2, <2>3, UpsertedRow
  <2>. HIDE DEF p, became
  <2>5. \A q \in Products, v \in Waiters : sub'[q][v].status = "notified" => sub'[q][v] = sub[q][v]
    BY <2>1, <2>3, <2>4 DEF SubInv
  <2>. QED  BY <2>5 DEF Alert!SpentMeansTold
<1>4. ASSUME NEW w \in Workers, Alert!Mark(w)
      PROVE  Alert!SpentMeansTold'
  <2>. DEFINE p == work[w].product
              done == [u \in Waiters |->
                         IF <<u, sub[p][u].id>> \in Alert!Spent(w) /\ sub[p][u].status # "none"
                         THEN [sub[p][u] EXCEPT !.status = "notified"]
                         ELSE sub[p][u]]
  <2>1. p \in Products /\ sub' = [sub EXCEPT ![p] = done]
    BY <1>4 DEF Alert!Mark, WorkInv
  <2>2. ASSUME NEW u \in Waiters
        PROVE  /\ done[u].id = sub[p][u].id
               /\ done[u] = sub[p][u] \/ <<u, sub[p][u].id>> \in work[w].sent
    <3>1. sub[p][u] \in AlertRow
      BY <2>1 DEF SubInv
    <3>. QED  BY <3>1 DEF AlertRow, Alert!Spent
  <2>3. ASSUME NEW u \in Waiters, <<u, sub[p][u].id>> \in work[w].sent
        PROVE  <<p, u, sub[p][u].id>> \in told
    BY <2>3 DEF SentMeansTold
  <2>. HIDE DEF p, done
  <2>4. \A q \in Products \ {p} : sub'[q] = sub[q]
    BY <2>1 DEF SubInv
  <2>5. sub'[p] = done
    BY <2>1 DEF SubInv
  <2>6. ASSUME NEW u \in Waiters, sub'[p][u].status = "notified"
        PROVE  <<p, u, sub'[p][u].id>> \in told
    BY <2>1, <2>2, <2>3, <2>5, <2>6 DEF Alert!SpentMeansTold
  <2>. QED  BY <2>4, <2>6 DEF Alert!SpentMeansTold
<1>. QED  BY <1>1, <1>2, <1>3, <1>4, AlertFrames

LEMMA RestockInit ==
  ASSUME Alert!Init PROVE RestockInv
<1>1. QtyInv /\ ReadInv /\ ToldInv
  BY AlertsAssumption DEF Alert!Init, QtyInv, ReadInv, ToldInv
<1>2. Alert!Gone \in AlertRow
  BY AlertsAssumption DEF Alert!Gone, AlertRow
<1>3. SubInv
  BY <1>2 DEF Alert!Init, SubInv, Alert!Gone
<1>4. WishInv
  BY <1>2 DEF Alert!Init, WishInv, Alert!Nothing
<1>5. ChangeInv
  BY AlertsAssumption DEF Alert!Init, ChangeInv, Alert!NoEdit
<1>6. QueueInv
  BY AlertsAssumption DEF Alert!Init, QueueInv
<1>7. WorkInv
  BY DEF Alert!Init, WorkInv, Alert!NoWork
<1>8. SentMeansTold
  BY DEF Alert!Init, SentMeansTold, Alert!NoWork
<1>9. Alert!SpentMeansTold
  BY DEF Alert!Init, Alert!SpentMeansTold, Alert!Gone
<1>. QED  BY <1>1, <1>3, <1>4, <1>5, <1>6, <1>7, <1>8, <1>9 DEF RestockInv, AlertTypes

LEMMA RestockKeeps ==
  ASSUME RestockInv, [Alert!Next]_restock PROVE RestockInv'
<1>1. AlertTypes /\ SentMeansTold /\ Alert!SpentMeansTold
  BY DEF RestockInv
<1>2. ReadInv'
  BY <1>1, AlertFrames DEF AlertTypes, ReadInv
<1>. QED  BY <1>1, <1>2, QtyStep, SubStep, WishStep, ChangeStep, QueueStep, WorkStep, SpentStep
     DEF RestockInv, AlertTypes

LEMMA RestockSound ==
  ASSUME RestockInv PROVE Alert!AlertsAreSound
<1>1. AlertTypes /\ Alert!SpentMeansTold
  BY DEF RestockInv
<1>2. queue \in [Products -> 0 .. MaxQueue + MaxFaults]
  <2>1. QueueInv
    BY <1>1 DEF AlertTypes
  <2>2. \A p \in Products : queue[p] \in 0 .. MaxQueue + MaxFaults
    BY <2>1, AlertsAssumption DEF QueueInv
  <2>. QED  BY <2>1, <2>2 DEF QueueInv
<1>3. Alert!TypeOK
  BY <1>1, <1>2
  DEF Alert!TypeOK, AlertTypes, QtyInv, SubInv, AlertRow, ReadInv, WishInv, ChangeInv, QueueInv, WorkInv,
      ToldInv
<1>. QED  BY <1>1, <1>3 DEF Alert!AlertsAreSound

\* Types and mails together: whatever task, cancellation or crash comes next, what a task
\* counts as mailed was mailed (notify_product, mark_notified).
THEOREM RestockInvariant == Spec => [](part = "restock" => RestockInv)
<1>. DEFINE Inv == part = "restock" => RestockInv
<1>1. Init => Inv
  BY RestockInit DEF Init
<1>2. Inv /\ [Next]_vars => Inv'
  <2>. SUFFICES ASSUME Inv, [Next]_vars, part = "restock" PROVE RestockInv'
    BY PartStep
  <2>1. RestockStep => Alert!Next
    BY DEF RestockStep, Alert!Next
  <2>. QED  BY <2>1, RestockKeeps, PartStep
<1>. QED  BY <1>1, <1>2, PTL DEF Spec

\* Rows and messages have their shape, and an alert is spent only if its owner was
\* mailed for that very subscription, whatever tasks, cancellations and crashes overlap.
THEOREM AlertsStaySound == Spec => []AlertsAreSound
<1>1. (part = "restock" => RestockInv) => AlertsAreSound
  BY RestockSound DEF AlertsAreSound
<1>. QED  BY <1>1, RestockInvariant, PTL
=============================================================================
