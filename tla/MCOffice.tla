---------------------------- MODULE MCOffice ----------------------------
(***************************************************************************)
(* What the store does around its catalogue, in parts that share no row     *)
(* with each other: the price of a basket and the coupons, a user's account *)
(* and its sessions, banners and content pages, the calls to the carrier,   *)
(* restock alerts.  Each behaviour is about one of them, named by part; the *)
(* variables of the others lie idle.                                        *)
(***************************************************************************)
EXTENDS Pricing, Sequences, FiniteSets, TLC

CONSTANTS
  Subtotals, Percents, Amounts, Thresholds, CarrierPrices,
  CouponIds, Definitions, Patches, Days, Officers,
  Users, RowIds, Requests, MaxRequests,
  Members, MaxTokens,
  Deleted, Banners, Pages, Langs, BannerPayloads, PagePayloads, Sites, Orders, Times, Editors, MaxSaves,
  Errands, Jobs, Folded, TTL, MaxShocks,
  Waiters, Products, Workers, Keepers, Levels, MaxQty, MaxQueue, MaxRows, MaxFaults

VARIABLES
  part,
  promo, settings, choice, subtotal, carrierPrice,
  coupon, patch, mixed,
  user, row, job, begun, erased, granted, left, overlapped,
  active, token, blacklisted, expired, ask, ended, twice,
  doc, text, save, saves, asked, stale,
  clock, bearer, refs, alive, minted, errand, met, shocks,
  qty, sub, readable, wish, wished, change, queue, work, failures, told

pricing == <<promo, settings, choice, subtotal, carrierPrice>>
coupons == <<coupon, patch, mixed>>
accounts == <<user, row, job, begun, erased, granted, left, overlapped>>
sessions == <<active, token, blacklisted, expired, ask, ended, twice>>
content == <<doc, text, save, saves, asked, stale>>
carrier == <<clock, bearer, refs, alive, minted, errand, met, shocks>>
restock == <<qty, sub, readable, wish, wished, change, queue, work, failures, told>>
vars == <<part, pricing, coupons, accounts, sessions, content, carrier, restock>>

Price == INSTANCE MCPricing
Coupon == INSTANCE Coupons
Account == INSTANCE Accounts
Session == INSTANCE Sessions
Page == INSTANCE Content
Parcel == INSTANCE Carrier
Alert == INSTANCE Restock WITH Users <- Waiters, Editors <- Keepers,
           ask <- wish, asked <- wished, edit <- change, faults <- failures

Flags == [email : BOOLEAN, phone : BOOLEAN, active : BOOLEAN, staff : BOOLEAN]
ASSUME NoneAssumption ==
  /\ None \notin Nat /\ None \notin RowIds
  /\ None \notin [subtotal : Nat, discount : Nat, delivery : Nat, total : Nat]
  /\ None \notin Flags
ASSUME BoundsAssumption == MaxRequests \in Nat
\* The assumptions of Restock.
ASSUME AlertsAssumption ==
  /\ None \notin Waiters \cup Products /\ Levels \subseteq 0 .. MaxQty
  /\ MaxQty \in Nat /\ MaxQueue \in Nat /\ MaxRows \in Nat /\ MaxFaults \in Nat
\* What the carrier is called for: an order's names are asked for in ro first.
ASSUME JobsAssumption ==
  /\ \A what \in DOMAIN TTL : TTL[what] \in Nat /\ what \notin {"quote", "snapshot"}
  /\ \A what \in Jobs :
       /\ what.kind \in DOMAIN TTL \cup {"quote", "snapshot"}
       /\ what.kind = "snapshot" => what.lang = "ro"
\* What the tables of banners and pages hold, and what staff may send.
BannerRow == [on : BOOLEAN, start : Int \cup {None}, stop : Int \cup {None}, pos : Int]
PageRow == [slug : STRING, on : BOOLEAN, footer : BOOLEAN]
ASSUME ContentAssumption ==
  /\ Banners \cap Pages = {} /\ {None, Deleted} \cap (BannerRow \cup PageRow) = {}
  /\ BannerPayloads \subseteq [row : BannerRow, langs : SUBSET Langs]
  /\ PagePayloads \subseteq [row : PageRow, langs : SUBSET Langs]
  /\ \A want \in Orders : DOMAIN want \subseteq Banners /\ \A b \in DOMAIN want : want[b] \in Int
  /\ \A held \in Sites :
       /\ DOMAIN held = Banners \cup Pages
       /\ \A b \in Banners : held[b] \in BannerRow \cup {None}
       /\ \A p \in Pages : held[p] \in PageRow \cup {None}
       /\ \A p, q \in Pages : held[p] # None /\ held[q] # None /\ held[p].slug = held[q].slug => p = q
ASSUME PricesAssumption ==
  /\ Subtotals \subseteq Nat /\ Percents \subseteq 0 .. Hundred /\ Amounts \subseteq Nat
  /\ Thresholds \subseteq Nat \cup {None} /\ CarrierPrices \subseteq Nat \cup {None}

\* What staff may send is a coupon, or columns of one.
Columns == {"code", "type", "value", "from", "to"}
ASSUME DefinitionsAssumption ==
  /\ Days \subseteq Int
  /\ \A d \in Definitions :
       DOMAIN d = Columns /\ d.value \in Int /\ d.from \in Days /\ d.to \in Days
  /\ \A p \in Patches :
       /\ DOMAIN p \subseteq Columns
       /\ "value" \in DOMAIN p => p.value \in Int
       /\ "from" \in DOMAIN p => p.from \in Days
       /\ "to" \in DOMAIN p => p.to \in Days

SmallThresholds == {None, 100, 400}
SmallPrices == {None, 0, 95}

CouponOf(code, type, value, from, to) ==
  [code |-> code, type |-> type, value |-> value, from |-> from, to |-> to]
ShopDefinitions ==
  {CouponOf("spring", "percent", 10004, 1, 2), CouponOf("spring", "fixed", 150000, 1, 1),
   CouponOf("summer", "percent", 100004, 1, 2)}
ShopPatches ==
  {"type" :> "percent", "value" :> 150000, "value" :> 4, "value" :> 0, "from" :> 2, "to" :> 1,
   "code" :> "summer", "type" :> "fixed" @@ "value" :> 150000}

Banner(on, from, to, langs) ==
  [row |-> [on |-> on, start |-> from, stop |-> to, pos |-> 1], langs |-> langs]
ContentPage(slug, on) == [row |-> [slug |-> slug, on |-> on, footer |-> TRUE], langs |-> Langs]
ShopBanners ==
  {Banner(TRUE, None, None, Langs), Banner(TRUE, 2, None, Langs), Banner(TRUE, None, 1, Langs),
   Banner(TRUE, 2, 1, Langs), Banner(TRUE, None, None, {"ru"})}
ShopPages == {ContentPage("terms", TRUE), ContentPage("about", TRUE), ContentPage("about", FALSE)}
ShopSites ==
  {[d \in Banners \cup Pages |->
      CASE d \in Banners -> Banner(TRUE, None, None, Langs).row
        [] d = 3 -> ContentPage("terms", TRUE).row
        [] OTHER -> None]}
ShopOrders == {1 :> 2 @@ 2 :> 1}

Ask(kind, lang, typed) == [kind |-> kind, lang |-> lang, text |-> typed]
ShopJobs ==
  {Ask("divisions", "ro", "Balti"), Ask("divisions", "ru", "balti"), Ask("quote", "ro", "balti"),
   Ask("snapshot", "ro", "balti")}
ShopFolded == [t \in {"Balti", "balti"} |-> "balti"]
ShopTTL == "settlements" :> 2 @@ "divisions" :> 1

\* No part tells the officers apart, nor the requests.
Symmetry == Permutations(Officers) \cup Permutations(Requests)

PricingIdle ==
  promo = None /\ settings = None /\ choice = None /\ subtotal = None /\ carrierPrice = None
CouponsIdle == coupon = None /\ patch = None /\ mixed = None
AccountsIdle ==
  /\ user = None /\ row = None /\ job = None /\ begun = None
  /\ erased = None /\ granted = None /\ left = None /\ overlapped = None
SessionsIdle ==
  /\ active = None /\ token = None /\ blacklisted = None /\ expired = None
  /\ ask = None /\ ended = None /\ twice = None
ContentIdle ==
  /\ doc = None /\ text = None /\ save = None /\ saves = None /\ asked = None /\ stale = None
CarrierIdle ==
  /\ clock = None /\ bearer = None /\ refs = None /\ alive = None
  /\ minted = None /\ errand = None /\ met = None /\ shocks = None
RestockIdle ==
  /\ qty = None /\ sub = None /\ readable = None /\ wish = None /\ wished = None
  /\ change = None /\ queue = None /\ work = None /\ failures = None /\ told = None

Parts ==
  {"pricing", "coupons", "accounts", "sessions", "content", "carrier", "restock"}

Init ==
  /\ part \in Parts
  /\ IF part = "pricing" THEN Price!Init ELSE PricingIdle
  /\ IF part = "coupons" THEN Coupon!Init ELSE CouponsIdle
  /\ IF part = "accounts" THEN Account!Init ELSE AccountsIdle
  /\ IF part = "sessions" THEN Session!Init ELSE SessionsIdle
  /\ IF part = "content" THEN Page!Init ELSE ContentIdle
  /\ IF part = "carrier" THEN Parcel!Init ELSE CarrierIdle
  /\ IF part = "restock" THEN Alert!Init ELSE RestockIdle

CouponsStep ==
  /\ part = "coupons"
  /\ \/ \E i \in CouponIds, d \in Definitions : Coupon!CreatePromo(i, d)
     \/ \E o \in Officers, i \in CouponIds, cols \in Patches : Coupon!ReadPromo(o, i, cols)
     \/ \E o \in Officers : Coupon!UpdatePromo(o) \/ Coupon!FailChange(o)
     \/ \E i \in CouponIds : Coupon!DeletePromo(i)
  /\ UNCHANGED <<part, pricing, accounts, sessions, content, carrier, restock>>

AccountsStep ==
  /\ part = "accounts"
  /\ \/ \E u \in Users, phone \in BOOLEAN :
          Account!Register(u, phone) \/ \E who \in Users : Account!Hire(who, u, phone)
     \/ \E q \in Requests, u \in Users, kind \in Account!PersonalKinds, i \in RowIds \cup {None} :
          Account!Begin(q, kind, u, u, i, Account!NoChange)
     \/ \E q \in Requests, u, v \in Users, c \in Account!StaffChanges :
          Account!Begin(q, "staff", u, v, None, c)
     \/ \E q \in Requests :
          \/ Account!Fail(q) \/ Account!WriteAddress(q) \/ Account!WriteCart(q) \/ Account!UpdateMe(q)
          \/ Account!Purge(q) \/ Account!Anonymize(q) \/ Account!UpdateStaff(q)
  /\ UNCHANGED <<part, pricing, coupons, sessions, content, carrier, restock>>

SessionsStep ==
  /\ part = "sessions"
  /\ \/ \E u \in Members : Session!Login(u) \/ Session!Switch(u)
     \/ \E t \in Session!Tokens : Session!Expire(t)
     \/ \E q \in Requests, t \in Session!Tokens, kind \in {"refresh", "logout"} : Session!Begin(q, kind, t)
     \/ \E q \in Requests : Session!Refresh(q) \/ Session!Logout(q) \/ Session!Fail(q)
  /\ UNCHANGED <<part, pricing, coupons, accounts, content, carrier, restock>>

ContentStep ==
  /\ part = "content"
  /\ \/ \E e \in {e \in Editors : save[e] = None}, d \in Page!Docs, p \in BannerPayloads \cup PagePayloads :
          Page!BeginCreate(e, d, p) \/ Page!BeginUpdateBanner(e, d, p) \/ Page!BeginUpdatePage(e, d, p)
     \/ \E e \in Editors, d \in Page!Docs : Page!BeginDelete(e, d)
     \/ \E e \in Editors, want \in Orders : Page!BeginReorder(e, want)
     \/ \E e \in Editors :
          \/ Page!Lock(e) \/ Page!Resume(e) \/ Page!Fail(e)
          \/ Page!Create(e) \/ Page!Update(e) \/ Page!Delete(e) \/ Page!Reorder(e)
  /\ UNCHANGED <<part, pricing, coupons, accounts, sessions, carrier, restock>>

CarrierStep ==
  /\ part = "carrier"
  /\ \/ \E e \in Errands, what \in Jobs : Parcel!Begin(e, what)
     \/ \E e \in Errands :
          \/ Parcel!ReadCache(e) \/ Parcel!ReadToken(e) \/ Parcel!Mint(e)
          \/ Parcel!KeepToken(e) \/ Parcel!Send(e) \/ Parcel!SaveCache(e)
     \/ \E t \in alive : Parcel!TokenDies(t)
     \/ Parcel!Tick \/ Parcel!Forget
  /\ UNCHANGED <<part, pricing, coupons, accounts, sessions, content, restock>>

RestockStep ==
  /\ part = "restock"
  /\ \/ \E u \in Waiters, p \in Products : Alert!Unsubscribe(u, p) \/ Alert!Ask(u, p)
     \/ \E u \in Waiters : Alert!FindRow(u) \/ Alert!Subscribe(u)
     \/ \E p \in Products : Alert!Sell(p)
     \/ \E e \in Keepers, p \in Products :
          Alert!ReadStock(e, p, "return", 0) \/ \E n \in Levels : Alert!ReadStock(e, p, "update", n)
     \/ \E e \in Keepers : Alert!Editing(e)
     \/ \E w \in Workers, p \in Products : Alert!TakeNotify(w, p)
     \/ \E w \in Workers : Alert!Sweep(w) \/ Alert!RunTask(w) \/ Alert!Crash(w)
     \/ \E w \in Workers, u \in Waiters : Alert!Mailing(w, u)
  /\ UNCHANGED <<part, pricing, coupons, accounts, sessions, content, carrier>>

Next ==
  \/ CouponsStep \/ AccountsStep \/ SessionsStep
  \/ ContentStep \/ CarrierStep \/ RestockStep

Spec == Init /\ [][Next]_vars
-----------------------------------------------------------------------------
\* _compute_discount rounds to the nearest whole MDL, a half upwards, within the subtotal;
\* _quote_from_lines charges the goods and, below the threshold, the delivery, refuses
\* exactly what has no price, and never asks more for delivery of a larger basket.
PricesAreFair ==
  part = "pricing" =>
    Price!DiscountIsNearest /\ Price!TotalIsFair /\ Price!MoreGoodsNoDearerDelivery

\* A coupon is sound as a whole, unless two changes of it overlapped (update_promo).
CouponsAreSound == part = "coupons" => Coupon!CouponsAreSound

\* Nothing personal remains of an erased account, and it is staff only where staff gave it
\* the flag since (PATCH is_staff does so); a user has one default address at most,
\* and somebody can enter the back office: unless a request of the same account, or
\* another one about staff, was under way, or staff erased themselves (anonymize_account,
\* clear_default, update_staff).  refresh rotates: a token makes one pair, and none after
\* logout, unless two requests used it at once.
AccountsAreSafe ==
  /\ part = "accounts" =>
       Account!TypeOK /\ Account!ErasedStaysErased /\ Account!OneDefault /\ Account!AWayIn
  /\ part = "sessions" => Session!TypeOK /\ Session!UsedRefreshStops

\* A banner or page is what one save asked for, whole, unless that save wrote after another
\* one had changed the columns it had loaded; the home page shows the same banners in every
\* language, and each link of the footer opens its page (update, update_page, reorder,
\* list_live, list_footer).
PagesAreWhole ==
  part = "content" => Page!AsSaved /\ Page!SameInEveryLanguage /\ Page!FooterLinksOpen

\* A request is refused only by a failure of its own, not by a token that others left
\* dead in Redis, and what it shows is the carrier's answer to the same question (but
\* for capitals and spaces around it), in the same language and recent (_request, _token,
\* settlements, divisions, snapshot).
CarrierIsBridged == part = "carrier" => Parcel!FailuresAreFaults /\ Parcel!AnswersFit

\* Rows and messages have their shape, and an alert is spent on a mail only
\* (notify_product, mark_notified).
AlertsAreSound == part = "restock" => Alert!AlertsAreSound
=============================================================================
