---------------------------- MODULE CatalogProofs ----------------------------
(***************************************************************************)
(* For any number of languages, variants, saves and tasks: the publication *)
(* rule survives overlapping saves, and a save that met no other heals the *)
(* cards.                                                                   *)
(***************************************************************************)
EXTENDS Catalog, FiniteSetTheorems, TLAPS

Product == [there : BOOLEAN, active : BOOLEAN, variable : BOOLEAN, price : Nat]
Card == [price : Nat, top : Nat \cup {None}]
Cards == [Langs -> Card \cup {None}]
VariantStates == [Variants -> {"none", "on", "off"}]

\* A product is listed in every language or in none.
Uniform(c) == \A l, m \in Langs : (c[l] = None) = (c[m] = None)

\* Types: the rows, the requests, the search tasks.
RowShape ==
  /\ product \in Product /\ texts \subseteq Langs
  /\ variant \in VariantStates /\ cards \in Cards
Saves ==
  [pc : {"idle", "loaded", "written", "waiting", "cleared", "built"},
   op : Ops \cup {NoOp}, seen : Product \cup {None},
   held : SUBSET (Langs \cup Variants \cup {"product", "cards"}),
   cleared : BOOLEAN, built : Cards, since : Nat, met : SUBSET {"knowing", "unknowing", "delete"}]
SaveShape == save \in [Editors -> Saves]
Tasks == [kind : {"index", "delete"}, run : 1 .. MaxTries]
Works ==
  [pc : {"idle", "refill", "write"}, task : Tasks \cup [kind : {"none", "nightly"}, run : {0}],
   doc : 0 .. MaxEdits \cup {None}]
TaskShape ==
  index \in 0 .. MaxEdits \cup {None} /\ tasks \subseteq Tasks /\ work \in [Workers -> Works]

\* A bound of the model: every save under way may still commit.
Busy == {e \in Editors : save[e].pc # "idle"}
CountInv == edits \in Nat /\ edits + Cardinality(Busy) =< MaxEdits

\* What is on sale is complete, and so is what a save that puts it on sale has checked.
SaleInv == (product.active => texts = Langs) /\ Uniform(cards)
Flushed(e) == save[e].pc \in {"written", "waiting", "cleared", "built"}
SaleFits(e) ==
  /\ Uniform(save[e].built)
  /\ save[e].pc # "idle" => save[e].op \in Ops /\ save[e].seen \in Product /\ save[e].seen.there
  /\ Flushed(e) => Rows(e) \subseteq save[e].held
  /\ Flushed(e) /\ save[e].op.kind = "active" /\ save[e].op.arg => texts = Langs

\* A row is held by one save, and who is about to commit cards holds them.
HeldApart == \A e, f \in Editors : e # f => save[e].held \cap save[f].held = {}
HoldsCards(e) ==
  save[e].pc = "built" /\ Rebuilds(e) /\ View(e).p.active => "cards" \in save[e].held

\* A save that knew the product to be on sale with variants, and met none that did not,
\* leaves one to buy.
LeavesOne(e) ==
  /\ save[e].pc = "built" /\ Knowing(e) /\ "unknowing" \notin save[e].met
  /\ View(e).p.active /\ View(e).p.variable
  => On(View(e).v) # {}

\* What a save that met no other knows is still so.
AloneFits(e) ==
  save[e].pc # "idle" /\ save[e].met = {} =>
    /\ save[e].seen = product
    /\ save[e].pc = "waiting" => save[e].since = edits
    /\ save[e].pc \in {"cleared", "built"} /\ Rebuilds(e) => save[e].cleared \/ cards = NoCards
    /\ save[e].pc = "built" /\ Rebuilds(e) /\ View(e).p.active =>
         /\ save[e].built = CardsOf(View(e).p, View(e).t, View(e).v)
         /\ Publishable(View(e).p, View(e).t, View(e).v)

Fits(e) == SaleFits(e) /\ HoldsCards(e) /\ LeavesOne(e) /\ AloneFits(e)

CatalogInv ==
  /\ RowShape /\ SaveShape /\ TaskShape /\ CountInv /\ SaleInv /\ HeldApart
  /\ \A e \in Editors : Fits(e)

-----------------------------------------------------------------------------
\* A finite set of numbers has a least and a greatest.
LEMMA FiniteHasBounds ==
  ASSUME NEW S, S \subseteq Nat, IsFiniteSet(S), S # {}
  PROVE  /\ \E x \in S : \A y \in S : x =< y
         /\ \E x \in S : \A y \in S : x >= y
<1>1. IsWellFoundedOn(StrictSubsetOrdering(S), FiniteSubsetsOf(S))
  BY FS_StrictSubsetOrderingWellFounded
<1>2. ASSUME NEW T, T \subseteq FiniteSubsetsOf(S), T # {}
      PROVE  \E X \in T : \A Y \in T : <<Y, X>> \notin StrictSubsetOrdering(S)
  BY <1>1, <1>2, WFMin
<1>3. ASSUME NEW X \in FiniteSubsetsOf(S), NEW x \in X
      PROVE  /\ X \ {x} \in FiniteSubsetsOf(S) /\ X \subseteq Nat
             /\ <<X \ {x}, X>> \in StrictSubsetOrdering(S)
  BY FS_RemoveElement DEF FiniteSubsetsOf, StrictSubsetOrdering
<1>4. S \in FiniteSubsetsOf(S)
  BY DEF FiniteSubsetsOf
<1>5. \E x \in S : \A y \in S : x =< y
  <2>. DEFINE T == {X \in FiniteSubsetsOf(S) : X # {} /\ \A x \in X : \E y \in X : ~(x =< y)}
  <2>1. SUFFICES ASSUME T # {} PROVE FALSE
    BY <1>4
  <2>2. PICK X \in T : \A Y \in T : <<Y, X>> \notin StrictSubsetOrdering(S)
    BY <1>2, <2>1
  <2>3. PICK x \in X : TRUE
    OBVIOUS
  <2>4. X \ {x} \notin T /\ X \ {x} \in FiniteSubsetsOf(S) /\ X \subseteq Nat
    BY <1>3, <2>2
  <2>5. CASE X \ {x} = {}
    BY <2>4, <2>5
  <2>6. CASE X \ {x} # {}
    <3>1. PICK z \in X \ {x} : \A y \in X \ {x} : z =< y
      BY <2>4, <2>6
    <3>. QED  BY <2>4, <3>1
  <2>. QED  BY <2>5, <2>6
<1>6. \E x \in S : \A y \in S : x >= y
  <2>. DEFINE T == {X \in FiniteSubsetsOf(S) : X # {} /\ \A x \in X : \E y \in X : ~(x >= y)}
  <2>1. SUFFICES ASSUME T # {} PROVE FALSE
    BY <1>4
  <2>2. PICK X \in T : \A Y \in T : <<Y, X>> \notin StrictSubsetOrdering(S)
    BY <1>2, <2>1
  <2>3. PICK x \in X : TRUE
    OBVIOUS
  <2>4. X \ {x} \notin T /\ X \ {x} \in FiniteSubsetsOf(S) /\ X \subseteq Nat
    BY <1>3, <2>2
  <2>5. CASE X \ {x} = {}
    BY <2>4, <2>5
  <2>6. CASE X \ {x} # {}
    <3>1. PICK z \in X \ {x} : \A y \in X \ {x} : z >= y
      BY <2>4, <2>6
    <3>. QED  BY <2>4, <3>1
  <2>. QED  BY <2>5, <2>6
<1>. QED  BY <1>5, <1>6

\* What a card shows are prices.
LEMMA CardShape ==
  ASSUME NEW p \in Product, NEW v \in VariantStates
  PROVE  CardOf(p, v) \in Card /\ CardOf(p, v) # None
<1>. DEFINE prices == {PriceOf[x] : x \in On(v)}
<1>1. ASSUME On(v) # {} PROVE Min(prices) \in Nat /\ Max(prices) \in Nat
  <2>1. IsFiniteSet(prices)
    <3>1. IsFiniteSet(On(v))
      BY FiniteAssumption, FS_Subset DEF On
    <3>2. [x \in On(v) |-> PriceOf[x]] \in Surjection(On(v), prices)
      BY DEF Surjection
    <3>. QED  BY <3>1, <3>2, FS_Surjection
  <2>2. prices \subseteq Nat /\ prices # {}
    BY <1>1, PricesAssumption DEF On
  <2>. QED  BY <2>1, <2>2, FiniteHasBounds DEF Min, Max
<1>. HIDE DEF prices
<1>2. PICK low : low = IF p.variable /\ On(v) # {} THEN Min(prices) ELSE p.price
  OBVIOUS
<1>3. PICK high : high = IF p.variable /\ On(v) # {} THEN Max(prices) ELSE low
  OBVIOUS
<1>4. low \in Nat /\ high \in Nat
  BY <1>1, <1>2, <1>3 DEF Product
<1>5. CardOf(p, v) = [price |-> low, top |-> IF high = low THEN None ELSE high]
  BY <1>2, <1>3 DEF CardOf, prices
<1>. QED  BY <1>4, <1>5, NoneAssumption DEF Card

\* What a save makes of a product, its texts and its variants.
LEMMA AfterShape ==
  ASSUME NEW op \in Ops
  PROVE  /\ \A p \in Product : /\ ProductAfter(op, p) \in Product
                               /\ ProductAfter(op, p).there = p.there
         /\ \A t \in SUBSET Langs : t \subseteq TextsAfter(op, t) /\ TextsAfter(op, t) \subseteq Langs
         /\ \A v \in VariantStates : VariantsAfter(op, v) \in VariantStates
<1>1. /\ op.kind = "active" \/ op.kind = "select" => op.arg \in BOOLEAN
      /\ op.kind = "price" => op.arg \in Nat
      /\ op.kind = "text" => op.arg \in Langs
      /\ op.kind \in {"create", "enable", "disable", "drop"} => op.arg \in Variants
  BY PricesAssumption DEF Ops
<1>2. ASSUME NEW p \in Product
      PROVE  ProductAfter(op, p) \in Product /\ ProductAfter(op, p).there = p.there
  <2>1. CASE op.kind = "active"
    BY <1>1, <2>1 DEF ProductAfter, Product
  <2>2. CASE op.kind = "price"
    BY <1>1, <2>2 DEF ProductAfter, Product
  <2>3. CASE op.kind = "select"
    BY <1>1, <2>3 DEF ProductAfter, Product
  <2>4. CASE op.kind \notin {"active", "price", "select"}
    BY <2>4 DEF ProductAfter
  <2>. QED  BY <2>1, <2>2, <2>3, <2>4
<1>3. \A t \in SUBSET Langs : t \subseteq TextsAfter(op, t) /\ TextsAfter(op, t) \subseteq Langs
  BY <1>1 DEF TextsAfter
<1>4. ASSUME NEW v \in VariantStates PROVE VariantsAfter(op, v) \in VariantStates
  BY <1>1 DEF VariantsAfter, VariantStates
<1>. QED  BY <1>2, <1>3, <1>4

\* Cards are in every language or in none.
LEMMA CardsShape ==
  ASSUME NEW p \in Product, NEW t, t = Langs \/ ~p.active, NEW v \in VariantStates
  PROVE  /\ CardsOf(p, t, v) \in Cards /\ Uniform(CardsOf(p, t, v))
         /\ ~p.active => CardsOf(p, t, v) = NoCards
<1>1. CardOf(p, v) \in Card /\ CardOf(p, v) # None
  BY CardShape
<1>. QED  BY <1>1 DEF CardsOf, Cards, Uniform, NoCards

LEMMA NoCardsShape == NoCards \in Cards /\ Uniform(NoCards)
BY DEF NoCards, Cards, Uniform

LEMMA NoSaveShape == NoSave \in Saves
BY NoCardsShape DEF NoSave, Saves, NoOp

LEMMA CatalogInit ==
  ASSUME Init PROVE CatalogInv
<1>1. \A e \in Editors : save[e] = NoSave
  BY DEF Init
<1>2. RowShape
  <2>1. product \in Product /\ variant \in VariantStates
    BY PricesAssumption DEF Init, Product, VariantStates
  <2>2. product.active => texts = Langs
    BY DEF Init
  <2>. QED  BY <2>1, <2>2, CardsShape DEF Init, RowShape
<1>3. SaleInv
  BY <1>2, CardsShape DEF Init, SaleInv, RowShape
<1>4. SaveShape
  BY NoSaveShape DEF Init, SaveShape
<1>5. TaskShape
  <2>1. 0 .. 1 \subseteq 0 .. MaxEdits
    BY BoundsAssumption
  <2>. QED  BY <2>1 DEF Init, TaskShape, Works, NoWork
<1>6. CountInv
  <2>1. Busy = {}
    BY <1>1 DEF Busy, NoSave
  <2>. QED  BY <2>1, FS_EmptySet, BoundsAssumption DEF Init, CountInv
<1>7. HeldApart
  BY <1>1 DEF HeldApart, NoSave
<1>8. \A e \in Editors : Fits(e)
  BY <1>1, NoCardsShape DEF Fits, SaleFits, HoldsCards, LeavesOne, AloneFits, NoSave, Flushed
<1>. QED  BY <1>2, <1>3, <1>4, <1>5, <1>6, <1>7, <1>8 DEF CatalogInv

\* Only one request moves, and what is committed stays.
LEMMA SaveMoves ==
  ASSUME CatalogInv, NEW e \in Editors, SaveShape',
         \A f \in Editors \ {e} : save'[f] = save[f] /\ save'[e].held \cap save[f].held = {},
         \/ save[e].pc # "idle" \/ save'[e].pc = "idle"
         \/ edits + Cardinality(Busy) < MaxEdits,
         Fits(e)',
         UNCHANGED <<product, texts, variant, cards, edits, elastic, index, tasks, work>>
  PROVE  CatalogInv'
<1>1. \A f \in Editors : f # e => save'[f] = save[f]
  OBVIOUS
<1>3. RowShape' /\ SaleInv' /\ TaskShape'
  BY DEF CatalogInv, RowShape, SaleInv, TaskShape
<1>4. CountInv'
  <2>1. IsFiniteSet(Busy) /\ IsFiniteSet(Busy \cup {e})
    BY FiniteAssumption, FS_Subset, FS_AddElement DEF Busy
  <2>2. Cardinality(Busy) \in Nat /\ Cardinality(Busy \cup {e}) =< Cardinality(Busy) + 1
    <3>1. Cardinality(Busy) \in Nat
      BY <2>1, FS_CardinalityType
    <3>2. Cardinality(Busy \cup {e}) = IF e \in Busy THEN Cardinality(Busy) ELSE Cardinality(Busy) + 1
      BY <2>1, FS_AddElement
    <3>. QED  BY <3>1, <3>2
  <2>3. CASE edits + Cardinality(Busy) < MaxEdits
    <3>1. Busy' \subseteq Busy \cup {e}
      BY <1>1 DEF Busy
    <3>2. Cardinality(Busy') =< Cardinality(Busy) + 1 /\ Cardinality(Busy') \in Nat
      BY <2>1, <2>2, <3>1, FS_Subset, FS_CardinalityType
    <3>. QED  BY <2>2, <2>3, <3>2, BoundsAssumption DEF CatalogInv, CountInv
  <2>4. CASE save[e].pc # "idle" \/ save'[e].pc = "idle"
    <3>1. Busy' \subseteq Busy
      BY <1>1, <2>4 DEF Busy
    <3>2. Cardinality(Busy') =< Cardinality(Busy) /\ Cardinality(Busy') \in Nat
      BY <2>1, <3>1, FS_Subset, FS_CardinalityType
    <3>. QED  BY <2>2, <3>2, BoundsAssumption DEF CatalogInv, CountInv
  <2>. QED  BY <2>3, <2>4
<1>5. HeldApart'
  BY <1>1 DEF CatalogInv, HeldApart
<1>6. ASSUME NEW f \in Editors, f # e PROVE Fits(f)'
  <2>1. Fits(f) /\ save'[f] = save[f]
    BY <1>1, <1>6 DEF CatalogInv
  <2>2. View(f)' = View(f) /\ Rebuilds(f)' = Rebuilds(f) /\ Knowing(f)' = Knowing(f)
        /\ Rows(f)' = Rows(f) /\ Flushed(f)' = Flushed(f)
    BY <2>1 DEF View, Rebuilds, Knowing, Rows, Flushed
  <2>3. SaleFits(f)' /\ HoldsCards(f)' /\ LeavesOne(f)'
    BY <2>1, <2>2 DEF Fits, SaleFits, HoldsCards, LeavesOne
  <2>4. AloneFits(f)'
    BY <2>1, <2>2 DEF Fits, AloneFits
  <2>. QED  BY <2>3, <2>4 DEF Fits
<1>. QED  BY <1>3, <1>4, <1>5, <1>6 DEF CatalogInv

LEMMA GivesUpStep ==
  ASSUME CatalogInv, NEW e \in Editors, GivesUp(e) PROVE CatalogInv'
<1>1. /\ save' = [save EXCEPT ![e] = NoSave]
      /\ UNCHANGED <<product, texts, variant, cards, edits, elastic, index, tasks, work>>
  BY DEF GivesUp
<1>2. SaveShape' /\ save'[e] = NoSave /\ \A f \in Editors \ {e} : save'[f] = save[f]
  BY <1>1, NoSaveShape DEF CatalogInv, SaveShape
<1>3. save'[e].pc = "idle" /\ save'[e].held = {} /\ Uniform(save'[e].built)
  BY <1>2, NoCardsShape DEF NoSave
<1>4. Fits(e)'
  BY <1>3 DEF Fits, SaleFits, HoldsCards, LeavesOne, AloneFits, Flushed, Uniform
<1>. QED  BY <1>1, <1>2, <1>3, <1>4, SaveMoves

LEMMA LoadStep ==
  ASSUME CatalogInv, NEW e \in Editors, NEW op \in Ops, Load(e, op) PROVE CatalogInv'
<1>1. /\ product.there /\ edits + Cardinality(Busy) < MaxEdits
      /\ save' = [save EXCEPT ![e] = [NoSave EXCEPT !.pc = "loaded", !.op = op, !.seen = product]]
      /\ UNCHANGED <<product, texts, variant, cards, edits, elastic, index, tasks, work>>
  BY DEF Load, Busy
<1>2. PICK s : s = [NoSave EXCEPT !.pc = "loaded", !.op = op, !.seen = product]
  OBVIOUS
<1>3. s.pc = "loaded" /\ s.op = op /\ s.seen = product /\ s.held = {} /\ s.built = NoCards
  BY <1>2 DEF NoSave
<1>4. s \in Saves
  BY <1>2, NoSaveShape DEF NoSave, Saves, CatalogInv, RowShape
<1>5. SaveShape' /\ save'[e] = s /\ \A f \in Editors \ {e} : save'[f] = save[f]
  BY <1>1, <1>2, <1>4 DEF CatalogInv, SaveShape
<1>6. Fits(e)'
  BY <1>1, <1>3, <1>5, NoCardsShape
  DEF Fits, SaleFits, HoldsCards, LeavesOne, AloneFits, Flushed, CatalogInv, RowShape
<1>. QED  BY <1>1, <1>3, <1>5, <1>6, SaveMoves

\* What a save would leave, by the types of what it has read.
LEMMA ViewShape ==
  ASSUME CatalogInv, NEW e \in Editors, save[e].pc # "idle"
  PROVE  /\ save[e].op \in Ops /\ save[e].seen \in Product /\ save[e].seen.there
         /\ View(e).p \in Product /\ View(e).p.there
         /\ texts \subseteq View(e).t /\ View(e).t \subseteq Langs
         /\ View(e).v \in VariantStates
         /\ Rows(e) \subseteq Langs \cup Variants \cup {"product", "cards"}
<1>1. save[e].op \in Ops /\ save[e].seen \in Product /\ save[e].seen.there
  BY DEF CatalogInv, Fits, SaleFits
<1>2. /\ View(e).p \in Product /\ View(e).p.there
      /\ texts \subseteq View(e).t /\ View(e).t \subseteq Langs
      /\ View(e).v \in VariantStates
  BY <1>1, AfterShape DEF View, CatalogInv, RowShape
<1>3. Rows(e) \subseteq Langs \cup Variants \cup {"product", "cards"}
  <2>1. /\ save[e].op.kind = "text" => save[e].op.arg \in Langs
        /\ save[e].op.kind \in {"create", "enable", "disable", "drop"} => save[e].op.arg \in Variants
    BY <1>1 DEF Ops
  <2>. QED  BY <2>1 DEF Rows
<1>. QED  BY <1>1, <1>2, <1>3

LEMMA WriteStep ==
  ASSUME CatalogInv, NEW e \in Editors, Write(e) PROVE CatalogInv'
<1>1. CASE GivesUp(e)
  BY <1>1, GivesUpStep
<1>2. CASE ~GivesUp(e)
  <2>1. /\ save[e].pc = "loaded" /\ \A row \in Rows(e) : ~HeldByOthers(e, row)
        /\ Guarded(save[e].op) /\ View(e).p.active => Publishable(View(e).p, View(e).t, View(e).v)
        /\ UNCHANGED <<product, texts, variant, cards, edits, elastic, index, tasks, work>>
    BY <1>2 DEF Write
  <2>2. PICK next : next = IF Rebuilds(e) THEN "written" ELSE "built"
    OBVIOUS
  <2>3. /\ save[e] \in Saves /\ save[e].op \in Ops
        /\ save[e].seen \in Product /\ save[e].seen.there
        /\ Rows(e) \subseteq Langs \cup Variants \cup {"product", "cards"}
    BY <2>1, ViewShape DEF CatalogInv, SaveShape
  <2>4. PICK rows : rows = Rows(e)
    OBVIOUS
  <2>5. PICK s : s = [save[e] EXCEPT !.pc = next, !.held = rows]
    OBVIOUS
  <2>6. /\ s \in Saves /\ s.pc = next /\ s.held = Rows(e) /\ s.op = save[e].op
        /\ s.seen = save[e].seen /\ s.built = save[e].built /\ s.met = save[e].met
    BY <2>2, <2>3, <2>4, <2>5 DEF Saves
  <2>7. save' = [save EXCEPT ![e].pc = next, ![e].held = rows]
    BY <1>2, <2>2, <2>4 DEF Write
  <2>8. save' = [save EXCEPT ![e] = s]
    BY <2>5, <2>7 DEF CatalogInv, SaveShape
  <2>9. SaveShape' /\ save'[e] = s /\ \A f \in Editors \ {e} : save'[f] = save[f]
    BY <2>6, <2>8 DEF CatalogInv, SaveShape
  <2>10. \A f \in Editors \ {e} : s.held \cap save[f].held = {}
    BY <2>1, <2>6 DEF HeldByOthers
  <2>11. Rebuilds(e)' = Rebuilds(e) /\ Rows(e)' = Rows(e) /\ View(e)' = View(e)
    BY <2>1, <2>6, <2>9 DEF Rebuilds, Rows, View
  <2>12. save[e].op.kind = "active" /\ save[e].op.arg => texts = Langs
    <3>1. ASSUME save[e].op.kind = "active", save[e].op.arg PROVE texts = Langs
      <4>1. save[e].op.arg = TRUE
        BY <2>3, <3>1 DEF Ops
      <4>2. View(e).p.active /\ View(e).t = texts
        BY <2>3, <3>1, <4>1 DEF View, ProductAfter, TextsAfter, Product
      <4>. QED  BY <2>1, <3>1, <4>2 DEF Guarded, Publishable
    <3>. QED  BY <3>1
  <2>13. SaleFits(e)'
    BY <2>1, <2>3, <2>6, <2>9, <2>11, <2>12 DEF SaleFits, CatalogInv, Fits, Uniform, Flushed
  <2>14. HoldsCards(e)' /\ LeavesOne(e)'
    BY <2>2, <2>6, <2>9, <2>11 DEF HoldsCards, LeavesOne, Knowing, Rebuilds
  <2>15. AloneFits(e)'
    BY <2>1, <2>2, <2>6, <2>9, <2>11 DEF AloneFits, CatalogInv, Fits
  <2>. QED  BY <2>1, <2>9, <2>10, <2>13, <2>14, <2>15, SaveMoves DEF Fits
<1>. QED  BY <1>1, <1>2

\* A save goes on that has flushed: what its cards will need is not checked yet.
LEMMA GoesOn ==
  ASSUME CatalogInv, NEW e \in Editors, NEW s \in Saves, save' = [save EXCEPT ![e] = s],
         save[e].pc \in {"written", "waiting"}, s.pc \in {"waiting", "cleared"},
         s.op = save[e].op, s.seen = save[e].seen, s.built = save[e].built, s.met = save[e].met,
         \/ s.held = save[e].held
         \/ s.held = save[e].held \cup {"cards"} /\ ~HeldByOthers(e, "cards"),
         save[e].met = {} /\ s.pc = "waiting" => s.since = edits,
         save[e].met = {} /\ s.pc = "cleared" => s.cleared \/ cards = NoCards,
         UNCHANGED <<product, texts, variant, cards, edits, elastic, index, tasks, work>>
  PROVE  CatalogInv'
<1>1. SaveShape' /\ save'[e] = s /\ \A f \in Editors \ {e} : save'[f] = save[f]
  BY DEF CatalogInv, SaveShape
<1>2. \A f \in Editors \ {e} : s.held \cap save[f].held = {}
  BY DEF HeldByOthers, CatalogInv, HeldApart
<1>3. Rows(e)' = Rows(e)
  BY <1>1 DEF Rows
<1>4. SaleFits(e)'
  BY <1>1, <1>3 DEF SaleFits, CatalogInv, Fits, Flushed, Uniform
<1>5. HoldsCards(e)' /\ LeavesOne(e)' /\ AloneFits(e)'
  BY <1>1 DEF HoldsCards, LeavesOne, AloneFits, CatalogInv, Fits
<1>. QED  BY <1>1, <1>2, <1>4, <1>5, SaveMoves DEF Fits

LEMMA ClearStep ==
  ASSUME CatalogInv, NEW e \in Editors, Clear(e) PROVE CatalogInv'
<1>1. PICK s : s = IF cards = NoCards THEN [save[e] EXCEPT !.pc = "cleared"]
                   ELSE IF HeldByOthers(e, "cards") THEN [save[e] EXCEPT !.pc = "waiting", !.since = edits]
                   ELSE Emptied(save[e])
  OBVIOUS
<1>2. /\ save[e].pc = "written" /\ save' = [save EXCEPT ![e] = s]
      /\ UNCHANGED <<product, texts, variant, cards, edits, elastic, index, tasks, work>>
  BY <1>1 DEF Clear, CatalogInv, SaveShape
<1>3. save[e] \in Saves /\ edits \in Nat
  BY DEF CatalogInv, SaveShape, CountInv
<1>4. /\ s \in Saves /\ s.op = save[e].op /\ s.seen = save[e].seen
      /\ s.built = save[e].built /\ s.met = save[e].met
  BY <1>1, <1>3 DEF Saves, Emptied
<1>5. \/ s.pc = "cleared" /\ cards = NoCards /\ s.held = save[e].held
      \/ s.pc = "waiting" /\ s.since = edits /\ s.held = save[e].held
      \/ s.pc = "cleared" /\ s.cleared /\ s.held = save[e].held \cup {"cards"} /\ ~HeldByOthers(e, "cards")
  BY <1>1, <1>3 DEF Saves, Emptied
<1>. QED  BY <1>2, <1>4, <1>5, GoesOn

LEMMA ResumeStep ==
  ASSUME CatalogInv, NEW e \in Editors, Resume(e) PROVE CatalogInv'
<1>1. PICK s : s = IF edits # save[e].since THEN [save[e] EXCEPT !.pc = "cleared"]
                   ELSE Emptied(save[e])
  OBVIOUS
<1>2. /\ save[e].pc = "waiting" /\ ~HeldByOthers(e, "cards") /\ save' = [save EXCEPT ![e] = s]
      /\ UNCHANGED <<product, texts, variant, cards, edits, elastic, index, tasks, work>>
  BY <1>1 DEF Resume, CatalogInv, SaveShape
<1>3. save[e] \in Saves /\ (save[e].met = {} => save[e].since = edits)
  BY <1>2 DEF CatalogInv, SaveShape, Fits, AloneFits
<1>4. /\ s \in Saves /\ s.op = save[e].op /\ s.seen = save[e].seen /\ s.pc = "cleared"
      /\ s.built = save[e].built /\ s.met = save[e].met
  BY <1>1, <1>3 DEF Saves, Emptied
<1>5. \/ save[e].met # {} /\ s.held = save[e].held
      \/ s.cleared /\ s.held = save[e].held \cup {"cards"}
  BY <1>1, <1>3 DEF Saves, Emptied
<1>. QED  BY <1>2, <1>4, <1>5, GoesOn

LEMMA BuildStep ==
  ASSUME CatalogInv, NEW e \in Editors, Build(e) PROVE CatalogInv'
<1>1. CASE View(e).p.active /\ Refused(e)
  BY <1>1, GivesUpStep DEF Build
<1>2. CASE ~(View(e).p.active /\ Refused(e))
  <2>1. /\ save[e].pc = "cleared" /\ save[e] \in Saves
        /\ View(e).p.active => \A row \in Needs(e) : ~HeldByOthers(e, row)
        /\ View(e).p.active => Publishable(View(e).p, View(e).t, View(e).v)
        /\ UNCHANGED <<product, texts, variant, cards, edits, elastic, index, tasks, work>>
    BY <1>2 DEF Build, Refused, CatalogInv, SaveShape
  <2>2. PICK built : built = CardsOf(View(e).p, View(e).t, View(e).v)
    OBVIOUS
  <2>3. PICK held : held = IF View(e).p.active THEN save[e].held \cup Needs(e) ELSE save[e].held
    OBVIOUS
  <2>4. PICK s : s = [save[e] EXCEPT !.pc = "built", !.built = built, !.held = held]
    OBVIOUS
  <2>5. /\ built \in Cards /\ Uniform(built)
        /\ save[e].op \in Ops /\ save[e].seen \in Product /\ save[e].seen.there
    BY <2>1, <2>2, ViewShape, CardsShape DEF Publishable
  <2>6. held \subseteq Langs \cup Variants \cup {"product", "cards"} /\ save[e].held \subseteq held
    BY <2>1, <2>3 DEF Needs, Saves
  <2>7. /\ s \in Saves /\ s.pc = "built" /\ s.held = held /\ s.op = save[e].op /\ s.seen = save[e].seen
        /\ s.built = built /\ s.met = save[e].met /\ s.cleared = save[e].cleared
    BY <2>1, <2>4, <2>5, <2>6 DEF Saves
  <2>8. save' = [save EXCEPT ![e].pc = "built", ![e].built = built,
                   ![e].held = IF View(e).p.active THEN @ \cup Needs(e) ELSE @]
    BY <1>2, <2>2 DEF Build
  <2>9. save' = [save EXCEPT ![e] = s]
    BY <2>1, <2>3, <2>4, <2>8 DEF CatalogInv, SaveShape, Saves
  <2>10. SaveShape' /\ save'[e] = s /\ \A f \in Editors \ {e} : save'[f] = save[f]
    BY <2>7, <2>9 DEF CatalogInv, SaveShape
  <2>11. \A f \in Editors \ {e} : s.held \cap save[f].held = {}
    BY <2>1, <2>3, <2>7 DEF HeldByOthers, CatalogInv, HeldApart
  <2>12. Rebuilds(e)' = Rebuilds(e) /\ Rows(e)' = Rows(e) /\ View(e)' = View(e)
    BY <2>1, <2>7, <2>10 DEF Rebuilds, Rows, View
  <2>13. SaleFits(e)'
    <3>1. Uniform(save[e].built)'
      BY <2>5, <2>7, <2>10 DEF Uniform
    <3>. QED  BY <2>1, <2>5, <2>6, <2>7, <2>10, <2>12, <3>1 DEF SaleFits, CatalogInv, Fits, Flushed
  <2>14. HoldsCards(e)'
    BY <2>3, <2>7, <2>10, <2>12 DEF HoldsCards, Needs
  <2>15. LeavesOne(e)'
    BY <2>1, <2>12 DEF LeavesOne, Publishable
  <2>16. AloneFits(e)'
    BY <2>1, <2>2, <2>7, <2>10, <2>12 DEF AloneFits, CatalogInv, Fits
  <2>. QED  BY <2>1, <2>7, <2>10, <2>11, <2>13, <2>14, <2>15, <2>16, SaveMoves DEF Fits
<1>. QED  BY <1>1, <1>2

\* What a commit stores: columns of what it built on what is there.
LEMMA MergedShape ==
  ASSUME CatalogInv, NEW e \in Editors, save[e].pc = "built"
  PROVE  /\ Merged(e) \in Product
         /\ Merged(e).active = IF View(e).p.active # save[e].seen.active THEN View(e).p.active
                               ELSE product.active
         /\ Merged(e).variable = IF View(e).p.variable # save[e].seen.variable
                                 THEN View(e).p.variable ELSE product.variable
         /\ Merged(e).there = product.there
         /\ Merged(e).price = IF "product" \in save[e].held /\ Synced(e).price # save[e].seen.price
                              THEN Synced(e).price ELSE product.price
<1>1. /\ save[e].op \in Ops /\ save[e].seen \in Product /\ save[e].seen.there
      /\ View(e).p \in Product /\ View(e).v \in VariantStates /\ View(e).p.there
  BY ViewShape
<1>2. CardOf(View(e).p, View(e).v).price \in Nat
  BY <1>1, CardShape DEF Card
<1>3. PICK s : s = Synced(e)
  OBVIOUS
<1>4. /\ s \in Product /\ s.active = View(e).p.active /\ s.variable = View(e).p.variable
      /\ s.there = View(e).p.there
  BY <1>1, <1>2, <1>3 DEF Synced, Product
<1>5. PICK n : n = [s EXCEPT !.price = IF "product" \in save[e].held THEN s.price ELSE product.price]
  OBVIOUS
<1>6. /\ n \in Product /\ n.active = View(e).p.active /\ n.variable = View(e).p.variable
      /\ n.there = View(e).p.there
      /\ n.price = IF "product" \in save[e].held THEN s.price ELSE product.price
  BY <1>4, <1>5 DEF Product, CatalogInv, RowShape
<1>7. Merged(e) = [c \in DOMAIN product |-> IF n[c] # save[e].seen[c] THEN n[c] ELSE product[c]]
  BY <1>3, <1>5 DEF Merged
<1>8. PICK d : d = save[e].seen
  OBVIOUS
<1>9. d \in Product /\ product \in Product
  BY <1>1, <1>8 DEF CatalogInv, RowShape
<1>10. PICK m : m = [c \in DOMAIN product |-> IF n[c] # d[c] THEN n[c] ELSE product[c]]
  OBVIOUS
<1>11. m \in Product
  BY <1>6, <1>9, <1>10 DEF Product
<1>12. /\ m.active = IF n.active # d.active THEN n.active ELSE product.active
       /\ m.variable = IF n.variable # d.variable THEN n.variable ELSE product.variable
       /\ m.there = IF n.there # d.there THEN n.there ELSE product.there
       /\ m.price = IF n.price # d.price THEN n.price ELSE product.price
  BY <1>9, <1>10 DEF Product
<1>. QED  BY <1>1, <1>3, <1>4, <1>6, <1>7, <1>8, <1>10, <1>11, <1>12

\* When a save ends, those still at work have met it and nothing else about them changes.
LEMMA EndedSave ==
  ASSUME CatalogInv, NEW e \in Editors, NEW kind \in {"knowing", "unknowing", "delete"},
         save' = Disturbed(e, kind)
  PROVE  /\ SaveShape' /\ HeldApart' /\ save'[e] = NoSave
         /\ \A f \in Editors \ {e} :
              /\ save'[f].pc = save[f].pc /\ save'[f].op = save[f].op /\ save'[f].seen = save[f].seen
              /\ save'[f].held = save[f].held /\ save'[f].built = save[f].built
              /\ save'[f].met = save[f].met \cup {kind}
<1>1. save'[e] = NoSave /\ NoSave \in Saves
  BY NoSaveShape DEF Disturbed
<1>2. ASSUME NEW f \in Editors \ {e}
      PROVE  /\ save'[f] \in Saves
             /\ save'[f].pc = save[f].pc /\ save'[f].op = save[f].op /\ save'[f].seen = save[f].seen
             /\ save'[f].held = save[f].held /\ save'[f].built = save[f].built
             /\ save'[f].met = save[f].met \cup {kind}
  <2>1. save[f] \in Saves
    BY DEF CatalogInv, SaveShape
  <2>2. save'[f] = [save[f] EXCEPT !.met = save[f].met \cup {kind}]
    BY DEF Disturbed
  <2>. QED  BY <2>1, <2>2 DEF Saves
<1>3. DOMAIN save' = Editors /\ save' = [f \in DOMAIN save' |-> save'[f]]
  BY DEF Disturbed
<1>4. SaveShape'
  BY <1>1, <1>2, <1>3 DEF SaveShape
<1>5. HeldApart'
  BY <1>1, <1>2 DEF CatalogInv, HeldApart, NoSave
<1>. QED  BY <1>1, <1>2, <1>4, <1>5

\* The bound on committed saves covers one that ends.
LEMMA EndedCounts ==
  ASSUME CatalogInv, NEW e \in Editors, edits' = edits + 1,
         save'[e].pc = "idle", \A f \in Editors \ {e} : save'[f].pc = save[f].pc,
         save[e].pc # "idle" \/ edits + Cardinality(Busy) < MaxEdits
  PROVE  CountInv' /\ edits' \in 0 .. MaxEdits
<1>1. IsFiniteSet(Busy) /\ Cardinality(Busy) \in Nat
  <2>1. IsFiniteSet(Busy)
    BY FiniteAssumption, FS_Subset DEF Busy
  <2>. QED  BY <2>1, FS_CardinalityType
<1>2. Busy' = Busy \ {e}
  BY DEF Busy
<1>3. IsFiniteSet(Busy \ {e}) /\ Cardinality(Busy \ {e}) = IF e \in Busy THEN Cardinality(Busy) - 1
                                                          ELSE Cardinality(Busy)
  BY <1>1, FS_RemoveElement
<1>4. Cardinality(Busy \ {e}) \in Nat
  BY <1>3, FS_CardinalityType
<1>5. edits \in Nat /\ edits + Cardinality(Busy) =< MaxEdits
  BY DEF CatalogInv, CountInv
<1>6. edits + 1 + Cardinality(Busy \ {e}) =< MaxEdits
  BY <1>1, <1>3, <1>4, <1>5, BoundsAssumption DEF Busy
<1>. QED  BY <1>2, <1>4, <1>5, <1>6, BoundsAssumption DEF CountInv

\* The search tasks a save sends have their shape.
LEMMA TaskSent ==
  ASSUME CatalogInv, UNCHANGED tasks \/ Enqueue("index") \/ Enqueue("delete"), UNCHANGED <<index, work>>
  PROVE  TaskShape'
<1>1. \A t \in tasks' : t \in tasks \/ t = [kind |-> "index", run |-> 1] \/ t = [kind |-> "delete", run |-> 1]
  BY DEF Enqueue
<1>2. 1 \in 1 .. MaxTries
  BY BoundsAssumption
<1>. QED  BY <1>1, <1>2 DEF CatalogInv, TaskShape, Tasks

LEMMA CommitStep ==
  ASSUME CatalogInv, NEW e \in Editors, Commit(e) PROVE CatalogInv'
<1>. DEFINE kind == IF Knowing(e) THEN "knowing" ELSE "unknowing"
<1>1. /\ save[e].pc = "built" /\ product' = Merged(e) /\ texts' = View(e).t /\ variant' = View(e).v
      /\ cards' = IF View(e).p.active THEN save[e].built
                  ELSE IF save[e].cleared THEN NoCards ELSE cards
      /\ edits' = edits + 1 /\ save' = Disturbed(e, kind)
      /\ UNCHANGED tasks \/ Enqueue("index") \/ Enqueue("delete")
      /\ UNCHANGED <<elastic, index, work>>
  BY DEF Commit
<1>2. /\ save[e].op \in Ops /\ save[e].seen \in Product
      /\ texts \subseteq View(e).t /\ View(e).t \subseteq Langs /\ View(e).v \in VariantStates
  BY <1>1, ViewShape
<1>3. /\ SaveShape' /\ HeldApart' /\ save'[e] = NoSave
      /\ \A f \in Editors \ {e} :
           /\ save'[f].pc = save[f].pc /\ save'[f].op = save[f].op /\ save'[f].seen = save[f].seen
           /\ save'[f].held = save[f].held /\ save'[f].built = save[f].built
           /\ save'[f].met = save[f].met \cup {kind}
  BY <1>1, EndedSave
<1>4. RowShape'
  <2>1. cards' \in Cards
    BY <1>1, NoCardsShape DEF CatalogInv, RowShape, SaveShape, Saves
  <2>. QED  BY <1>1, <1>2, <2>1, MergedShape DEF RowShape
<1>5. SaleInv'
  <2>1. Uniform(cards')
    BY <1>1, NoCardsShape DEF CatalogInv, SaleInv, Fits, SaleFits
  <2>2. ASSUME product'.active PROVE texts = Langs
    <3>1. CASE View(e).p.active # save[e].seen.active
      <4>1. save[e].op.kind = "active" /\ save[e].op.arg \in BOOLEAN
        BY <1>2, <3>1 DEF View, ProductAfter, Product, Ops
      <4>2. View(e).p.active = save[e].op.arg
        BY <1>2, <4>1 DEF View, ProductAfter, Product
      <4>3. save[e].op.arg
        BY <1>1, <2>2, <3>1, <4>2, MergedShape
      <4>. QED  BY <1>1, <4>1, <4>3 DEF CatalogInv, Fits, SaleFits, Flushed
    <3>2. CASE View(e).p.active = save[e].seen.active
      BY <1>1, <2>2, <3>2, MergedShape DEF CatalogInv, SaleInv
    <3>. QED  BY <3>1, <3>2
  <2>3. Uniform(cards)'
    BY <2>1 DEF Uniform
  <2>. QED  BY <1>1, <1>2, <2>2, <2>3 DEF SaleInv
<1>6. TaskShape'
  BY <1>1, TaskSent
<1>7. CountInv'
  BY <1>1, <1>3, EndedCounts DEF NoSave
<1>8. Fits(e)'
  <2>1. save'[e].pc = "idle" /\ Uniform(save[e].built)'
    BY <1>3, NoCardsShape DEF NoSave, Uniform
  <2>. QED  BY <2>1 DEF Fits, SaleFits, HoldsCards, LeavesOne, AloneFits, Flushed
<1>9. ASSUME NEW f \in Editors, f # e PROVE Fits(f)'
  <2>1. /\ save'[f].pc = save[f].pc /\ save'[f].op = save[f].op /\ save'[f].seen = save[f].seen
        /\ save'[f].held = save[f].held /\ save'[f].built = save[f].built
        /\ save'[f].met = save[f].met \cup {kind} /\ Fits(f)
    BY <1>3, <1>9 DEF CatalogInv
  <2>2. /\ Rebuilds(f)' = Rebuilds(f) /\ Rows(f)' = Rows(f) /\ Flushed(f)' = Flushed(f)
        /\ Knowing(f)' = Knowing(f) /\ View(f).p' = View(f).p
    BY <2>1 DEF Rebuilds, Rows, Flushed, Knowing, View
  <2>3. texts = Langs => texts' = Langs
    BY <1>1, <1>2
  <2>4. SaleFits(f)'
    <3>1. Uniform(save[f].built)'
      BY <2>1 DEF Uniform, Fits, SaleFits
    <3>. QED  BY <2>1, <2>2, <2>3, <3>1 DEF Fits, SaleFits
  <2>5. HoldsCards(f)'
    BY <2>1, <2>2 DEF Fits, HoldsCards
  <2>6. LeavesOne(f)'
    <3>1. SUFFICES ASSUME save[f].pc = "built", Knowing(f), "unknowing" \notin save[f].met, Knowing(e),
                          View(f).p.active, View(f).p.variable
                   PROVE  On(View(f).v)' # {}
      BY <2>1, <2>2 DEF LeavesOne
    <3>2. CASE save[e].op.kind \in {"create", "enable", "disable", "drop"}
      <4>1. View(e).p.active /\ Rebuilds(e)
        BY <3>1, <3>2 DEF View, ProductAfter, Knowing, Rebuilds
      <4>2. "cards" \in save[e].held /\ "cards" \in save[f].held
        BY <1>1, <2>1, <3>1, <4>1 DEF CatalogInv, Fits, HoldsCards, Rebuilds, Knowing
      <4>. QED  BY <1>9, <4>2 DEF CatalogInv, HeldApart
    <3>3. CASE save[e].op.kind \notin {"create", "enable", "disable", "drop"}
      <4>1. variant' = variant
        BY <1>1, <3>3 DEF View, VariantsAfter
      <4>2. View(f).v' = View(f).v
        BY <2>1, <4>1 DEF View
      <4>. QED  BY <2>1, <3>1, <4>2 DEF Fits, LeavesOne, On
    <3>. QED  BY <3>2, <3>3
  <2>7. AloneFits(f)'
    BY <2>1 DEF AloneFits
  <2>. QED  BY <2>4, <2>5, <2>6, <2>7 DEF Fits
<1>. QED  BY <1>3, <1>4, <1>5, <1>6, <1>7, <1>8, <1>9 DEF CatalogInv

LEMMA DeleteStep ==
  ASSUME CatalogInv, NEW e \in Editors, Delete(e) PROVE CatalogInv'
<1>1. /\ save[e].pc = "idle" /\ edits + Cardinality(Busy) < MaxEdits
      /\ \A f \in Editors : save[f].pc \in {"idle", "loaded"}
      /\ product' = [product EXCEPT !.there = FALSE, !.active = FALSE]
      /\ texts' = {} /\ variant' = [v \in Variants |-> "none"] /\ cards' = NoCards
      /\ edits' = edits + 1 /\ save' = Disturbed(e, "delete")
      /\ UNCHANGED tasks \/ Enqueue("index") \/ Enqueue("delete")
      /\ UNCHANGED <<elastic, index, work>>
  BY DEF Delete, Busy
<1>2. /\ SaveShape' /\ HeldApart' /\ save'[e] = NoSave
      /\ \A f \in Editors \ {e} :
           /\ save'[f].pc = save[f].pc /\ save'[f].op = save[f].op /\ save'[f].seen = save[f].seen
           /\ save'[f].held = save[f].held /\ save'[f].built = save[f].built
           /\ save'[f].met = save[f].met \cup {"delete"}
  BY <1>1, EndedSave
<1>3. RowShape' /\ ~product'.active
  BY <1>1, NoCardsShape DEF CatalogInv, RowShape, Product, VariantStates
<1>4. SaleInv'
  BY <1>1, <1>3, NoCardsShape DEF SaleInv, Uniform
<1>5. TaskShape'
  BY <1>1, TaskSent
<1>6. CountInv'
  BY <1>1, <1>2, EndedCounts DEF NoSave
<1>7. Fits(e)'
  <2>1. save'[e].pc = "idle" /\ Uniform(save[e].built)'
    BY <1>2, NoCardsShape DEF NoSave, Uniform
  <2>. QED  BY <2>1 DEF Fits, SaleFits, HoldsCards, LeavesOne, AloneFits, Flushed
<1>8. ASSUME NEW f \in Editors, f # e PROVE Fits(f)'
  <2>1. /\ save'[f].pc \in {"idle", "loaded"} /\ save'[f].pc = save[f].pc /\ save'[f].op = save[f].op
        /\ save'[f].seen = save[f].seen /\ save'[f].built = save[f].built
        /\ save'[f].met = save[f].met \cup {"delete"} /\ Fits(f)
    BY <1>1, <1>2, <1>8 DEF CatalogInv
  <2>2. Uniform(save[f].built)'
    BY <2>1 DEF Uniform, Fits, SaleFits
  <2>. QED  BY <2>1, <2>2 DEF Fits, SaleFits, HoldsCards, LeavesOne, AloneFits, Flushed
<1>. QED  BY <1>2, <1>3, <1>4, <1>5, <1>6, <1>7, <1>8 DEF CatalogInv

\* Search tasks touch no row.
LEMMA TasksMove ==
  ASSUME CatalogInv, TaskShape', UNCHANGED <<product, texts, variant, cards, save, edits, elastic>>
  PROVE  CatalogInv'
<1>1. RowShape' /\ SaveShape' /\ SaleInv' /\ HeldApart'
  BY DEF CatalogInv, RowShape, SaveShape, SaleInv, HeldApart, Uniform
<1>2. CountInv'
  <2>1. Busy' = Busy
    BY DEF Busy
  <2>. QED  BY <2>1 DEF CatalogInv, CountInv
<1>3. ASSUME NEW e \in Editors PROVE Fits(e)'
  <2>1. Fits(e)
    BY DEF CatalogInv
  <2>2. View(e)' = View(e) /\ Rebuilds(e)' = Rebuilds(e) /\ Knowing(e)' = Knowing(e)
        /\ Rows(e)' = Rows(e) /\ Flushed(e)' = Flushed(e)
    BY DEF View, Rebuilds, Knowing, Rows, Flushed
  <2>3. SaleFits(e)' /\ HoldsCards(e)' /\ LeavesOne(e)'
    BY <2>1, <2>2 DEF Fits, SaleFits, HoldsCards, LeavesOne, Uniform
  <2>4. AloneFits(e)'
    BY <2>1, <2>2 DEF Fits, AloneFits
  <2>. QED  BY <2>3, <2>4 DEF Fits
<1>. QED  BY <1>1, <1>2, <1>3 DEF CatalogInv

\* A worker's task begins, ends or fails; a task's runs are bounded.
LEMMA IndexingStep ==
  ASSUME CatalogInv, NEW w \in Workers, Indexing(w) \/ Recreate(w) \/ FailTask(w)
  PROVE  CatalogInv'
<1>. DEFINE Docs == 0 .. MaxEdits \cup {None}
<1>1. /\ index \in Docs /\ tasks \subseteq Tasks /\ work \in [Workers -> Works] /\ work[w] \in Works
      /\ None \in Docs
  BY DEF CatalogInv, TaskShape
<1>2. Document \in Docs
  <2>1. edits \in Nat /\ edits =< MaxEdits
    <3>1. IsFiniteSet(Busy)
      BY FiniteAssumption, FS_Subset DEF Busy
    <3>2. Cardinality(Busy) \in Nat
      BY <3>1, FS_CardinalityType
    <3>. QED  BY <3>2, BoundsAssumption DEF CatalogInv, CountInv
  <2>. QED  BY <2>1, BoundsAssumption DEF Document
<1>. HIDE DEF Docs
<1>3. NoWork \in Works
  BY <1>1 DEF NoWork, Works, Docs
<1>4. CASE \E t \in tasks : FetchDocs(w, t)
  <2>1. PICK t \in tasks : FetchDocs(w, t)
    BY <1>4
  <2>2. PICK x : x = IF product.there THEN [pc |-> "write", task |-> t, doc |-> Document] ELSE NoWork
    OBVIOUS
  <2>3. x \in Works
    BY <1>1, <1>2, <1>3, <2>2 DEF Works, Docs
  <2>4. work' = [work EXCEPT ![w] = x] /\ tasks' \subseteq tasks /\ UNCHANGED index
    BY <2>1, <2>2 DEF FetchDocs
  <2>5. TaskShape'
    BY <1>1, <2>3, <2>4 DEF TaskShape, Docs
  <2>. QED  BY <2>1, <2>5, TasksMove DEF FetchDocs
<1>5. CASE \E t \in tasks : DeleteDoc(w, t)
  <2>1. TaskShape'
    BY <1>1, <1>5 DEF TaskShape, Docs, DeleteDoc
  <2>. QED  BY <1>5, <2>1, TasksMove DEF DeleteDoc
<1>6. CASE Refill(w)
  <2>1. PICK x : x = [work[w] EXCEPT !.pc = "write", !.doc = Document]
    OBVIOUS
  <2>2. x \in Works
    BY <1>1, <1>2, <2>1 DEF Works, Docs
  <2>3. work' = [work EXCEPT ![w] = x]
    <3>1. PICK d : d = Document
      OBVIOUS
    <3>2. work' = [work EXCEPT ![w].pc = "write", ![w].doc = d]
      BY <1>6, <3>1 DEF Refill
    <3>. QED  BY <1>1, <2>1, <3>1, <3>2
  <2>4. TaskShape'
    BY <1>1, <1>6, <2>2, <2>3 DEF TaskShape, Docs, Refill
  <2>. QED  BY <1>6, <2>4, TasksMove DEF Refill
<1>7. CASE WriteDocs(w)
  <2>1. index' \in Docs
    BY <1>1, <1>7 DEF WriteDocs, Works, Docs
  <2>2. TaskShape'
    BY <1>1, <1>3, <1>7, <2>1 DEF TaskShape, Docs, WriteDocs
  <2>. QED  BY <1>7, <2>2, TasksMove DEF WriteDocs
<1>8. CASE Recreate(w)
  <2>1. PICK x : x = [NoWork EXCEPT !.pc = "refill", !.task.kind = "nightly"]
    OBVIOUS
  <2>2. x \in Works
    BY <1>1, <2>1 DEF NoWork, Works, Docs
  <2>3. work' = [work EXCEPT ![w] = x] /\ index' \in Docs
    BY <1>1, <1>8, <2>1 DEF Recreate, Recreated
  <2>4. TaskShape'
    BY <1>1, <1>8, <2>2, <2>3 DEF TaskShape, Docs, Recreate
  <2>. QED  BY <1>8, <2>4, TasksMove DEF Recreate
<1>9. CASE FailTask(w)
  <2>1. PICK t : t = work[w].task
    OBVIOUS
  <2>2. ASSUME t.kind = "index", Retried(t.run) PROVE [t EXCEPT !.run = @ + 1] \in Tasks
    <3>1. t \in Tasks
      BY <1>1, <2>1, <2>2 DEF Works
    <3>2. t.run + 1 \in 1 .. MaxTries
      BY <2>2, <3>1, BoundsAssumption DEF Tasks, Retried
    <3>. QED  BY <3>1, <3>2 DEF Tasks
  <2>3. tasks' \subseteq Tasks /\ work' = [work EXCEPT ![w] = NoWork] /\ UNCHANGED index
    BY <1>1, <1>9, <2>1, <2>2 DEF FailTask
  <2>4. TaskShape'
    BY <1>1, <1>3, <2>3 DEF TaskShape, Docs
  <2>. QED  BY <1>9, <2>4, TasksMove DEF FailTask
<1>. QED  BY <1>4, <1>5, <1>6, <1>7, <1>8, <1>9 DEF Indexing

LEMMA CatalogStep ==
  ASSUME CatalogInv, [Next]_vars PROVE CatalogInv'
<1>1. CASE \E e \in Editors, op \in Ops : Load(e, op)
  BY <1>1, LoadStep
<1>2. ASSUME NEW e \in Editors, Saving(e) PROVE CatalogInv'
  <2>1. Abort(e) => GivesUp(e)
    BY DEF Abort
  <2>. QED  BY <1>2, <2>1, WriteStep, ClearStep, ResumeStep, BuildStep, CommitStep, GivesUpStep DEF Saving
<1>3. CASE \E e \in Editors : Delete(e)
  BY <1>3, DeleteStep
<1>4. CASE \E w \in Workers : Indexing(w) \/ Recreate(w) \/ FailTask(w)
  BY <1>4, IndexingStep
<1>5. CASE UNCHANGED vars
  <2>1. TaskShape'
    BY <1>5 DEF CatalogInv, TaskShape, vars
  <2>. QED  BY <1>5, <2>1, TasksMove DEF vars
<1>. QED  BY <1>1, <1>2, <1>3, <1>4, <1>5 DEF Next

\* Saves, however they overlap, keep the catalogue's invariant (update_product,
\* set_product_translation, the variants' and pictures' routes, delete_product).
THEOREM CatalogInvariant == Spec => []CatalogInv
<1>1. Init => CatalogInv
  BY CatalogInit
<1>2. CatalogInv /\ [Next]_vars => CatalogInv'
  BY CatalogStep
<1>. QED  BY <1>1, <1>2, PTL DEF Spec

\* An active product has a text in every language and is listed in all of them or in none,
\* whichever saves overlap (assert_publishable, rebuild_card).
THEOREM PublicationStaysSound == Spec => []PublicationIsSound
<1>1. ASSUME CatalogInv PROVE PublicationIsSound
  <2>1. edits \in 0 .. MaxEdits
    <3>1. IsFiniteSet(Busy)
      BY FiniteAssumption, FS_Subset DEF Busy
    <3>2. Cardinality(Busy) \in Nat
      BY <3>1, FS_CardinalityType
    <3>. QED  BY <1>1, <3>2, BoundsAssumption DEF CatalogInv, CountInv
  <2>2. \A t \in tasks : t.kind \in {"index", "delete"} /\ t.run \in 1 .. MaxTries
    BY <1>1 DEF CatalogInv, TaskShape, Tasks
  <2>3. TypeOK
    BY <1>1, <2>1, <2>2
    DEF CatalogInv, RowShape, TaskShape, TypeOK, Product, VariantStates, Cards, Card
  <2>4. PublishedInBothLanguages
    BY <1>1 DEF CatalogInv, SaleInv, Uniform, PublishedInBothLanguages
  <2>. QED  BY <2>3, <2>4 DEF PublicationIsSound
<1>2. CatalogInv => PublicationIsSound
  BY <1>1
<1>. QED  BY <1>2, CatalogInvariant, PTL

\* A save that met no other commits what its cards were built from.
LEMMA AloneCommits ==
  ASSUME CatalogInv, NEW e \in Editors, Commit(e), save[e].met = {}, Rebuilds(e)
  PROVE  /\ cards' = CardsOf(product', texts', variant')
         /\ product'.active => Publishable(product', texts', variant')
<1>. DEFINE p == View(e).p
            t == View(e).t
            v == View(e).v
<1>1. /\ save[e].pc = "built" /\ product' = Merged(e) /\ texts' = t /\ variant' = v
      /\ cards' = IF p.active THEN save[e].built ELSE IF save[e].cleared THEN NoCards ELSE cards
  BY DEF Commit
<1>2. /\ save[e].seen = product /\ (save[e].cleared \/ cards = NoCards)
      /\ p.active => save[e].built = CardsOf(p, t, v) /\ Publishable(p, t, v)
      /\ Rows(e) \subseteq save[e].held
  BY <1>1 DEF CatalogInv, Fits, AloneFits, SaleFits, Flushed
<1>3. /\ product \in Product /\ p \in Product /\ v \in VariantStates
      /\ save[e].op \in Ops /\ p.there /\ product.there
  BY <1>1, <1>2, ViewShape
<1>4. /\ product' \in Product /\ product'.there = p.there /\ product'.active = p.active
      /\ product'.variable = p.variable
  BY <1>1, <1>2, <1>3, MergedShape
<1>5. CASE ~p.active
  BY <1>1, <1>2, <1>4, <1>5 DEF CardsOf, NoCards
<1>6. CASE p.active
  <2>1. Publishable(product', t, v)
    BY <1>2, <1>4, <1>6 DEF Publishable
  <2>2. CASE p.variable
    <3>1. On(v) # {}
      BY <1>2, <1>6, <2>2 DEF Publishable
    <3>2. CardOf(product', v) = CardOf(p, v)
      BY <1>4, <2>2, <3>1 DEF CardOf
    <3>3. CardsOf(product', t, v) = CardsOf(p, t, v)
      BY <1>4, <3>2 DEF CardsOf
    <3>. QED  BY <1>1, <1>2, <1>6, <2>1, <3>3
  <2>3. CASE ~p.variable
    <3>1. Synced(e) = p
      BY <2>3 DEF Synced
    <3>2. p.price # product.price => "product" \in save[e].held
      <4>1. ASSUME p.price # product.price PROVE save[e].op.kind = "price"
        <5>1. save[e].op.kind \in {"active", "select"} => save[e].op.arg \in BOOLEAN
          BY <1>3 DEF Ops
        <5>. QED  BY <1>2, <1>3, <4>1, <5>1 DEF View, ProductAfter, Product
      <4>. QED  BY <1>2, <4>1 DEF View, Rows
    <3>3. product'.price = p.price
      BY <1>1, <1>2, <3>1, <3>2, MergedShape
    <3>4. \A x, y \in Product :
            x.there = y.there /\ x.active = y.active /\ x.variable = y.variable /\ x.price = y.price => x = y
      BY DEF Product
    <3>5. product' = p
      BY <1>3, <1>4, <3>3, <3>4
    <3>. QED  BY <1>1, <1>2, <1>6, <2>1, <3>5
  <2>. QED  BY <2>2, <2>3
<1>. QED  BY <1>5, <1>6

\* A save ends as committed only by its own commit.
LEMMA OnlyCommits ==
  ASSUME CatalogInv, [Next]_vars, NEW e \in Editors, save[e].pc = "built", save'[e].pc = "idle"
  PROVE  Commit(e)
<1>1. save \in [Editors -> Saves]
  BY DEF CatalogInv, SaveShape
<1>2. ASSUME NEW f \in Editors, NEW op \in Ops, Load(f, op) PROVE FALSE
  <2>1. f # e
    BY <1>2 DEF Load
  <2>. QED  BY <1>1, <1>2, <2>1 DEF Load
<1>3. ASSUME NEW f \in Editors, Saving(f), ~Commit(e) PROVE FALSE
  <2>1. CASE Commit(f)
    <3>1. PICK kind \in {"knowing", "unknowing", "delete"} : save' = Disturbed(f, kind)
      BY <2>1 DEF Commit
    <3>2. f # e
      BY <1>3, <2>1
    <3>. QED  BY <3>1, <3>2, EndedSave
  <2>2. CASE Abort(f)
    <3>1. f # e
      BY <2>2 DEF Abort, BlockedBy, Awaits
    <3>. QED  BY <1>1, <2>2, <3>1 DEF Abort, GivesUp
  <2>3. CASE Write(f) \/ Clear(f) \/ Resume(f) \/ Build(f)
    <3>1. f # e
      BY <2>3 DEF Write, Clear, Resume, Build
    <3>. QED  BY <1>1, <2>3, <3>1 DEF Write, Clear, Resume, Build, GivesUp
  <2>. QED  BY <1>3, <2>1, <2>2, <2>3 DEF Saving
<1>4. CASE \E f \in Editors : Delete(f)
  BY <1>4 DEF Delete
<1>5. CASE \E w \in Workers : Indexing(w) \/ Recreate(w) \/ FailTask(w)
  <2>1. UNCHANGED save
    BY <1>5 DEF Indexing, FetchDocs, DeleteDoc, Refill, WriteDocs, Recreate, FailTask
  <2>. QED  BY <2>1
<1>6. CASE UNCHANGED vars
  BY <1>6 DEF vars
<1>. QED  BY <1>2, <1>3, <1>4, <1>5, <1>6 DEF Next

\* The last variant to buy goes only in the commit of a save that did not know the product
\* to be on sale, or met one that did not.
LEMMA LastGoes ==
  ASSUME CatalogInv, [Next]_vars PROVE LastVariantStays
<1>. SUFFICES ASSUME On(variant) # {}, product'.active, product'.variable, On(variant') = {}
              PROVE  \E e \in Editors : /\ save[e].pc = "built" /\ save'[e].pc = "idle"
                                        /\ ~Knowing(e) \/ "unknowing" \in save[e].met
  BY DEF LastVariantStays
<1>1. variant' # variant
  OBVIOUS
<1>2. \E e \in Editors : Commit(e) \/ Delete(e)
  BY <1>1
  DEF Next, vars, Load, Saving, Write, Clear, Resume, Build, Abort, GivesUp,
      Indexing, FetchDocs, DeleteDoc, Refill, WriteDocs, Recreate, FailTask
<1>3. ASSUME NEW e \in Editors, Delete(e) PROVE FALSE
  BY <1>3 DEF Delete, CatalogInv, RowShape, Product
<1>4. PICK e \in Editors : Commit(e)
  BY <1>2, <1>3
<1>5. /\ save[e].pc = "built" /\ product' = Merged(e) /\ variant' = View(e).v
      /\ \E kind \in {"knowing", "unknowing", "delete"} : save' = Disturbed(e, kind)
  BY <1>4 DEF Commit
<1>6. save'[e].pc = "idle"
  BY <1>5, EndedSave DEF NoSave
<1>7. ASSUME Knowing(e), "unknowing" \notin save[e].met PROVE FALSE
  <2>1. ~View(e).p.active \/ ~View(e).p.variable
    BY <1>5, <1>7 DEF CatalogInv, Fits, LeavesOne
  <2>. QED  BY <1>5, <1>7, <2>1, MergedShape DEF Knowing
<1>. QED  BY <1>5, <1>6, <1>7

\* The last variant of a product on sale stays, and a save alone leaves the cards the
\* product calls for (delete_variant, rebuild_card).
THEOREM SavesStaySafe == Spec => SavesAreSafe
<1>1. ASSUME CatalogInv, [Next]_vars PROVE LoneSaveHeals
  BY <1>1, OnlyCommits, AloneCommits DEF LoneSaveHeals
<1>2. CatalogInv /\ [Next]_vars => [LastVariantStays /\ LoneSaveHeals]_vars
  BY <1>1, LastGoes
<1>. QED  BY <1>2, CatalogInvariant, PTL DEF Spec, SavesAreSafe

=============================================================================
