------------------------------ MODULE Listing ------------------------------
(***************************************************************************)
(* The storefront's listing of one language: a shopper turns the pages of   *)
(* a filtered, sorted listing while saves rebuild cards under it.  A page   *)
(* is found again by a cursor that holds the last card's sort key.  Next to *)
(* it, the rail of related products on a product's page.                    *)
(***************************************************************************)
EXTENDS Ordered

CONSTANTS
  Products,     \* product ids, a newer product has a greater one
  Cards,        \* the cards a rebuild may write: [price, top, cats, home, sale, featured, stock]
  Queries,      \* what shoppers filter by: [category, min, max, sale, featured, values]
  AttributeOf,  \* the attribute of each attribute value there is
  ValuesOf,     \* the values assigned to each product
  PageSize,
  Limit,        \* length of the related rail
  Factor,       \* _RELATED_OVERFETCH_FACTOR
  MaxCandidates,  \* _RELATED_MAX_CANDIDATES
  MaxRebuilds,  \* bound on the cards rebuilt
  None

VARIABLES
  card,         \* the product_card row of each product, None where there is none
  walk,         \* the shopper's: [query, sort, cursor, shown, open]
  touched,      \* products whose card changed since the walk began
  rebuilds

listingVars == <<card, walk, touched, rebuilds>>

PRICE_SORTS == {"price_asc", "price_desc"}
Sorts == PRICE_SORTS \cup {"newest"}

\* _attribute_filter_subquery: as many attributes hit as the known chosen values have.
HasFacets(p, values) ==
  LET known == values \cap DOMAIN AttributeOf
      hit == ValuesOf[p] \cap known
  IN  values = {} \/
      /\ hit # {}
      /\ Cardinality({AttributeOf[v] : v \in hit}) = Cardinality({AttributeOf[v] : v \in known})

\* _apply_listing_filters
Matches(p, q) ==
  /\ card[p] # None
  /\ q.category # None => q.category \in card[p].cats
  /\ q.sale => card[p].sale
  /\ q.featured => card[p].featured
  /\ q.min # None => card[p].price >= q.min
  /\ q.max # None => card[p].price =< q.max
  /\ HasFacets(p, q.values)

\* order_columns_for
Precedes(sort, p, q) ==
  CASE sort = "price_asc" -> card[p].price < card[q].price \/ (card[p].price = card[q].price /\ p < q)
    [] sort = "price_desc" -> card[p].price > card[q].price \/ (card[p].price = card[q].price /\ p > q)
    [] OTHER -> p > q

\* Mutant: cards of the last one's price are passed over.
KeysetPredicateStrict(c, p) ==
  CASE c.sort = "price_asc" -> card[p].price > c.price
    [] c.sort = "price_desc" -> card[p].price < c.price
    [] OTHER -> p < c.id

\* keyset_predicate_for: the card comes after the one the cursor names.
KeysetPredicate(c, p) ==
  CASE c.sort = "price_asc" -> card[p].price > c.price \/ (card[p].price = c.price /\ p > c.id)
    [] c.sort = "price_desc" -> card[p].price < c.price \/ (card[p].price = c.price /\ p < c.id)
    [] OTHER -> p < c.id

\* _encode_cursor: the price only where the sort needs it.
EncodeCursor(sort, p) ==
  [sort |-> sort, id |-> p, price |-> IF sort \in PRICE_SORTS THEN card[p].price ELSE None]

\* _decode_cursor: a cursor made for another sort is refused.
Decodes(c, sort) == c # None => c.sort = sort

\* list_cards
ListCards(q, sort, cursor, limit) ==
  LET found == {p \in Products : Matches(p, q) /\ (cursor # None => KeysetPredicate(cursor, p))}
  IN  Limited(InOrder(found, {pair \in found \X found : Precedes(sort, pair[1], pair[2])}), limit)

NewWalk(q, sort) == [query |-> q, sort |-> sort, cursor |-> None, shown |-> <<>>, open |-> TRUE]

Init ==
  /\ card \in [Products -> Cards \cup {None}]
  /\ \E q \in Queries, sort \in Sorts : walk = NewWalk(q, sort)
  /\ touched = {}
  /\ rebuilds = 0

\* _list_cards_page: one card more than a page says whether there is another.
ListPage ==
  LET cards == ListCards(walk.query, walk.sort, walk.cursor, PageSize + 1)
      page == Limited(cards, PageSize)
      more == Len(cards) > PageSize
  IN  /\ walk.open
      /\ Decodes(walk.cursor, walk.sort)
      /\ walk' = [walk EXCEPT !.shown = @ \o page, !.open = more,
                              !.cursor = IF more THEN EncodeCursor(walk.sort, page[Len(page)]) ELSE None]
      /\ UNCHANGED <<card, touched, rebuilds>>

\* The shopper sorts differently and the old cursor comes along: the request is refused
\* and the listing begins anew.
Resort(sort) ==
  /\ walk.open
  /\ ~Decodes(walk.cursor, sort)
  /\ walk' = NewWalk(walk.query, sort)
  /\ touched' = {}
  /\ UNCHANGED <<card, rebuilds>>

\* A save in the back office rebuilds a product's card, writes its first or drops it.
Rebuild(p, c) ==
  /\ rebuilds < MaxRebuilds
  /\ c # card[p]
  /\ card' = [card EXCEPT ![p] = c]
  /\ touched' = touched \cup {p}
  /\ rebuilds' = rebuilds + 1
  /\ UNCHANGED walk

Next ==
  \/ ListPage
  \/ \E sort \in Sorts : Resort(sort)
  \/ \E p \in Products, c \in Cards \cup {None} : Rebuild(p, c)

Spec == Init /\ [][Next]_listingVars
-----------------------------------------------------------------------------
\* Related products

Buyable(p) == card[p] # None /\ card[p].stock

\* list_related_cards
Siblings(seed, limit) ==
  LET found == {p \in Products \ {seed} : Buyable(p) /\ card[p].home = card[seed].home}
  IN  Limited(InOrder(found, {pair \in found \X found : pair[1] > pair[2]}), limit)

\* load_related_cards_by_ids, kept in the search engine's order, up to the limit.
Picked(seed, ids) == Limited(Kept(ids, {p \in Products \ {seed} : Buyable(p)}), Limit)

\* Over-fetched by what was seen: the seed and the picked ones.
TopUp(seed, picked) ==
  LET fresh == Kept(Siblings(seed, Limit + Len(picked) + 1), Products \ Range(picked))
  IN  Limited(fresh, Limit - Len(picked))

\* What the search engine is asked for: more than fits the rail, for some cannot be shown.
Fetched(ranked) == Limited(ranked, Min({Limit * Factor, MaxCandidates}))

\* _related_elastic
RelatedElastic(seed, ranked) ==
  LET picked == Picked(seed, Fetched(ranked))
  IN  picked \o TopUp(seed, picked)

\* related_products: without a ranking, or when the search engine fails, the newest siblings.
RelatedProducts(seed, ranked) ==
  IF card[seed] = None THEN <<>>
  ELSE IF ranked = None THEN Siblings(seed, Limit) ELSE RelatedElastic(seed, ranked)
-----------------------------------------------------------------------------
\* Facets of a category

\* _subtree_card_ids
Subtree(c) == {p \in Products : card[p] # None /\ c \in card[p].cats}

\* facet_values: how many of the subtree's products have the value.
FacetCount(c, v) == Cardinality({p \in Subtree(c) : v \in ValuesOf[p]})

\* _group_facets: the values a category offers, under their attributes.
Facets(c) ==
  LET offered == {v \in DOMAIN AttributeOf : FacetCount(c, v) > 0}
  IN  [a \in {AttributeOf[v] : v \in offered} |->
         {[value |-> v, count |-> FacetCount(c, v)] : v \in {w \in offered : AttributeOf[w] = a}}]

\* price_bounds: from the lowest price to the highest one of any variant.
PriceBounds(c) ==
  IF Subtree(c) = {} THEN [min |-> None, max |-> None]
  ELSE [min |-> Min({card[p].price : p \in Subtree(c)}),
        max |-> Max({IF card[p].top = None THEN card[p].price ELSE card[p].top : p \in Subtree(c)})]
-----------------------------------------------------------------------------
\* Properties

\* What the listing promises of a card: at least one of the chosen values of every
\* attribute chosen from, and every other filter.
Wanted(p, q) ==
  /\ card[p] # None
  /\ q.category \in card[p].cats \cup {None}
  /\ (q.sale => card[p].sale) /\ (q.featured => card[p].featured)
  /\ (q.min = None \/ card[p].price >= q.min) /\ (q.max = None \/ card[p].price =< q.max)
  /\ LET known == {v \in q.values : v \in DOMAIN AttributeOf}
     IN  /\ q.values # {} => known # {}
         /\ \A v \in known : \E w \in known \cap ValuesOf[p] : AttributeOf[w] = AttributeOf[v]

\* A card nobody touched during the walk is shown exactly once if it belongs to the
\* listing and never if it does not, however cards around it, the one the cursor names
\* too, are rebuilt, moved or dropped; by newest first no card is shown twice at all.
UntouchedShownOnce ==
  /\ ~walk.open => \A p \in Products \ touched :
       Cardinality({i \in DOMAIN walk.shown : walk.shown[i] = p}) = IF Wanted(p, walk.query) THEN 1 ELSE 0
  /\ walk.sort = "newest" => IsInjective(walk.shown)

\* The rail shows each product once, only what can be bought and never the seed, and it is
\* as full as the products fetched and the siblings allow, whatever the search engine ranks.
RailIsFull ==
  \A seed \in {p \in Products : card[p] # None} :
    \A ranked \in {None} \cup UNION {Arrangements(S) : S \in SUBSET Products} :
      LET rail == RelatedProducts(seed, ranked)
          fetched == IF ranked = None THEN {} ELSE Range(Fetched(ranked))
          offered == {p \in Products \ {seed} :
                        Buyable(p) /\ (p \in fetched \/ card[p].home = card[seed].home)}
      IN  /\ IsInjective(rail)
          /\ Range(rail) \subseteq offered
          /\ Len(rail) = Min({Limit, Cardinality(offered)})

\* The filters of a category tell the truth: choosing a value lists as many products as its
\* count says, values beyond those offered list nothing, and the whole price range hides
\* nothing (facets, list_cards).
FacetsPredict ==
  \A c \in UNION {card[p].cats : p \in {p \in Products : card[p] # None}} :
    LET page(lo, hi, vs) ==
          {p \in Products : Matches(p, [category |-> c, min |-> lo, max |-> hi, sale |-> FALSE,
                                        featured |-> FALSE, values |-> vs])}
        facets == Facets(c)
        offered == UNION {facets[a] : a \in DOMAIN facets}
    IN  /\ \A f \in offered : Cardinality(page(None, None, {f.value})) = f.count
        /\ \A v \in DOMAIN AttributeOf \ {f.value : f \in offered} : page(None, None, {v}) = {}
        /\ page(PriceBounds(c).min, PriceBounds(c).max, {}) = page(None, None, {})
=============================================================================
