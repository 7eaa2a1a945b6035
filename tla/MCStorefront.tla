---------------------------- MODULE MCStorefront ----------------------------
(***************************************************************************)
(* The catalogue as customers see it, in parts that share no row with each  *)
(* other: the pages of a listing and of a search, the category menu, the    *)
(* variants, reviews and pictures of a product.  Each behaviour is about    *)
(* one of them, named by part; the variables of the others lie idle.        *)
(***************************************************************************)
EXTENDS Naturals, Integers, Sequences, FiniteSets, TLC

CONSTANTS
  None,
  Products, Cards, Queries, AttributeOf, ValuesOf, PageSize, Limit, Factor, MaxCandidates, MaxRebuilds,
  Ids, Forests, Staff, MaxEdits,
  VariantIds, Clerks, MaxChanges,
  Authors, Ratings, Visits, MaxVisits, PublicPage,
  Goods, TsRank, CodeHits, EsRanking, ResultPage, MaxFlips,
  Widths, MaxSide, Files, Old, OldWidth, Hands, MaxNames, MaxCalls

VARIABLES
  part,
  card, walk, touched, rebuilds,
  cat, item, edit, clashed, edits,
  attrs, values, assigned, axes, combo, call, outgrown, raced, changes,
  review, screen, visit, lastId, visits, passed, blind, reader, moved,
  onSale, indexed, engine, hunt, steady, flips,
  stored, gallery, cover, request, calls, names, cardRev, given, backfill, faults, crossed

listing == <<card, walk, touched, rebuilds>>
tree == <<cat, item, edit, clashed, edits>>
variations == <<attrs, values, assigned, axes, combo, call, outgrown, raced, changes>>
reviews == <<review, screen, visit, lastId, visits, passed, blind, reader, moved>>
search == <<onSale, indexed, engine, hunt, steady, flips>>
pictures == <<stored, gallery, cover, request, calls, names, cardRev, given, backfill, faults, crossed>>
vars == <<part, listing, tree, variations, reviews, search, pictures>>

List == INSTANCE Listing
Tree == INSTANCE Categories
Vary == INSTANCE Variations
Review == INSTANCE Reviews
Find == INSTANCE Search
Picture == INSTANCE Pictures

ASSUME NoneAssumption ==
  /\ None \notin Nat
  /\ None \notin [id : Nat, rating : Ratings, text : Nat \X Authors,
                  status : {"pending", "approved", "rejected"}]
ASSUME ReviewsAssumption ==
  Authors \subseteq Nat /\ IsFiniteSet(Authors) /\ PublicPage \in Nat \ {0}
\* Prices are numbers, the lowest of a product's variants and the highest, where there are two.
ASSUME ListingAssumption ==
  /\ Products \subseteq Nat /\ IsFiniteSet(Products)
  /\ None \notin Cards /\ None \notin [sort : List!Sorts, id : Products, price : Nat \cup {None}]
  /\ \A c \in Cards :
       /\ c.price \in Nat /\ None \notin c.cats
       /\ c.top # None => c.top \in Nat /\ c.price =< c.top
  /\ PageSize \in Nat \ {0} /\ Limit \in Nat /\ Factor \in Nat /\ MaxCandidates \in Nat
\* A code counts for more than any text, and the search engine names a product once.
ASSUME SearchAssumption ==
  /\ Goods \subseteq Nat /\ IsFiniteSet(Goods) /\ None \notin {"elastic", "postgres"}
  /\ \A p \in Goods : TsRank[p] \in Nat /\ TsRank[p] < Find!CodeMatchRank
  /\ EsRanking \in Seq(Goods) /\ Find!IsInjective(EsRanking)
  /\ ResultPage \in Nat \ {0}
\* The trees to start with are trees, each path leading to its category.
CategoryRow == [parent : Ids \cup {None}, path : Seq(Ids), active : BOOLEAN]
ASSUME TreesAssumption ==
  /\ None \notin Ids \cup CategoryRow \cup Tree!Ops /\ IsFiniteSet(Ids) /\ MaxEdits \in Nat
  /\ \A forest \in Forests :
       /\ DOMAIN forest \subseteq Ids
       /\ \A c \in DOMAIN forest :
            /\ forest[c] \in Seq(DOMAIN forest) /\ forest[c] # <<>> /\ forest[c][Len(forest[c])] = c
            /\ \A i \in DOMAIN forest[c] : forest[forest[c][i]] = SubSeq(forest[c], 1, i)
ASSUME VariantsAssumption ==
  IsFiniteSet(DOMAIN AttributeOf) /\ (\A c \in SUBSET DOMAIN AttributeOf : c # None) /\ MaxChanges \in Nat
\* A copy has a width, and the pictures there are at first have names.
ASSUME PicturesAssumption ==
  Old \in Nat /\ MaxNames \in Nat /\ Old =< MaxNames /\ Widths \subseteq Nat \ {0}

C(pr, top, cs, h, sale, st) ==
  [price |-> pr, top |-> top, cats |-> cs, home |-> h, sale |-> sale, featured |-> sale, stock |-> st]
ShopCards ==
  {C(3, None, {"top", "leaf"}, "leaf", TRUE, TRUE), C(1, 2, {"top", "leaf"}, "leaf", FALSE, TRUE),
   C(1, None, {"top"}, "top", TRUE, FALSE)}

Q(c, lo, hi, sale, vs) ==
  [category |-> c, min |-> lo, max |-> hi, sale |-> sale, featured |-> sale, values |-> vs]
ShopQueries ==
  {Q(None, None, None, FALSE, {}), Q("leaf", None, None, FALSE, {"red"}),
   Q("top", None, 2, FALSE, {"red", "blue", "big"}), Q(None, 2, None, FALSE, {"lost"}),
   Q(None, None, None, TRUE, {})}

ShopAttributes == [v \in {"red", "blue", "big"} |-> IF v = "big" THEN "size" ELSE "color"]
ShopValues ==
  [p \in Products |-> CASE p = 1 -> {"red", "big"} [] p = 2 -> {"blue", "big"} [] OTHER -> {"red"}]

CONSTANTS c1, c2, c3, c4
ShopForests ==
  {c1 :> <<c1>> @@ c2 :> <<c1, c2>> @@ c3 :> <<c1, c2, c3>>,
   c1 :> <<c1>> @@ c2 :> <<c1, c2>> @@ c3 :> <<c3>> @@ c4 :> <<c3, c4>>}

TextRanks == <<3, 0, 3, 1, 2>>
EngineRanks == <<5, 1, 2, 4>>

File(image, width, height) == [image |-> image, width |-> width, height |-> height]
ShopFiles == {File(TRUE, 3, 3), File(TRUE, 5, 9), File(FALSE, 1, 1)}

ListingIdle == card = None /\ walk = None /\ touched = None /\ rebuilds = None
TreeIdle == cat = None /\ item = None /\ edit = None /\ clashed = None /\ edits = None
VariationsIdle ==
  /\ attrs = None /\ values = None /\ assigned = None /\ axes = None /\ combo = None
  /\ call = None /\ outgrown = None /\ raced = None /\ changes = None
ReviewsIdle ==
  /\ review = None /\ screen = None /\ visit = None /\ lastId = None /\ visits = None
  /\ passed = None /\ blind = None /\ reader = None /\ moved = None
SearchIdle ==
  /\ onSale = None /\ indexed = None /\ engine = None
  /\ hunt = None /\ steady = None /\ flips = None
PicturesIdle ==
  /\ stored = None /\ gallery = None /\ cover = None /\ request = None
  /\ calls = None /\ names = None /\ cardRev = None /\ given = None
  /\ backfill = None /\ faults = None /\ crossed = None

Parts ==
  {"listing", "tree", "variations", "reviews", "search", "pictures"}

Init ==
  /\ part \in Parts
  /\ IF part = "listing" THEN List!Init ELSE ListingIdle
  /\ IF part = "tree" THEN Tree!Init ELSE TreeIdle
  /\ IF part = "variations" THEN Vary!Init ELSE VariationsIdle
  /\ IF part = "reviews" THEN Review!Init ELSE ReviewsIdle
  /\ IF part = "search" THEN Find!Init ELSE SearchIdle
  /\ IF part = "pictures" THEN Picture!Init ELSE PicturesIdle

ListingStep ==
  /\ part = "listing"
  /\ \/ List!ListPage
     \/ \E sort \in List!Sorts : List!Resort(sort)
     \/ \E p \in Products, c \in Cards \cup {None} : List!Rebuild(p, c)
  /\ UNCHANGED <<part, tree, variations, reviews, search, pictures>>

TreeStep ==
  /\ part = "tree"
  /\ \/ \E e \in Staff, op \in Tree!Ops : Tree!Begin(e, op)
     \/ \E e \in Staff : Tree!ReadSubtree(e) \/ Tree!Commit(e)
     \/ \E c \in Ids : Tree!SaveProduct(c)
  /\ UNCHANGED <<part, listing, variations, reviews, search, pictures>>

VariationsStep ==
  /\ part = "variations"
  /\ \/ \E k \in Clerks, op \in Vary!Ops : Vary!Read(k, op)
     \/ \E k \in Clerks : Vary!Write(k)
     \/ \E v \in Vary!Values : Vary!CreateValue(v)
  /\ UNCHANGED <<part, listing, tree, reviews, search, pictures>>

ReviewsStep ==
  /\ part = "reviews"
  /\ \/ \E q \in Visits, a \in Authors, r \in Ratings : Review!Begin(q, "submit", a, r, None)
     \/ \E q \in Visits, a \in Authors, s \in {"approved", "rejected"} :
          Review!Begin(q, "moderate", a, None, s)
     \/ \E q \in Visits, a \in Authors : Review!Begin(q, "delete", a, None, None)
     \/ \E q \in Visits :
          Review!Submit(q) \/ Review!Moderate(q) \/ Review!Delete(q) \/ Review!Fail(q)
     \/ Review!LoadScreen
     \/ Review!ListPublic
  /\ UNCHANGED <<part, listing, tree, variations, search, pictures>>

SearchStep ==
  /\ part = "search"
  /\ \/ Find!Rank \/ Find!Show
     \/ \E p \in Goods : Find!Toggle(p) \/ Find!Sync(p)
     \/ \E state \in {"up", "down", "mute"} : Find!Outage(state)
  /\ UNCHANGED <<part, listing, tree, variations, reviews, pictures>>

PicturesStep ==
  /\ part = "pictures"
  /\ \/ \E h \in Hands, op \in {"media", "asset"}, f \in Files : Picture!BeginUpload(h, op, f)
     \/ \E h \in Hands, n \in Picture!Names : Picture!BeginDelete(h, n)
     \/ \E h \in {h \in Hands : Picture!In(h, "idle")} :
          \E order \in Picture!Arrangements(Picture!Rows(gallery)) : Picture!BeginReorder(h, order)
     \/ \E h \in Hands :
          \/ Picture!PutObjects(h) \/ Picture!GiveAsset(h) \/ Picture!Flush(h) \/ Picture!ClearCards(h)
          \/ Picture!Resume(h) \/ Picture!Commit(h) \/ Picture!RemoveObject(h) \/ Picture!Fail(h)
     \/ Picture!ListOriginals
     \/ \E n \in Picture!Names : Picture!ProcessOriginal(n)
     \/ Picture!EndBackfill
  /\ UNCHANGED <<part, listing, tree, variations, reviews, search>>

Next ==
  \/ ListingStep \/ TreeStep \/ VariationsStep
  \/ ReviewsStep \/ SearchStep \/ PicturesStep

Spec == Init /\ [][Next]_vars
-----------------------------------------------------------------------------
\* list_cards by cursor shows a card nobody touched once if it is wanted, else never.  The
\* rail of related_products is full whenever enough can be bought, and the facets of a
\* category count what its page lists: these speak of the cards alone, and the first
\* states hold every choice of them.
ListingTellsAll ==
  part = "listing" => /\ List!UntouchedShownOnce
                      /\ rebuilds = 0 => List!RailIsFull /\ List!FacetsPredict

\* Paths and parents agree, the menu reaches every category shown, and the number beside a
\* category is what its page lists, unless two requests worked on related categories at
\* once (move_category, count_products_by_category).
TreeIsSound == part = "tree" => Tree!TypeOK /\ Tree!TreeIsSound /\ Tree!CountMatchesPage

\* Values exist that variants and products name; no two variants are the same to a
\* customer, and the product's page leads to each by one choice, unless two requests
\* overlapped (create_variant, generate_variants, delete_attribute_value, get_product).
VariantsAreFound ==
  part = "variations" => Vary!TypeOK /\ Vary!VariantsAreTold /\ Vary!PageLeadsToVariants

\* generate_variants alone adds exactly the missing combinations.
GenerationCompletes == [][part = "variations" => Vary!GeneratesMissing]_vars

\* No text is public that no operator read, unless an edit crossed the judgement, and newest
\* first every approved review is shown once over its pages (submit, moderate, list_public).
ReviewsAreSound == part = "reviews" => Review!PublicWasRead /\ Review!NewestShowsAll

\* An undisturbed search shows each product found and sold once, on either backend (search).
ResultsAreComplete == part = "search" => Find!ResultsAreComplete

\* Every picture shown has its original and all its copies, the cards show the first one,
\* positions differ unless gallery requests overlapped, and originals nobody shows are what
\* faults left (add_product_media, delete_product_media, rebuild_card, main).
PicturesAreWhole ==
  part = "pictures" =>
    /\ Picture!ShownIsWhole /\ Picture!CoverIsFirst
    /\ Picture!PositionsDiffer /\ Picture!LeftoversAreFaults
=============================================================================
