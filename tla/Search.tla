------------------------------- MODULE Search -------------------------------
(***************************************************************************)
(* Search: a shopper turns the pages of the results for one query while     *)
(* products are withdrawn and published again, the search index follows     *)
(* late, and Elasticsearch comes and goes (services/search_service.py).     *)
(*                                                                         *)
(* A search is two statements, a ranking and the load of the cards of one   *)
(* page of it, and other requests commit in between.  Relevance is data:    *)
(* which products the query matches, and in which order Elasticsearch       *)
(* ranks them, are constants.  Suggestions are left out but for their       *)
(* failure, which costs a second attempt.                                   *)
(***************************************************************************)
EXTENDS Ordered

CONSTANTS
  Goods,       \* product ids, numbers
  TsRank,      \* TsRank[p]: ts_rank of the product's text, 0 where it does not match
  CodeHits,    \* products whose code is the query
  EsRanking,   \* the products Elasticsearch would find, best first
  ResultPage,  \* page size
  MaxFlips,    \* bound: changes of the catalogue, the index and the engine
  None

VARIABLES
  onSale,      \* products that are active, and so are their cards
  indexed,     \* products the index holds as active
  engine,      \* "up", "down" or "mute": it answers, but not a request with suggestions
  hunt,        \* the shopper's: [page, hits, total, backend, shown, open]
  steady,      \* nothing changed since the hunt began
  flips

Init ==
  /\ onSale \in SUBSET Goods
  /\ indexed \in {onSale, Goods}
  /\ engine \in {"up", "down", "mute"}
  /\ hunt = [page |-> 1, hits |-> None, total |-> 0, backend |-> None, shown |-> <<>>, open |-> TRUE]
  /\ steady = TRUE
  /\ flips = 0
-----------------------------------------------------------------------------
\* CODE_MATCH_RANK
CodeMatchRank == 1000000

\* Mutant: the code counts only where the text does not match.
RankOfText(p) == IF TsRank[p] > 0 THEN TsRank[p] ELSE IF p \in CodeHits THEN CodeMatchRank ELSE 0

\* The merged signals, the highest rank of each product.
RankOf(p) == Max({TsRank[p], IF p \in CodeHits THEN CodeMatchRank ELSE 0})

\* search_product_ids: active products, best first, then by id.
SearchProductIds ==
  LET found == {p \in onSale : RankOf(p) > 0}
      Better(a, b) == RankOf(a) > RankOf(b) \/ (RankOf(a) = RankOf(b) /\ a < b)
  IN  InOrder(found, {pair \in found \X found : Better(pair[1], pair[2])})

\* One page of a ranking.
PageOf(ranked, page) ==
  SubSeq(ranked, (page - 1) * ResultPage + 1, Min({page * ResultPage, Len(ranked)}))

\* EsSearchBackend.search: without suggestions at the second attempt; None is an exception.
EsSearch(page) ==
  LET found == Kept(EsRanking, indexed)
      attempts == <<engine = "up", engine # "down">>
  IN  IF \E i \in 1..2 : attempts[i]
      THEN [hits |-> PageOf(found, page), total |-> Len(found), backend |-> "elastic"]
      ELSE None

\* _search_postgres, its ranking.
PostgresSearch(page) ==
  [hits |-> PageOf(SearchProductIds, page), total |-> Len(SearchProductIds), backend |-> "postgres"]

\* search: the engine's answer, or the database's when it fails.
Rank ==
  /\ hunt.open /\ hunt.hits = None
  /\ LET es == EsSearch(hunt.page)
         answer == IF es # None THEN es ELSE PostgresSearch(hunt.page)
     IN  /\ hunt' = [hunt EXCEPT !.hits = answer.hits, !.total = answer.total, !.backend = answer.backend]
         /\ steady' = (steady /\ hunt.backend \in {None, answer.backend})
  /\ UNCHANGED <<onSale, indexed, engine, flips>>

\* load_cards: the active ones.
LoadCards(ids) == Kept(ids, onSale)

\* The response; the shopper asks for the next page while the total promises one.
Show ==
  /\ hunt.open /\ hunt.hits # None
  /\ hunt' = [hunt EXCEPT !.shown = @ \o LoadCards(hunt.hits), !.hits = None, !.page = @ + 1,
                          !.open = hunt.page * ResultPage < hunt.total]
  /\ UNCHANGED <<onSale, indexed, engine, steady, flips>>
-----------------------------------------------------------------------------
Flip == flips < MaxFlips /\ flips' = flips + 1 /\ steady' = FALSE /\ UNCHANGED hunt

\* A save publishes or withdraws a product together with its card.
Toggle(p) ==
  /\ Flip
  /\ onSale' = IF p \in onSale THEN onSale \ {p} ELSE onSale \cup {p}
  /\ UNCHANGED <<indexed, engine>>

\* The index follows, if the task is not lost.
Sync(p) ==
  /\ Flip
  /\ (p \in onSale) # (p \in indexed)
  /\ indexed' = IF p \in onSale THEN indexed \cup {p} ELSE indexed \ {p}
  /\ UNCHANGED <<onSale, engine>>

\* Elasticsearch fails or comes back.
Outage(state) == Flip /\ engine' = state /\ UNCHANGED <<onSale, indexed>>
-----------------------------------------------------------------------------
Occurrences(s, p) == Cardinality({i \in DOMAIN s : s[i] = p})

\* Over the pages of a search nothing disturbed, each product that matches and is sold is
\* shown exactly once, a code match first, and no other; only products the index wrongly
\* still holds make the total greater than what is shown (search, either backend).
ResultsAreComplete ==
  ~hunt.open /\ steady =>
    LET found == IF hunt.backend = "postgres"
                 THEN {p \in onSale : TsRank[p] > 0 \/ p \in CodeHits}
                 ELSE Range(EsRanking) \cap indexed \cap onSale
        ghosts == IF hunt.backend = "postgres" THEN {} ELSE Range(EsRanking) \cap (indexed \ onSale)
    IN  /\ \A p \in Goods : Occurrences(hunt.shown, p) = IF p \in found THEN 1 ELSE 0
        /\ hunt.total = Cardinality(found) + Cardinality(ghosts)
        /\ hunt.backend = "postgres" /\ found \cap CodeHits # {} => hunt.shown[1] \in CodeHits
=============================================================================
