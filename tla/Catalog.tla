------------------------------ MODULE Catalog ------------------------------
(***************************************************************************)
(* The back office of one product (products share no row): its row, its     *)
(* texts in both languages, its variants, the listing cards rebuilt by      *)
(* every save, and the search index that tasks bring after it.  A save      *)
(* reads the product once and keeps what it read (the session's identity    *)
(* map), flushes its own change, deletes the cards and writes them anew;    *)
(* only rows that are written are locked, and nothing is read for update.   *)
(***************************************************************************)
EXTENDS Naturals, FiniteSets, FiniteSetsExt

CONSTANTS
  Langs,      \* ALLOWED_LANGS
  Variants,
  PriceOf,    \* the price of each variant
  Prices,     \* the prices staff may give the product
  Editors,    \* back-office requests
  Workers,    \* Celery workers
  MaxEdits,   \* bound on the saves committed
  MaxTries,   \* runs of one search task: the first and its retries
  None

ASSUME PricesAssumption == PriceOf \in [Variants -> Nat] /\ Prices \subseteq Nat /\ Prices # {}
ASSUME BoundsAssumption == MaxEdits \in Nat \ {0} /\ MaxTries \in Nat \ {0}
ASSUME NoneAssumption ==
  Langs # {} /\ None \notin Nat /\ None \notin [price : Nat, top : Nat \cup {None}]
ASSUME FiniteAssumption == IsFiniteSet(Editors) /\ IsFiniteSet(Variants)

VARIABLES
  product,    \* [there, active, variable, price]: the row, has_variants as variable
  texts,      \* the languages with a translation
  variant,    \* "none", "on" or "off" for each variant
  cards,      \* the product_card rows, [price, top] by language, None where there is none
  save,       \* an editor's request: [pc, op, seen, held, cleared, built, since, met]
  edits,      \* saves committed
  elastic,    \* settings.search_backend is elastic
  index,      \* the search index's document: the number of the save it shows; None: none
  tasks,      \* search tasks waiting: [kind, run]
  work        \* a worker's task: [pc, task, doc]

vars == <<product, texts, variant, cards, save, edits, elastic, index, tasks, work>>

NoCards == [l \in Langs |-> None]
NoOp == [kind |-> "none", arg |-> None]
NoSave == [pc |-> "idle", op |-> NoOp, seen |-> None, held |-> {}, cleared |-> FALSE,
           built |-> NoCards, since |-> 0, met |-> {}]
NoWork == [pc |-> "idle", task |-> [kind |-> "none", run |-> 0], doc |-> None]

\* What staff can save.  "bind" gives a picture to a variant; "gallery" stands for upload,
\* deletion and reordering of pictures: rows the card does not show here.  "enable" and
\* "disable" send a variant the flag it does not have.
Ops ==
  {[kind |-> k, arg |-> None] : k \in {"bind", "gallery"}} \cup
  {[kind |-> "price", arg |-> n] : n \in Prices} \cup
  {[kind |-> "text", arg |-> l] : l \in Langs} \cup
  {[kind |-> k, arg |-> v] : k \in {"create", "enable", "disable", "drop"}, v \in Variants} \cup
  {[kind |-> k, arg |-> b] : k \in {"active", "select"}, b \in BOOLEAN}

-----------------------------------------------------------------------------
\* What one save changes

\* update_product and set_variation_attributes on the product's row.
ProductAfter(op, p) ==
  CASE op.kind = "active" -> [p EXCEPT !.active = op.arg]
    [] op.kind = "price" -> [p EXCEPT !.price = op.arg]
    [] op.kind = "select" -> [p EXCEPT !.variable = op.arg]
    [] OTHER -> p

\* set_product_translation
TextsAfter(op, t) == IF op.kind = "text" THEN t \cup {op.arg} ELSE t

\* create_variant, update_variant's activation and delete_variant.
VariantsAfter(op, v) ==
  CASE op.kind \in {"create", "enable"} -> [v EXCEPT ![op.arg] = "on"]
    [] op.kind = "disable" -> [v EXCEPT ![op.arg] = "off"]
    [] op.kind = "drop" -> [v EXCEPT ![op.arg] = "none"]
    [] OTHER -> v

On(v) == {x \in Variants : v[x] = "on"}

\* Mutant: the rule asks for a text in some language.
PublishableInSome(p, t, v) == t # {} /\ (p.variable => On(v) # {})

\* assert_publishable: a text in every language, and a variant to buy.
Publishable(p, t, v) == t = Langs /\ (p.variable => On(v) # {})

\* rebuild_card: a variable product shows its variants' prices ("top" None when uniform).
CardOf(p, v) ==
  LET low == IF p.variable /\ On(v) # {} THEN Min({PriceOf[x] : x \in On(v)}) ELSE p.price
      high == IF p.variable /\ On(v) # {} THEN Max({PriceOf[x] : x \in On(v)}) ELSE low
  IN  [price |-> low, top |-> IF high = low THEN None ELSE high]

CardsOf(p, t, v) ==
  [l \in Langs |-> IF p.there /\ p.active /\ l \in t THEN CardOf(p, v) ELSE None]

\* The product, its texts and its variants as a save sees them: its own change over what
\* is committed, and the product's columns as they were when it read them.
View(e) ==
  [p |-> ProductAfter(save[e].op, save[e].seen),
   t |-> TextsAfter(save[e].op, texts),
   v |-> VariantsAfter(save[e].op, variant)]

Init ==
  /\ product \in [there : {TRUE}, active : BOOLEAN, variable : BOOLEAN, price : Prices]
  /\ texts \in SUBSET Langs
  /\ variant \in [Variants -> {"none", "on"}]
  /\ (\E v \in Variants : variant[v] # "none") => product.variable
  /\ product.active => texts = Langs /\ (product.variable => On(variant) # {})
  /\ product.variable /\ product.active => product.price = CardOf(product, variant).price
  /\ cards = CardsOf(product, texts, variant)
  /\ save = [e \in Editors |-> NoSave]
  /\ edits \in 0 .. 1       \* saved before or not
  /\ elastic \in BOOLEAN
  /\ index = edits
  /\ tasks = {}
  /\ work = [w \in Workers |-> NoWork]

-----------------------------------------------------------------------------
\* A save

\* What the routes check on the way in; a variant's id is new.
Applies(op) ==
  CASE op.kind = "create" -> /\ product.variable /\ variant[op.arg] = "none"
                             /\ \A f \in Editors : save[f].op # op
    [] op.kind = "enable" -> variant[op.arg] = "off"
    [] op.kind = "disable" -> variant[op.arg] = "on"
    [] op.kind = "drop" -> variant[op.arg] # "none"
    [] op.kind = "select" -> op.arg \/ \A v \in Variants : variant[v] = "none"
    [] OTHER -> TRUE

\* _get_product: the row is read once.
Load(e, op) ==
  /\ save[e].pc = "idle"
  /\ product.there
  /\ edits + Cardinality({f \in Editors : save[f].pc # "idle"}) < MaxEdits
  /\ Applies(op)
  /\ save' = [save EXCEPT ![e] = [NoSave EXCEPT !.pc = "loaded", !.op = op, !.seen = product]]
  /\ UNCHANGED <<product, texts, variant, cards, edits, elastic, index, tasks, work>>

HeldByOthers(e, row) == \E f \in Editors \ {e} : row \in save[f].held

\* The rows the flush writes: of the product only what differs from what was read.
Rows(e) ==
  LET op == save[e].op
  IN  IF op.kind \in {"text", "create", "enable", "disable", "drop"} THEN {op.arg}
      ELSE IF ProductAfter(op, save[e].seen) # save[e].seen THEN {"product"} ELSE {}

\* The row is gone: a foreign key or the row count says so.
Gone(e) ==
  \/ ~product.there
  \/ save[e].op.kind \in {"enable", "disable", "drop"} /\ variant[save[e].op.arg] = "none"

GivesUp(e) ==
  /\ save' = [save EXCEPT ![e] = NoSave]
  /\ UNCHANGED <<product, texts, variant, cards, edits, elastic, index, tasks, work>>

\* These routes enforce the publication rule before they rebuild.
Guarded(op) == op.kind \in {"active", "price", "text", "enable", "disable", "drop"}

\* The gallery's routes leave the cards of a product that is not active alone.
Rebuilds(e) == save[e].op.kind = "gallery" => save[e].seen.active

\* The flush, and the rule for a product that is active to this save's knowledge.
Write(e) ==
  /\ save[e].pc = "loaded"
  /\ \A row \in Rows(e) : ~HeldByOthers(e, row)
  /\ IF Gone(e) \/ (Guarded(save[e].op) /\ View(e).p.active
                      /\ ~Publishable(View(e).p, View(e).t, View(e).v))
     THEN GivesUp(e)
     ELSE /\ save' = [save EXCEPT ![e].pc = IF Rebuilds(e) THEN "written" ELSE "built", ![e].held = Rows(e)]
          /\ UNCHANGED <<product, texts, variant, cards, edits, elastic, index, tasks, work>>

\* The cards are deleted, and their rows held.
Emptied(s) == [s EXCEPT !.pc = "cleared", !.cleared = TRUE, !.held = @ \cup {"cards"}]

\* delete_product_cards: rows another save has deleted or inserted are waited for.
Clear(e) ==
  /\ save[e].pc = "written"
  /\ save' = [save EXCEPT ![e] =
       IF cards = NoCards THEN [@ EXCEPT !.pc = "cleared"]
       ELSE IF HeldByOthers(e, "cards") THEN [@ EXCEPT !.pc = "waiting", !.since = edits]
       ELSE Emptied(@)]
  /\ UNCHANGED <<product, texts, variant, cards, edits, elastic, index, tasks, work>>

\* The other save ended: if it committed, the statement finds its rows gone and does not
\* see the new ones.
Resume(e) ==
  /\ save[e].pc = "waiting"
  /\ ~HeldByOthers(e, "cards")
  /\ save' = [save EXCEPT ![e] =
       IF edits # @.since THEN [@ EXCEPT !.pc = "cleared"] ELSE Emptied(@)]
  /\ UNCHANGED <<product, texts, variant, cards, edits, elastic, index, tasks, work>>

\* rebuild_card keeps a variable product's own price on its variants' lowest.
Synced(e) ==
  LET view == View(e)
  IN  IF view.p.active /\ view.p.variable THEN [view.p EXCEPT !.price = CardOf(view.p, view.v).price]
      ELSE view.p

\* Mutant: the rule is not asked again once the cards are deleted.
RefusedNever(e) == ~save[e].cleared /\ cards # NoCards

\* rebuild_card asks the rule again; rows it did not get to delete break the primary key.
Refused(e) ==
  LET view == View(e)
  IN  \/ ~Publishable(view.p, view.t, view.v)
      \/ ~save[e].cleared /\ cards # NoCards

Needs(e) == {"cards"} \cup (IF Synced(e).price # View(e).p.price THEN {"product"} ELSE {})

\* rebuild_card: an active product gets a card in each language, another none.
Build(e) ==
  LET view == View(e)
  IN  /\ save[e].pc = "cleared"
      /\ view.p.active => \A row \in Needs(e) : ~HeldByOthers(e, row)
      /\ IF view.p.active /\ Refused(e) THEN GivesUp(e)
         ELSE /\ save' = [save EXCEPT ![e].pc = "built", ![e].built = CardsOf(view.p, view.t, view.v),
                            ![e].held = IF view.p.active THEN @ \cup Needs(e) ELSE @]
              /\ UNCHANGED <<product, texts, variant, cards, edits, elastic, index, tasks, work>>

\* What is stored after the flush: the columns this save changed.
Merged(e) ==
  LET new == [Synced(e) EXCEPT !.price = IF "product" \in save[e].held THEN Synced(e).price ELSE product.price]
  IN  [c \in DOMAIN product |-> IF new[c] # save[e].seen[c] THEN new[c] ELSE product[c]]

\* _enqueue_es_reindex, _enqueue_es_delete: a broker that is down is not noticed, and
\* without Elasticsearch the tasks do nothing.
Enqueue(kind) ==
  tasks' \in {tasks} \cup (IF elastic THEN {tasks \cup {[kind |-> kind, run |-> 1]}} ELSE {})

\* A save that knew the product to be on sale with variants.
Knowing(e) == save[e].seen.active /\ save[e].seen.variable

\* Whoever is still at work has met this save, and remembers what it knew.
Disturbed(e, kind) ==
  [f \in Editors |-> IF f = e THEN NoSave ELSE [save[f] EXCEPT !.met = @ \cup {kind}]]

\* The commit of update_product, set_product_translation, the variants' and the pictures'
\* routes.
Commit(e) ==
  /\ save[e].pc = "built"
  /\ product' = Merged(e)
  /\ texts' = View(e).t
  /\ variant' = View(e).v
  /\ cards' = IF View(e).p.active THEN save[e].built ELSE IF save[e].cleared THEN NoCards ELSE cards
  /\ edits' = edits + 1
  /\ save' = Disturbed(e, IF Knowing(e) THEN "knowing" ELSE "unknowing")
  /\ IF save[e].op.kind = "gallery" THEN UNCHANGED tasks ELSE Enqueue("index")
  /\ UNCHANGED <<elastic, index, work>>

\* delete_product: texts, variants, cards and the row; it waits for who wrote any of them.
Delete(e) ==
  /\ save[e].pc = "idle"
  /\ product.there
  /\ edits + Cardinality({f \in Editors : save[f].pc # "idle"}) < MaxEdits
  /\ \A f \in Editors : save[f].pc \in {"idle", "loaded"}
  /\ product' = [product EXCEPT !.there = FALSE, !.active = FALSE]
  /\ texts' = {}
  /\ variant' = [v \in Variants |-> "none"]
  /\ cards' = NoCards
  /\ edits' = edits + 1
  /\ save' = Disturbed(e, "delete")
  /\ Enqueue("delete")
  /\ UNCHANGED <<elastic, index, work>>

\* What the save's next step waits for.
Awaits(e) ==
  CASE save[e].pc = "loaded" -> Rows(e)
    [] save[e].pc = "waiting" -> {"cards"}
    [] save[e].pc = "cleared" /\ View(e).p.active -> Needs(e)
    [] OTHER -> {}

BlockedBy(e, f) == e # f /\ Awaits(e) \cap save[f].held # {}

\* PostgreSQL ends one of two transactions that wait for each other.
Abort(e) ==
  /\ \E f \in Editors : BlockedBy(e, f) /\ BlockedBy(f, e)
  /\ GivesUp(e)

-----------------------------------------------------------------------------
\* The search index

Document == IF product.there THEN edits ELSE None

\* index_products reads what it is going to write; a product that is gone yields nothing.
FetchDocs(w, t) ==
  /\ work[w].pc = "idle"
  /\ t \in tasks
  /\ t.kind = "index"
  /\ tasks' = tasks \ {t}
  /\ work' = [work EXCEPT ![w] = IF product.there
                                 THEN [pc |-> "write", task |-> t, doc |-> Document] ELSE NoWork]
  /\ UNCHANGED <<product, texts, variant, cards, save, edits, elastic, index>>

\* delete_products
DeleteDoc(w, t) ==
  /\ work[w].pc = "idle"
  /\ t \in tasks
  /\ t.kind = "delete"
  /\ tasks' = tasks \ {t}
  /\ index' = None
  /\ UNCHANGED <<product, texts, variant, cards, save, edits, elastic, work>>

\* Mutant: the nightly task keeps the index and writes over it.
RecreatedKept == index

\* recreate_index drops every document.
Recreated == None

\* reindex_all begins: from here on the shop's search finds nothing ...
Recreate(w) ==
  /\ elastic
  /\ work[w].pc = "idle"
  /\ index' = Recreated
  /\ work' = [work EXCEPT ![w] = [NoWork EXCEPT !.pc = "refill", !.task.kind = "nightly"]]
  /\ UNCHANGED <<product, texts, variant, cards, save, edits, elastic, tasks>>

\* ... it reads the products there are ...
Refill(w) ==
  /\ work[w].pc = "refill"
  /\ work' = [work EXCEPT ![w].pc = "write", ![w].doc = Document]
  /\ UNCHANGED <<product, texts, variant, cards, save, edits, elastic, index, tasks>>

\* ... and writes them, as index_products does, whoever wrote since they were read.
WriteDocs(w) ==
  /\ work[w].pc = "write"
  /\ index' = IF work[w].doc = None THEN index ELSE work[w].doc
  /\ work' = [work EXCEPT ![w] = NoWork]
  /\ UNCHANGED <<product, texts, variant, cards, save, edits, elastic, tasks>>

\* max_retries
Retried(run) == run < MaxTries

\* Elasticsearch fails a task: the write hooks' tasks are retried, the nightly one is not.
FailTask(w) ==
  LET t == work[w].task
  IN  /\ work[w].pc \in {"refill", "write"}
      /\ tasks' = IF t.kind = "index" /\ Retried(t.run)
                  THEN tasks \cup {[t EXCEPT !.run = @ + 1]} ELSE tasks
      /\ work' = [work EXCEPT ![w] = NoWork]
      /\ UNCHANGED <<product, texts, variant, cards, save, edits, elastic, index>>

Saving(e) == Write(e) \/ Clear(e) \/ Resume(e) \/ Build(e) \/ Commit(e) \/ Abort(e)
Indexing(w) == (\E t \in tasks : FetchDocs(w, t) \/ DeleteDoc(w, t)) \/ Refill(w) \/ WriteDocs(w)

Next ==
  \/ \E e \in Editors, op \in Ops : Load(e, op)
  \/ \E e \in Editors : Saving(e) \/ Delete(e)
  \/ \E w \in Workers : Indexing(w) \/ Recreate(w) \/ FailTask(w)

Spec == Init /\ [][Next]_vars

\* A task that began ends, every night comes, and some night Elasticsearch takes the whole
\* rebuild.  Nobody has to save.
Fairness ==
  /\ \A w \in Workers : WF_vars(Indexing(w))
  /\ SF_vars(\E w \in Workers : Recreate(w))
  /\ SF_vars(\E w \in Workers : work[w].task.kind = "nightly" /\ WriteDocs(w))
  /\ SF_vars(\E w \in Workers : Refill(w))

FairSpec == Spec /\ Fairness

-----------------------------------------------------------------------------
\* Properties

\* Every variable has its type.
TypeOK ==
  LET Card == [price : Nat, top : Nat \cup {None}] \cup {None}
  IN  /\ product \in [there : BOOLEAN, active : BOOLEAN, variable : BOOLEAN, price : Nat]
      /\ texts \subseteq Langs
      /\ variant \in [Variants -> {"none", "on", "off"}]
      /\ \A l \in Langs : cards[l] \in Card
      /\ edits \in 0 .. MaxEdits
      /\ index \in 0 .. MaxEdits \cup {None}
      /\ \A t \in tasks : t.kind \in {"index", "delete"} /\ t.run \in 1 .. MaxTries

\* The publication rule: an active product has a text in every language, whichever saves
\* overlap; and it is listed in both languages or in none.
PublishedInBothLanguages ==
  /\ product.active => texts = Langs
  /\ \A l, m \in Langs : (cards[l] = None) = (cards[m] = None)

\* No save that knew the product to be active and variable takes the last variant that can
\* be bought from it, not even when two such saves each leave the other's variant: they
\* meet at the cards.  Saves that read the product before it went on sale can.
LastVariantStays ==
  /\ product.active /\ product.variable /\ On(variant) # {}
  /\ product'.active /\ product'.variable /\ On(variant') = {}
  => \E e \in Editors : /\ save[e].pc = "built" /\ save'[e].pc = "idle"
                        /\ ~Knowing(e) \/ "unknowing" \in save[e].met

\* The read model heals: a save during which no other one committed leaves the cards the
\* product calls for, and the rule kept, however wrong overlapping saves had left them.
LoneSaveHeals ==
  \A e \in Editors :
    save[e].pc = "built" /\ save'[e].pc = "idle" /\ save[e].met = {} /\ Rebuilds(e) =>
      /\ cards' = CardsOf(product', texts', variant')
      /\ product'.active => Publishable(product', texts', variant')

\* What a save may never do to the product and its cards (delete_variant, rebuild_cards).
SavesAreSafe == [][LastVariantStays /\ LoneSaveHeals]_vars

\* The index comes back to what the database says and in the end shows nothing older,
\* whatever tasks were lost, failed or overtook each other; it is empty while it is rebuilt.
IndexReturns == elastic => []<>(index = Document) /\ <>[](index \in {Document, None})

\* Rows have their shape and the publication rule holds (assert_publishable, rebuild_card).
PublicationIsSound == TypeOK /\ PublishedInBothLanguages
=============================================================================
