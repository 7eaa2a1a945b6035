------------------------------ MODULE Pictures ------------------------------
(***************************************************************************)
(* Pictures: the gallery of one active product, uploads that belong to no   *)
(* product (banners), the object store, and the script that gives old       *)
(* pictures their smaller copies (services/admin_catalog_service.py,        *)
(* core/storage.py, core/images.py, scripts/generate_media_variants.py).    *)
(*                                                                         *)
(* An object is written once and its name is random: a name is a number,    *)
(* and so is the id of the media row that shows it.  Every gallery request  *)
(* ends by rebuilding the product's cards, which it deletes and inserts     *)
(* again: the rows stay locked until it commits, and one that had to wait   *)
(* for them fails on their key when the other committed.                    *)
(***************************************************************************)
EXTENDS Integers, Ordered

CONSTANTS
  Widths,      \* RESPONSIVE_WIDTHS
  MaxSide,     \* MAX_UPLOAD_DIMENSION
  Files,       \* what staff may send: [image, width, height], image FALSE if it cannot be decoded
  Old,         \* number of pictures there are at first; none has a smaller copy
  OldWidth,    \* their width
  Hands,       \* requests that may be under way at once
  MaxNames,    \* bound: pictures ever stored
  MaxCalls,    \* bound: requests begun
  None

VARIABLES
  stored,      \* objects: [name, width, pixels], width 0 for the original
  gallery,     \* gallery[n]: the position of the media row of n, None without one
  cover,       \* the picture on the product's cards
  request,     \* request[h]: [op, name, todo, rows, order, seen, stage, rev], or Idle
  calls, names, cardRev,
  given,       \* pictures uploaded for use outside the gallery
  backfill,    \* the script: [todo, failed, listed, stage]
  faults,      \* requests that broke off and objects that could not be removed
  crossed        \* two gallery requests overlapped

pictures == <<stored, gallery, cover, request, calls, names, cardRev, given, backfill, faults, crossed>>

Names == 1..MaxNames
Rows(g) == {n \in Names : g[n] # None}

\* get_main_image_url: lowest position, then lowest id.
MainOf(g) ==
  IF Rows(g) = {} THEN None
  ELSE CHOOSE n \in Rows(g) : \A x \in Rows(g) : g[n] < g[x] \/ (g[n] = g[x] /\ n <= x)

Idle ==
  [op |-> "none", name |-> None, todo |-> <<>>, order |-> None, seen |-> None, rows |-> {},
   stage |-> "idle", rev |-> None]
In(h, stage) == request[h].stage = stage

Original(n) == {o \in stored : o.name = n /\ o.width = 0}
Copies(n) == {o \in stored : o.name = n /\ o.width # 0}

Init ==
  /\ gallery = [n \in Names |-> IF n <= Old THEN n - 1 ELSE None]
  /\ stored = {[name |-> n, width |-> 0, pixels |-> OldWidth] : n \in 1..Old}
  /\ cover = MainOf(gallery)
  /\ request = [h \in Hands |-> Idle]
  /\ calls = 0 /\ names = Old /\ cardRev = 0
  /\ given = {}
  /\ backfill = [todo |-> {}, failed |-> FALSE, listed |-> {}, stage |-> "idle"]
  /\ faults = 0
  /\ crossed = FALSE
-----------------------------------------------------------------------------
\* validate_and_build_variants: decodable, and neither side too long.
Accepted(f) == f.image /\ f.width <= MaxSide /\ f.height <= MaxSide

\* generate_fixed_webp_set: a copy for every width, none enlarged.
FixedWebpSet(n, pixels) ==
  {[name |-> n, width |-> w, pixels |-> Min({w, pixels})] : w \in Widths}

Start(h, r) ==
  /\ In(h, "idle") /\ calls < MaxCalls
  /\ calls' = calls + 1
  /\ request' = [request EXCEPT ![h] = [op |-> r.op, name |-> r.name, todo |-> r.todo, order |-> r.order,
                                        seen |-> gallery, rows |-> {}, stage |-> r.stage, rev |-> None]]
  /\ UNCHANGED <<stored, gallery, cover, cardRev, given, backfill, faults, crossed>>

\* add_product_media and upload_asset: the file is checked and its copies made.
BeginUpload(h, op, f) ==
  /\ Accepted(f) /\ names < MaxNames
  /\ names' = names + 1
  /\ LET n == names + 1
     IN  Start(h, [op |-> op, name |-> n, order |-> None, stage |-> "store",
                   todo |-> <<{[name |-> n, width |-> 0, pixels |-> f.width]}, FixedWebpSet(n, f.width)>>])

\* delete_product_media: the row is loaded.
BeginDelete(h, n) ==
  /\ gallery[n] # None
  /\ Start(h, [op |-> "delete", name |-> n, todo |-> <<>>, order |-> None, stage |-> "row"])
  /\ UNCHANGED names

\* reorder_product_media: the ids must be those of the gallery.
BeginReorder(h, order) ==
  /\ IsInjective(order) /\ Range(order) = Rows(gallery)
  /\ Start(h, [op |-> "reorder", name |-> None, todo |-> <<>>, order |-> order, stage |-> "row"])
  /\ UNCHANGED names

\* save puts the original, then save_variants the copies.
PutObjects(h) ==
  /\ In(h, "store") /\ request[h].todo # <<>>
  /\ stored' = stored \cup Head(request[h].todo)
  /\ request' = [request EXCEPT ![h].todo = Tail(@)]
  /\ UNCHANGED <<gallery, cover, calls, names, cardRev, given, backfill, faults, crossed>>

\* upload_asset answers with the picture's address.
GiveAsset(h) ==
  /\ In(h, "store") /\ request[h].todo = <<>> /\ request[h].op = "asset"
  /\ given' = given \cup {request[h].name}
  /\ request' = [request EXCEPT ![h] = Idle]
  /\ UNCHANGED <<stored, gallery, cover, calls, names, cardRev, backfill, faults, crossed>>

\* _next_media_position
NextPosition == Max({-1} \cup {gallery[n] : n \in Rows(gallery)}) + 1

\* The rows a reorder writes: those it moves.
Moved(r) == {n \in Range(r.order) : \E i \in DOMAIN r.order : r.order[i] = n /\ r.seen[n] # i - 1}

\* The flush: the row is inserted, deleted or moved; other requests see it at the commit.
\* A row that is gone makes a reorder fail.
Flush(h) ==
  LET r == request[h]
      rows == IF r.op = "reorder" THEN Moved(r) ELSE {r.name}
  IN  /\ In(h, "row") \/ (In(h, "store") /\ r.todo = <<>> /\ r.op = "media")
      /\ \A x \in Hands \ {h} : request[x].rows \cap rows = {}
      /\ r.op = "reorder" => rows \subseteq Rows(gallery)
      /\ request' = [request EXCEPT ![h].rows = rows, ![h].stage = "cards",
                                    ![h].order = IF r.op = "media" THEN NextPosition ELSE @]
      /\ UNCHANGED <<stored, gallery, cover, calls, names, cardRev, given, backfill, faults, crossed>>

\* The delete of the cards starts: it takes their lock or waits.
ClearCards(h) ==
  /\ In(h, "cards")
  /\ request' = [request EXCEPT ![h].rev = cardRev,
       ![h].stage = IF \E x \in Hands : In(x, "rebuild") THEN "wait" ELSE "rebuild"]
  /\ UNCHANGED <<stored, gallery, cover, calls, names, cardRev, given, backfill, faults, crossed>>

Resume(h) ==
  /\ In(h, "wait") /\ ~\E x \in Hands : In(x, "rebuild")
  /\ request' = [request EXCEPT ![h].stage = "rebuild"]
  /\ UNCHANGED <<stored, gallery, cover, calls, names, cardRev, given, backfill, faults, crossed>>

\* The gallery as the request leaves it.
GalleryAfter(r) ==
  [n \in Names |->
     IF n \notin r.rows THEN gallery[n]
     ELSE CASE r.op = "media" -> r.order
            [] r.op = "delete" -> None
            [] OTHER -> (CHOOSE i \in DOMAIN r.order : r.order[i] = n) - 1]

\* Mutant: the gallery as it was loaded, and the request's own rows.
CardGallerySeen(r) == [n \in Names |-> IF n \in r.rows THEN GalleryAfter(r)[n] ELSE r.seen[n]]

\* rebuild_card reads the pictures once the cards are locked: what is committed, and the
\* request's own rows.
CardGallery(r) == GalleryAfter(r)

\* The cards are committed with the rows, unless somebody rewrote them while it waited.
Commit(h) ==
  LET r == request[h]
  IN  /\ In(h, "rebuild") /\ r.rev = cardRev
      /\ gallery' = GalleryAfter(r)
      /\ cover' = MainOf(CardGallery(r))
      /\ cardRev' = cardRev + 1
      /\ crossed' = (crossed \/ \E x \in Hands \ {h} : request[x].stage \notin {"idle", "remove"})
      /\ request' = [request EXCEPT ![h] = IF r.op = "delete" THEN [r EXCEPT !.stage = "remove", !.rows = {}] ELSE Idle]
      /\ UNCHANGED <<stored, calls, names, given, backfill, faults>>

\* Storage.delete: the original; its smaller copies stay.
Removed(n) == stored \ Original(n)

\* After the commit the object is removed, at best effort.
RemoveObject(h) ==
  /\ In(h, "remove")
  /\ stored' = Removed(request[h].name)
  /\ request' = [request EXCEPT ![h] = Idle]
  /\ UNCHANGED <<gallery, cover, calls, names, cardRev, given, backfill, faults, crossed>>

\* The store, the database or the process fails, perhaps with some objects put: nothing
\* more of the request happens.
Fail(h) ==
  /\ ~In(h, "idle")
  /\ \E w \in {-1} \cup Widths :
       stored' = stored \cup (IF request[h].todo = <<>> THEN {} ELSE {o \in Head(request[h].todo) : o.width <= w})
  /\ request' = [request EXCEPT ![h] = Idle]
  /\ faults' = faults + 1
  /\ UNCHANGED <<gallery, cover, calls, names, cardRev, given, backfill, crossed>>
-----------------------------------------------------------------------------
\* _list_originals
ListOriginals ==
  /\ backfill.stage = "idle"
  /\ LET found == {o.name : o \in {o \in stored : o.width = 0}}
     IN  backfill' = [todo |-> found, listed |-> found, failed |-> FALSE, stage |-> "run"]
  /\ UNCHANGED <<stored, gallery, cover, request, calls, names, cardRev, given, faults, crossed>>

\* _all_variants_exist
AllVariantsExist(n) == \A w \in Widths : \E o \in Copies(n) : o.width = w

\* _process_original: complete pictures are passed over, a vanished original is a failure,
\* and a failure part of the way leaves some copies; the script goes on in each case.
ProcessOriginal(n) ==
  /\ backfill.stage = "run" /\ n \in backfill.todo
  /\ \/ AllVariantsExist(n) /\ UNCHANGED stored /\ backfill' = [backfill EXCEPT !.todo = @ \ {n}]
     \/ /\ ~AllVariantsExist(n)
        /\ \E o \in Original(n) : stored' = stored \cup FixedWebpSet(n, o.pixels)
        /\ backfill' = [backfill EXCEPT !.todo = @ \ {n}]
     \/ /\ ~AllVariantsExist(n)
        /\ \E w \in {0} \cup (Widths \ {Max(Widths)}) : stored' = stored \cup
             {c \in UNION {FixedWebpSet(n, o.pixels) : o \in Original(n)} : c.width <= w}
        /\ backfill' = [backfill EXCEPT !.todo = @ \ {n}, !.failed = TRUE]
  /\ UNCHANGED <<gallery, cover, request, calls, names, cardRev, given, faults, crossed>>

\* main is done, and may be run again.
EndBackfill ==
  /\ backfill.stage = "run" /\ backfill.todo = {}
  /\ backfill' = [backfill EXCEPT !.stage = IF backfill.failed THEN "idle" ELSE "done"]
  /\ UNCHANGED <<stored, gallery, cover, request, calls, names, cardRev, given, faults, crossed>>
-----------------------------------------------------------------------------
Whole(n) ==
  \E o \in Original(n) : \A w \in Widths : \E c \in Copies(n) : c.width = w /\ c.pixels = Min({w, o.pixels})

\* Every picture that is shown, in the gallery or as an asset, has its original and a copy of
\* every width, none enlarged, whatever broke off in between; old pictures have theirs once
\* the script ran through (add_product_media, upload_asset, delete_product_media, main).
ShownIsWhole ==
  /\ \A n \in Rows(gallery) \cup given : Original(n) # {}
  /\ \A n \in (Rows(gallery) \cup given) \ 1..Old : Whole(n)
  /\ backfill.stage = "done" => \A n \in backfill.listed \cap Rows(gallery) : Whole(n)

\* The cards show the first picture of the gallery, however uploads, deletions and reorders
\* interleave (rebuild_cards).
CoverIsFirst ==
  /\ Rows(gallery) = {} => cover = None
  /\ Rows(gallery) # {} =>
       /\ cover \in Rows(gallery)
       /\ \A n \in Rows(gallery) : gallery[n] >= gallery[cover] /\ (gallery[n] = gallery[cover] => n >= cover)

\* No two pictures share a position, unless gallery requests overlapped
\* (_next_media_position, reorder_product_media).
PositionsDiffer ==
  crossed \/ \A m, n \in Rows(gallery) : gallery[m] = gallery[n] => m = n

\* An original nobody shows, and no request under way will show or remove, is what a fault
\* left behind (add_product_media, delete_product_media).
LeftoversAreFaults ==
  LET busy == {request[h].name : h \in Hands}
  IN  Cardinality({o \in stored : o.width = 0 /\ o.name \notin Rows(gallery) \cup given \cup busy}) <= faults
=============================================================================
