------------------------------ MODULE Content ------------------------------
(***************************************************************************)
(* Banners of the home page and content pages of the footer: what staff     *)
(* save (services/banner_service.py, services/content_page_service.py) and  *)
(* what visitors see (routers/site.py).                                     *)
(*                                                                         *)
(* A document is a row and one translation row per language.  The session   *)
(* does not flush by itself (core/db.py), and writes only the columns whose *)
(* value differs from the one it loaded.  A banner's translations are       *)
(* deleted by one statement and inserted again; a page's are updated in     *)
(* place.  A statement waits for the row locks of others and, once it goes  *)
(* on, does not see rows that appeared after it started.  The order of      *)
(* pages in the footer, links and wording are left out.                     *)
(***************************************************************************)
EXTENDS Naturals, Sequences, FiniteSets

CONSTANTS
  None,        \* no value: SQL NULL, an absent row, an idle editor
  Deleted,     \* the row of a document that was deleted: its id is never used again
  Banners,     \* ids of banners, numbers
  Pages,       \* ids of content pages, numbers
  Langs,       \* ALLOWED_LANGS
  BannerPayloads, PagePayloads, \* what an editor may send: [row, langs]
  Sites,       \* what the tables may hold at first: None or a valid row for each document
  Times,       \* moments of a visit
  Editors,     \* requests of staff that may be under way at once
  MaxSaves     \* bound: requests begun

VARIABLES
  doc,         \* doc[d]: the columns of the row, None before and Deleted after its life
  text,        \* text[d][l]: the save that wrote the translation, None if there is none
  save,        \* save[e]: the request of editor e
  saves,       \* requests begun
  asked,       \* asked[d]: the columns the last committed save of d asked for
  stale        \* documents whose last save had loaded columns that were no longer current

content == <<doc, text, save, saves, asked, stale>>

Docs == Banners \cup Pages
Exists(d) == doc[d] \notin {None, Deleted}
Payloads(d) == IF d \in Banners THEN BannerPayloads ELSE PagePayloads
NoText == [l \in Langs |-> None]

\* _require_both_langs: exactly one translation per language.
RequireBothLangs(p) == p.langs = Langs

\* The pydantic checks of a payload: both languages, and a window that is not empty.
Valid(p) ==
  /\ RequireBothLangs(p)
  /\ "start" \in DOMAIN p.row =>
       (None \notin {p.row.start, p.row.stop} => p.row.start <= p.row.stop)

\* content_page.slug is unique.
SlugFree(d, r) ==
  d \in Pages => \A x \in Pages \ {d} : Exists(x) => doc[x].slug # r.slug

\* Mutant: an existing translation in another language is kept.
ReplacedNewOnly(d, p, n) ==
  [l \in Langs |-> IF l \in p.langs /\ (text[d][l] = None \/ l = CHOOSE x \in Langs : TRUE)
                   THEN n ELSE text[d][l]]
\* The translations a payload leaves behind when request n commits it.
Replaced(d, p, n) == [l \in Langs |-> IF l \in p.langs THEN n ELSE None]

\* Columns a session writes: those it found different from what it had loaded.
Changed(want, seen) == {c \in DOMAIN want : want[c] # seen[c]}
Merged(now, want, seen) == [c \in DOMAIN now |-> IF c \in Changed(want, seen) THEN want[c] ELSE now[c]]

Init ==
  /\ doc \in Sites
  /\ text = [d \in Docs |-> IF doc[d] = None THEN NoText ELSE [l \in Langs |-> 0]]
  /\ save = [e \in Editors |-> None]
  /\ saves = 0
  /\ asked = doc
  /\ stale = {}
-----------------------------------------------------------------------------
Row(d) == [id |-> d, of |-> "row"]
Text(d) == [id |-> d, of |-> "text"]

\* The locks a request takes, in the order of its statements.
UpdateBannerPlan(d, changes) == <<Text(d)>> \o IF changes THEN <<Row(d)>> ELSE <<>>
UpdatePagePlan(d, changes) == (IF changes THEN <<Row(d)>> ELSE <<>>) \o <<Text(d)>>
DeletePlan(d) == <<Text(d), Row(d)>>
ReorderPlan(want) ==
  LET moved == {b \in DOMAIN want : want[b] # doc[b].pos}
  IN  [i \in 1..Cardinality(moved) |->
         Row(CHOOSE b \in moved : Cardinality({x \in moved : x < b}) = i - 1)]

Start(e, job) ==
  /\ save[e] = None /\ saves < MaxSaves
  /\ saves' = saves + 1
  /\ save' = [save EXCEPT ![e] = [op |-> job.op, ids |-> job.ids, want |-> job.want, seen |-> job.seen,
                                  plan |-> job.plan, locks |-> {}, waits |-> FALSE, saw |-> NoText,
                                  serial |-> saves + 1]]
  /\ UNCHANGED <<doc, text, asked, stale>>

\* create, create_page: the slug is tested first.
BeginCreate(e, d, p) ==
  /\ doc[d] = None /\ p \in Payloads(d) /\ Valid(p) /\ SlugFree(d, p.row)
  /\ \A x \in Editors : save[x] # None => d \notin save[x].ids
  /\ Start(e, [op |-> "create", ids |-> {d}, want |-> p, seen |-> None, plan |-> <<>>])

\* update: the banner is loaded.
BeginUpdateBanner(e, d, p) ==
  /\ d \in Banners /\ Exists(d) /\ p \in Payloads(d) /\ Valid(p)
  /\ Start(e, [op |-> "update", ids |-> {d}, want |-> p, seen |-> doc[d],
               plan |-> UpdateBannerPlan(d, Changed(p.row, doc[d]) # {})])

\* update_page: the page is loaded and the slug tested against the other pages.
BeginUpdatePage(e, d, p) ==
  /\ d \in Pages /\ Exists(d) /\ p \in Payloads(d) /\ Valid(p) /\ SlugFree(d, p.row)
  /\ Start(e, [op |-> "update", ids |-> {d}, want |-> p, seen |-> doc[d],
               plan |-> UpdatePagePlan(d, Changed(p.row, doc[d]) # {})])

\* delete, delete_page.
BeginDelete(e, d) ==
  /\ Exists(d)
  /\ Start(e, [op |-> "delete", ids |-> {d}, want |-> None, seen |-> doc[d], plan |-> DeletePlan(d)])

\* reorder: every banner named must exist.
BeginReorder(e, want) ==
  /\ \A b \in DOMAIN want : Exists(b)
  /\ Start(e, [op |-> "reorder", ids |-> DOMAIN want, want |-> want,
               seen |-> [b \in DOMAIN want |-> doc[b]], plan |-> ReorderPlan(want)])

Wanted(e) == Head(save[e].plan)
Free(e) == \A x \in Editors \ {e} : save[x] # None => Wanted(e) \notin save[x].locks
Visible(e) == IF Wanted(e).of = "text" THEN text[Wanted(e).id] ELSE save[e].saw

\* The next statement starts, and what it sees of the translations is fixed; it takes its
\* lock, or waits while somebody else holds it.
Lock(e) ==
  /\ save[e] # None /\ save[e].plan # <<>> /\ ~save[e].waits
  /\ save' = [save EXCEPT ![e].saw = Visible(e), ![e].waits = ~Free(e),
                          ![e].plan = IF Free(e) THEN Tail(@) ELSE @,
                          ![e].locks = IF Free(e) THEN @ \cup {Wanted(e)} ELSE @]
  /\ UNCHANGED <<doc, text, saves, asked, stale>>

\* A statement that waited goes on.
Resume(e) ==
  /\ save[e] # None /\ save[e].waits /\ Free(e)
  /\ save' = [save EXCEPT ![e].waits = FALSE, ![e].plan = Tail(@), ![e].locks = @ \cup {Wanted(e)}]
  /\ UNCHANGED <<doc, text, saves, asked, stale>>

Ready(e, op) == save[e] # None /\ save[e].op = op /\ save[e].plan = <<>>
TheOne(e) == CHOOSE d \in save[e].ids : TRUE
Done(e) == save' = [save EXCEPT ![e] = None] /\ UNCHANGED saves

\* The insert of create and create_page.
Create(e) ==
  LET d == TheOne(e)
      p == save[e].want
  IN  /\ Ready(e, "create") /\ SlugFree(d, p.row)
      /\ doc' = [doc EXCEPT ![d] = p.row]
      /\ text' = [text EXCEPT ![d] = Replaced(d, p, save[e].serial)]
      /\ asked' = [asked EXCEPT ![d] = p.row]
      /\ Done(e) /\ UNCHANGED stale

\* The commit of update and update_page.  The row must still be there, the slug free, and
\* a banner's translations those the request deleted: else a key or a row count objects.
Update(e) ==
  LET d == TheOne(e)
      p == save[e].want
  IN  /\ Ready(e, "update") /\ Exists(d) /\ SlugFree(d, p.row)
      /\ d \in Banners => text[d] = save[e].saw
      /\ doc' = [doc EXCEPT ![d] = Merged(@, p.row, save[e].seen)]
      /\ text' = [text EXCEPT ![d] = Replaced(d, p, save[e].serial)]
      /\ asked' = [asked EXCEPT ![d] = p.row]
      /\ stale' = IF save[e].seen = doc[d] THEN stale \ {d} ELSE stale \cup {d}
      /\ Done(e)

\* The commit of delete and delete_page; the translations go with the row.
Delete(e) ==
  LET d == TheOne(e)
  IN  /\ Ready(e, "delete")
      /\ doc' = [doc EXCEPT ![d] = Deleted]
      /\ text' = [text EXCEPT ![d] = NoText]
      /\ asked' = [asked EXCEPT ![d] = Deleted]
      /\ Done(e) /\ UNCHANGED stale

\* The positions a reorder leaves: all it names.
Reordered(e) ==
  [d \in Docs |-> IF d \in save[e].ids /\ save[e].want[d] # save[e].seen[d].pos
                  THEN [doc[d] EXCEPT !.pos = save[e].want[d]] ELSE doc[d]]

\* The commit of reorder; a banner it must write and that is gone makes it fail.
Reorder(e) ==
  /\ Ready(e, "reorder")
  /\ \A d \in save[e].ids : save[e].want[d] # save[e].seen[d].pos => Exists(d)
  /\ doc' = Reordered(e)
  /\ asked' = [d \in Docs |-> IF d \in save[e].ids /\ Exists(d)
                              THEN [asked[d] EXCEPT !.pos = save[e].want[d]] ELSE asked[d]]
  /\ stale' = stale \cup {d \in save[e].ids : save[e].seen[d] # doc[d]}
  /\ Done(e) /\ UNCHANGED text

\* A deadlock, a constraint, a missing row or a lost connection rolls the request back.
Fail(e) == save[e] # None /\ Done(e) /\ UNCHANGED <<doc, text, asked, stale>>
-----------------------------------------------------------------------------
\* list_live: active, inside the window, translated.
ListLive(lang, now) ==
  {b \in Banners :
     /\ Exists(b) /\ doc[b].on /\ text[b][lang] # None
     /\ doc[b].start = None \/ doc[b].start <= now
     /\ doc[b].stop = None \/ doc[b].stop >= now}

\* list_published_footer
ListFooter(lang) == {p \in Pages : Exists(p) /\ doc[p].on /\ doc[p].footer /\ text[p][lang] # None}

\* get_published_by_slug
GetPage(slug, lang) == {p \in Pages : Exists(p) /\ doc[p].on /\ doc[p].slug = slug /\ text[p][lang] # None}

\* Every document is what one save asked for, all its languages and, unless that save had
\* loaded columns another one changed meanwhile, all its columns: no mixture of two saves
\* (update, update_page, reorder).
AsSaved ==
  \A d \in Docs : Exists(d) =>
    /\ \A l, m \in Langs : text[d][l] = text[d][m]
    /\ d \in stale \/ doc[d] = asked[d]

\* The home page shows the same banners in every language at every moment (list_live joins
\* the translation, so a missing one would hide the banner).
SameInEveryLanguage ==
  \A now \in Times : \A l, m \in Langs : ListLive(l, now) = ListLive(m, now)

\* Each link of the footer opens the page it names, in the same language (list_footer,
\* get_page).
FooterLinksOpen ==
  \A l \in Langs : \A p \in ListFooter(l) : GetPage(doc[p].slug, l) = {p}
=============================================================================
