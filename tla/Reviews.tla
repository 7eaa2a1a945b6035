------------------------------- MODULE Reviews -------------------------------
(***************************************************************************)
(* The reviews of one product: customers submit, edit and delete their own, *)
(* an operator approves or rejects what the moderation screen shows, and a  *)
(* visitor turns the pages of the approved ones.  Requests read the row     *)
(* first and write it later; only attributes that changed are written.      *)
(***************************************************************************)
EXTENDS Naturals, Sequences, FiniteSets

CONSTANTS
  Authors,      \* numbers: the first reviews were written in their order
  Ratings,
  Visits,       \* review requests under way at once
  MaxVisits,    \* bound on the requests that begin
  PublicPage,   \* PUBLIC_PAGE_SIZE
  None

VARIABLES
  review,       \* each author's row: [id, rating, text, status], None where there is none
  screen,       \* the rows the operator looks at
  visit,        \* a request: [kind, author, seen, rating, text, status]
  lastId,
  visits,       \* requests so far; with the author, they name texts
  passed,       \* texts an operator read and approved
  blind,        \* authors whose review was judged unread or edited meanwhile
  reader,       \* the visitor's walk: [sort, cursor, shown, open]
  moved         \* authors whose review changed since the walk began

reviewVars == <<review, screen, visit, lastId, visits, passed, blind, reader, moved>>

ReviewSorts == {"newest", "highest", "lowest"}
Written == {a \in Authors : review[a] # None}
Approved == {a \in Written : review[a].status = "approved"}
NewReader(sort) == [sort |-> sort, cursor |-> None, shown |-> <<>>, open |-> TRUE]

Init ==
  /\ \E sort \in ReviewSorts : reader = NewReader(sort)
  /\ \E first \in SUBSET Authors, rating \in Ratings :
       review = [a \in Authors |-> IF a \notin first THEN None ELSE
                   [id |-> a, rating |-> rating, text |-> <<0, a>>, status |-> "approved"]]
  /\ screen = review
  /\ visit = [q \in Visits |-> None]
  /\ lastId \in Authors /\ (\A a \in Authors : a =< lastId)
  /\ visits = 0
  /\ passed = {<<0, a>> : a \in Authors} /\ blind = {} /\ moved = {}

\* submit, delete_own, delete_admin and moderate load the row.  The operator moderates a row
\* of the screen, by its id, and is blind to an edit made since the screen was loaded.
Begin(q, kind, a, rating, status) ==
  /\ visit[q] = None
  /\ kind # "submit" => a \in Written
  /\ visits < MaxVisits
  /\ kind = "moderate" => screen[a] # None /\ screen[a].id = review[a].id
  /\ visit' = [visit EXCEPT ![q] = [kind |-> kind, author |-> a, seen |-> review[a], rating |-> rating,
                                    text |-> <<visits + 1, a>>, status |-> status]]
  /\ visits' = visits + 1
  /\ passed' = IF kind = "moderate" /\ status = "approved" THEN passed \cup {screen[a].text} ELSE passed
  /\ blind' = IF \/ kind = "moderate" /\ screen[a].text # review[a].text
                 \/ \E p \in Visits : visit[p] # None /\ visit[p].author = a
              THEN blind \cup {a} ELSE blind
  /\ UNCHANGED <<review, screen, lastId, reader, moved>>

Ends(q) == visit' = [visit EXCEPT ![q] = None]

\* The row a request loaded is still there.
Stands(q) == review[visit[q].author] # None /\ review[visit[q].author].id = visit[q].seen.id

\* Mutant: an edit keeps the status.
StatusAfterEditKept(q) == review[visit[q].author].status

\* An edit goes back to pending; a row that was read as pending is not written so.
StatusAfterEdit(q) ==
  IF visit[q].seen.status = "pending" THEN review[visit[q].author].status ELSE "pending"

\* submit: one row per author and product, by a unique index.
Submit(q) ==
  LET v == visit[q]
      a == v.author
  IN  /\ v # None /\ v.kind = "submit"
      /\ \/ /\ v.seen = None /\ review[a] = None
            /\ review' = [review EXCEPT ![a] =
                 [id |-> lastId + 1, rating |-> v.rating, text |-> v.text, status |-> "pending"]]
            /\ lastId' = lastId + 1
         \/ /\ v.seen # None /\ Stands(q)
            /\ review' = [review EXCEPT ![a].rating = v.rating, ![a].text = v.text, ![a].status = StatusAfterEdit(q)]
            /\ UNCHANGED lastId
      /\ moved' = moved \cup {a}
      /\ Ends(q)
      /\ UNCHANGED <<screen, visits, passed, blind, reader>>

\* moderate
Moderate(q) ==
  LET v == visit[q]
      a == v.author
  IN  /\ v # None /\ v.kind = "moderate" /\ Stands(q)
      /\ review' = [review EXCEPT ![a].status = IF v.status = v.seen.status THEN @ ELSE v.status]
      /\ moved' = moved \cup {a}
      /\ Ends(q)
      /\ UNCHANGED <<screen, lastId, visits, passed, blind, reader>>

\* delete_own and delete_admin
Delete(q) ==
  LET a == visit[q].author
  IN  /\ visit[q] # None /\ visit[q].kind = "delete"
      /\ review' = [review EXCEPT ![a] = IF Stands(q) THEN None ELSE @]
      /\ moved' = moved \cup {a}
      /\ Ends(q)
      /\ UNCHANGED <<screen, lastId, visits, passed, blind, reader>>

\* An error: a row that is gone or was inserted by another request first, or a crash.
Fail(q) ==
  /\ visit[q] # None
  /\ Ends(q)
  /\ UNCHANGED <<review, screen, lastId, visits, passed, blind, reader, moved>>

\* list_admin
LoadScreen ==
  /\ screen # review
  /\ screen' = review
  /\ UNCHANGED <<review, visit, lastId, visits, passed, blind, reader, moved>>
-----------------------------------------------------------------------------
\* The public pages

\* The order of list_approved.
Before(sort, a, b) ==
  LET newer == review[a].id > review[b].id
  IN  CASE sort = "highest" -> review[a].rating > review[b].rating \/ (review[a].rating = review[b].rating /\ newer)
        [] sort = "lowest" -> review[a].rating < review[b].rating \/ (review[a].rating = review[b].rating /\ newer)
        [] OTHER -> newer

\* Whatever the sort, a page follows by its id.
AfterCursor(a) == reader.cursor # None => review[a].id < reader.cursor

\* The first n of the rows found, in the order asked for.
FirstOf(found, n) ==
  {page \in [1 .. n -> found] :
     /\ \A i, j \in 1 .. n : i < j => Before(reader.sort, page[i], page[j])
     /\ \A a \in found : \/ \E i \in 1 .. n : page[i] = a
                         \/ \A i \in 1 .. n : Before(reader.sort, page[i], a)}

\* list_public: one more than a page says whether there is another.
ListPublic ==
  LET found == {a \in Approved : AfterCursor(a)}
      more == Cardinality(found) > PublicPage
      size == IF more THEN PublicPage ELSE Cardinality(found)
  IN  /\ reader.open
      /\ \E page \in FirstOf(found, size) :
           reader' = [reader EXCEPT !.shown = @ \o page, !.open = more,
                                    !.cursor = IF more THEN review[page[size]].id ELSE None]
      /\ UNCHANGED <<review, screen, visit, lastId, visits, passed, blind, moved>>

Next ==
  \/ \E q \in Visits, a \in Authors, r \in Ratings : Begin(q, "submit", a, r, None)
  \/ \E q \in Visits, a \in Authors, s \in {"approved", "rejected"} : Begin(q, "moderate", a, None, s)
  \/ \E q \in Visits, a \in Authors : Begin(q, "delete", a, None, None)
  \/ \E q \in Visits : Submit(q) \/ Moderate(q) \/ Delete(q) \/ Fail(q)
  \/ LoadScreen
  \/ ListPublic

Spec == Init /\ [][Next]_reviewVars
-----------------------------------------------------------------------------
\* Properties

\* A public text is one an operator has read and approved, unless it was judged from a
\* screen older than the edit or the edit and the judgement overlapped.
PublicWasRead == \A a \in Approved \ blind : review[a].text \in passed

\* Newest first, the pages show every approved review that nobody touched exactly once.
NewestShowsAll ==
  reader.sort = "newest" =>
    \A a \in Authors \ moved :
      LET times == Cardinality({i \in DOMAIN reader.shown : reader.shown[i] = a})
      IN  times =< 1 /\ (~reader.open => times = IF a \in Approved THEN 1 ELSE 0)
=============================================================================
