-------------------------- MODULE StorefrontProofs --------------------------
(***************************************************************************)
(* The parts of the storefront, each for every value of its constants: what *)
(* a behaviour about one part keeps of it.                                  *)
(***************************************************************************)
EXTENDS MCStorefront, Ordered, FiniteSetTheorems, SequenceTheorems, NaturalsInduction, WellFoundedInduction, TLAPS

\* The steps of a behaviour are those of the part it is about.
LEMMA PartStep ==
  ASSUME [Next]_vars
  PROVE  /\ part' = part
         /\ part = "listing" => ListingStep \/ UNCHANGED listing
         /\ part = "tree" => TreeStep \/ UNCHANGED tree
         /\ part = "variations" => VariationsStep \/ UNCHANGED variations
         /\ part = "reviews" => ReviewsStep \/ UNCHANGED reviews
         /\ part = "search" => SearchStep \/ UNCHANGED search
         /\ part = "pictures" => PicturesStep \/ UNCHANGED pictures
<1>1. CASE UNCHANGED vars
  BY <1>1 DEF vars
<1>2. CASE ListingStep \/ TreeStep \/ VariationsStep
  BY <1>2 DEF ListingStep, TreeStep, VariationsStep
<1>3. CASE ReviewsStep \/ SearchStep \/ PicturesStep
  BY <1>3 DEF ReviewsStep, SearchStep, PicturesStep
<1>. QED  BY <1>1, <1>2, <1>3 DEF Next

-----------------------------------------------------------------------------
\* Reviews

ReviewRow ==
  [id : Nat, rating : Ratings, text : Nat \X Authors, status : {"pending", "approved", "rejected"}]

\* Rows have ids of their own, of the numbers given out.
ReviewRows ==
  /\ review \in [Authors -> ReviewRow \cup {None}]
  /\ lastId \in Nat /\ visits \in Nat
  /\ \A a \in Review!Written : review[a].id =< lastId
  /\ \A a, b \in Review!Written : review[a].id = review[b].id => a = b

\* A request has loaded a row of its author's.
VisitRows ==
  /\ DOMAIN visit = Visits
  /\ \A q \in Visits : visit[q] # None =>
       /\ visit[q].author \in Authors
       /\ visit[q].seen \in ReviewRow \cup {None}
       /\ visit[q].kind # "submit" => visit[q].seen # None
       /\ visit[q].kind = "submit" => visit[q].rating \in Ratings /\ visit[q].text \in Nat \X Authors
       /\ visit[q].kind = "moderate" => visit[q].status \in {"approved", "rejected"}

About(q, a) == visit[q] # None /\ visit[q].author = a

\* A review never judged unread nor edited meanwhile: one request at a time is about it,
\* loaded what is still there, and approves only what was read.
JudgedAsRead(a) ==
  /\ \A p, q \in Visits : About(p, a) /\ About(q, a) => p = q
  /\ \A q \in Visits : About(q, a) =>
       /\ visit[q].seen = review[a]
       /\ visit[q].kind = "moderate" /\ visit[q].status = "approved" => review[a].text \in passed
  /\ a \in Review!Approved => review[a].text \in passed

\* The walk, newest first: of the reviews nobody changed it has shown those with an id of
\* the cursor's or above, and all of them once it is over.
Turned(a) == ~reader.open \/ (reader.cursor # None /\ review[a].id >= reader.cursor)
Readers ==
  [sort : Review!ReviewSorts, cursor : Nat \cup {None}, shown : Seq(Authors), open : BOOLEAN]
WalkInv ==
  /\ reader \in Readers
  /\ reader.sort = "newest" => \A a \in Authors \ moved :
       /\ \A i, j \in DOMAIN reader.shown : reader.shown[i] = a /\ reader.shown[j] = a => i = j
       /\ (\E i \in DOMAIN reader.shown : reader.shown[i] = a) <=> (a \in Review!Approved /\ Turned(a))

ReviewInv == ReviewRows /\ VisitRows /\ (\A a \in Authors \ blind : JudgedAsRead(a)) /\ WalkInv

LEMMA ReviewCardinality == \A S : Review!Cardinality(S) = Cardinality(S)
BY DEF Review!Cardinality, Cardinality

LEMMA NoneIsNoReview == None \notin ReviewRow
BY NoneAssumption DEF ReviewRow

LEMMA ReviewInit ==
  ASSUME Review!Init PROVE ReviewInv
<1>1. PICK sort \in Review!ReviewSorts, first \in SUBSET Authors, rating \in Ratings :
        /\ reader = [sort |-> sort, cursor |-> None, shown |-> <<>>, open |-> TRUE]
        /\ review = [a \in Authors |-> IF a \notin first THEN None ELSE
                       [id |-> a, rating |-> rating, text |-> <<0, a>>, status |-> "approved"]]
  BY DEF Review!Init, Review!NewReader
<1>2. lastId \in Authors /\ (\A a \in Authors : a =< lastId) /\ visits = 0 /\ visit = [q \in Visits |-> None]
      /\ passed = {<<0, a>> : a \in Authors} /\ blind = {} /\ moved = {}
  BY DEF Review!Init
<1>3. ASSUME NEW a \in Review!Written
      PROVE  a \in Authors /\ review[a].id = a /\ review[a].text = <<0, a>>
  <2>1. a \in Authors /\ a \in first
    BY <1>1, <1>3 DEF Review!Written
  <2>2. review[a] = [id |-> a, rating |-> rating, text |-> <<0, a>>, status |-> "approved"]
    BY <1>1, <2>1
  <2>. QED  BY <2>1, <2>2
<1>4. ReviewRows
  <2>1. \A a \in first : [id |-> a, rating |-> rating, text |-> <<0, a>>, status |-> "approved"] \in ReviewRow
    BY ReviewsAssumption DEF ReviewRow
  <2>2. review \in [Authors -> ReviewRow \cup {None}]
    BY <1>1, <2>1
  <2>. QED  BY <1>2, <1>3, <2>2, ReviewsAssumption DEF ReviewRows
<1>5. VisitRows /\ \A a \in Authors : \A q \in Visits : ~About(q, a)
  BY <1>2 DEF VisitRows, About
<1>6. \A a \in Authors : a \in Review!Approved => review[a].text \in passed
  BY <1>2, <1>3 DEF Review!Approved
<1>7. WalkInv
  BY <1>1 DEF WalkInv, Readers, Turned
<1>. QED  BY <1>4, <1>5, <1>6, <1>7 DEF ReviewInv, JudgedAsRead

\* Requests come and go, the rows stay.
LEMMA VisitStep ==
  ASSUME ReviewInv, UNCHANGED <<review, lastId, reader, moved>>
  PROVE  (visits' \in Nat => ReviewRows') /\ WalkInv'
BY DEF ReviewInv, ReviewRows, WalkInv, Turned, Review!Written, Review!Approved

LEMMA ReviewBegins ==
  ASSUME ReviewInv, NEW q \in Visits, NEW kind \in {"submit", "moderate", "delete"}, NEW a \in Authors,
         NEW rating, NEW status, Review!Begin(q, kind, a, rating, status),
         kind = "submit" => rating \in Ratings,
         kind = "moderate" => status \in {"approved", "rejected"}
  PROVE  ReviewInv'
<1>. DEFINE new == [kind |-> kind, author |-> a, seen |-> review[a], rating |-> rating,
                    text |-> <<visits + 1, a>>, status |-> status]
<1>1. /\ visit[q] = None /\ (kind # "submit" => a \in Review!Written)
      /\ visit' = [visit EXCEPT ![q] = new]
      /\ visits' = visits + 1
      /\ UNCHANGED <<review, screen, lastId, reader, moved>>
      /\ passed \subseteq passed'
      /\ blind \subseteq blind'
      /\ a \notin blind' =>
           /\ \A p \in Visits : ~About(p, a)
           /\ kind = "moderate" /\ status = "approved" => review[a].text \in passed'
  BY DEF Review!Begin, About
<1>2. visits' \in Nat /\ ReviewRows' /\ WalkInv'
  BY <1>1, VisitStep DEF ReviewInv, ReviewRows
<1>3. VisitRows'
  <2>1. review[a] \in ReviewRow \cup {None} /\ new.text \in Nat \X Authors
    BY <1>1, <1>2 DEF ReviewRows, ReviewInv
  <2>2. kind # "submit" => review[a] # None
    BY <1>1 DEF Review!Written
  <2>. QED  BY <1>1, <2>1, <2>2 DEF VisitRows, ReviewInv
<1>4. ASSUME NEW b \in Authors \ blind' PROVE JudgedAsRead(b)'
  <2>1. JudgedAsRead(b) /\ DOMAIN visit = Visits
    BY <1>1, <1>4 DEF ReviewInv, VisitRows
  <2>2. \A p \in Visits : p # q => (About(p, b)' <=> About(p, b)) /\ visit'[p] = visit[p]
    BY <1>1, <2>1 DEF About
  <2>3. About(q, b)' => b = a /\ visit'[q] = new
    BY <1>1, <2>1 DEF About
  <2>4. b \in Review!Approved' => b \in Review!Approved
    BY <1>1 DEF Review!Approved, Review!Written
  <2>5. CASE b # a
    BY <1>1, <2>1, <2>2, <2>3, <2>4, <2>5 DEF JudgedAsRead
  <2>6. CASE b = a
    BY <1>1, <1>4, <2>1, <2>2, <2>3, <2>4, <2>6 DEF JudgedAsRead
  <2>. QED  BY <2>5, <2>6
<1>. QED  BY <1>2, <1>3, <1>4 DEF ReviewInv
\* A review that changed is no longer looked for on the walk.
LEMMA WalkMoves ==
  ASSUME WalkInv, NEW a, moved' = moved \cup {a}, reader' = reader,
         \A b \in Authors \ {a} : review'[b] = review[b]
  PROVE  WalkInv'
<1>1. ASSUME reader.sort = "newest", NEW b \in Authors \ moved'
      PROVE  /\ \A i, j \in DOMAIN reader.shown : reader.shown[i] = b /\ reader.shown[j] = b => i = j
             /\ (\E i \in DOMAIN reader.shown : reader.shown[i] = b) <=> (b \in Review!Approved /\ Turned(b))'
  <2>1. b \in Authors \ moved /\ review'[b] = review[b]
    BY <1>1
  <2>2. (b \in Review!Approved)' <=> b \in Review!Approved
    BY <2>1 DEF Review!Approved, Review!Written
  <2>3. Turned(b)' <=> Turned(b)
    BY <2>1 DEF Turned
  <2>. QED  BY <1>1, <2>1, <2>2, <2>3 DEF WalkInv
<1>. QED  BY <1>1 DEF WalkInv

\* A request ends, having written its author's row or not: with no id but that row's own or
\* a new one, and approving only what was read.
LEMMA VisitEnds ==
  ASSUME ReviewInv, NEW q \in Visits, visit[q] # None, NEW a \in Authors, a = visit[q].author,
         NEW new \in ReviewRow \cup {None}, review' = [review EXCEPT ![a] = new],
         \/ new = None /\ lastId' = lastId
         \/ review[a] # None /\ new # None /\ new.id = review[a].id /\ lastId' = lastId
         \/ new # None /\ new.id = lastId + 1 /\ lastId' = lastId + 1,
         moved' = moved \cup {a} \/ (new = review[a] /\ moved' = moved),
         visit' = [visit EXCEPT ![q] = None],
         a \notin blind /\ new # None => (new.status = "approved" => new.text \in passed),
         UNCHANGED <<visits, passed, blind, reader>>
  PROVE  ReviewInv'
<1>1. ReviewRows /\ VisitRows /\ WalkInv /\ \A b \in Authors \ blind : JudgedAsRead(b)
  BY DEF ReviewInv
<1>2. /\ review'[a] = new /\ \A b \in Authors \ {a} : review'[b] = review[b]
      /\ visit'[q] = None /\ \A p \in Visits \ {q} : visit'[p] = visit[p]
      /\ DOMAIN visit' = Visits
  BY <1>1 DEF ReviewRows, VisitRows
<1>3. ReviewRows'
  <2>1. review' \in [Authors -> ReviewRow \cup {None}] /\ lastId \in Nat /\ lastId' \in Nat /\ visits' \in Nat
    BY <1>1 DEF ReviewRows
  <2>2. Review!Written' \subseteq Review!Written \cup {a}
    BY <1>2 DEF Review!Written
  <2>3. \A b \in Review!Written : review[b].id =< lastId /\ review[b].id \in Nat
    BY <1>1 DEF ReviewRows, Review!Written, ReviewRow
  <2>4. \A b \in Review!Written' : review'[b].id =< lastId'
    <3>1. ASSUME NEW b \in Review!Written', b # a PROVE review'[b].id =< lastId
      BY <1>2, <2>2, <2>3, <3>1 DEF Review!Written
    <3>2. ASSUME a \in Review!Written' PROVE new.id =< lastId'
      <4>1. new # None
        BY <1>2, <3>2 DEF Review!Written
      <4>2. CASE review[a] # None /\ new.id = review[a].id
        BY <2>1, <2>3, <4>2 DEF Review!Written
      <4>. QED  BY <2>1, <4>1, <4>2
    <3>3. lastId =< lastId'
      BY <2>1
    <3>. QED  BY <1>2, <2>1, <2>2, <2>3, <3>1, <3>2, <3>3 DEF Review!Written
  <2>5. \A b, c \in Review!Written' : review'[b].id = review'[c].id => b = c
    <3>1. ASSUME NEW b \in Review!Written', b # a, a \in Review!Written'
          PROVE  review'[b].id # new.id
      <4>1. b \in Review!Written /\ review'[b] = review[b] /\ new # None
        BY <1>2, <2>2, <3>1 DEF Review!Written
      <4>2. CASE review[a] # None /\ new.id = review[a].id
        BY <1>1, <3>1, <4>1, <4>2 DEF ReviewRows, Review!Written
      <4>3. CASE new.id = lastId + 1
        BY <2>1, <2>3, <4>1, <4>3
      <4>. QED  BY <4>1, <4>2, <4>3
    <3>2. \A b, c \in Review!Written' : b # a /\ c # a /\ review'[b].id = review'[c].id => b = c
      BY <1>1, <1>2, <2>2 DEF ReviewRows, Review!Written
    <3>. QED  BY <1>2, <3>1, <3>2
  <2>. QED  BY <2>1, <2>4, <2>5 DEF ReviewRows
<1>4. VisitRows'
  BY <1>1, <1>2 DEF VisitRows
<1>5. WalkInv'
  <2>1. CASE moved' = moved \cup {a}
    BY <1>1, <1>2, <2>1, WalkMoves
  <2>2. CASE review' = review /\ moved' = moved
    BY <1>1, <2>2 DEF WalkInv, Turned, Review!Approved, Review!Written
  <2>3. new = review[a] => review' = review
    BY <1>1 DEF ReviewRows
  <2>. QED  BY <2>1, <2>2, <2>3
<1>6. ASSUME NEW b \in Authors \ blind' PROVE JudgedAsRead(b)'
  <2>1. JudgedAsRead(b)
    BY <1>1, <1>6
  <2>2. \A p \in Visits : About(p, b)' => p # q /\ About(p, b) /\ visit'[p] = visit[p]
    BY <1>2 DEF About
  <2>3. CASE b # a
    <3>1. review'[b] = review[b] /\ (b \in Review!Approved' => b \in Review!Approved)
      BY <1>2, <2>3 DEF Review!Approved, Review!Written
    <3>. QED  BY <2>1, <2>2, <3>1 DEF JudgedAsRead
  <2>4. CASE b = a
    <3>1. \A p \in Visits : ~About(p, b)'
      BY <2>1, <2>2, <2>4 DEF JudgedAsRead, About
    <3>2. b \in Review!Approved' => review'[b].text \in passed'
      BY <1>2, <1>6, <2>4 DEF Review!Approved, Review!Written
    <3>. QED  BY <3>1, <3>2 DEF JudgedAsRead
  <2>. QED  BY <2>3, <2>4
<1>. QED  BY <1>3, <1>4, <1>5, <1>6 DEF ReviewInv

LEMMA ReviewEnds ==
  ASSUME ReviewInv, NEW q \in Visits,
         Review!Submit(q) \/ Review!Moderate(q) \/ Review!Delete(q) \/ Review!Fail(q)
  PROVE  ReviewInv'
<1>. DEFINE v == visit[q]
            a == v.author
<1>1. ReviewRows /\ VisitRows /\ v # None
  BY DEF ReviewInv, Review!Submit, Review!Moderate, Review!Delete, Review!Fail
<1>2. /\ a \in Authors /\ v.seen \in ReviewRow \cup {None}
      /\ v.kind # "submit" => v.seen # None
      /\ v.kind = "submit" => v.rating \in Ratings /\ v.text \in Nat \X Authors
      /\ v.kind = "moderate" => v.status \in {"approved", "rejected"}
      /\ review[a] \in ReviewRow \cup {None}
      /\ review \in [Authors -> ReviewRow \cup {None}]
      /\ lastId \in Nat
  BY <1>1 DEF VisitRows, ReviewRows
<1>3. a \notin blind =>
        /\ v.seen = review[a]
        /\ v.kind = "moderate" /\ v.status = "approved" => review[a].text \in passed
        /\ a \in Review!Approved => review[a].text \in passed
  BY <1>1, <1>2 DEF ReviewInv, JudgedAsRead, About
<1>4. a \notin blind /\ review[a] # None => (review[a].status = "approved" => review[a].text \in passed)
  BY <1>2, <1>3 DEF Review!Approved, Review!Written
<1>5. CASE Review!Submit(q) /\ review[a] = None /\ v.seen = None
  <2>. DEFINE new == [id |-> lastId + 1, rating |-> v.rating, text |-> v.text, status |-> "pending"]
  <2>1. /\ v.kind = "submit" /\ review' = [review EXCEPT ![a] = new] /\ lastId' = lastId + 1
        /\ moved' = moved \cup {a} /\ visit' = [visit EXCEPT ![q] = None]
        /\ UNCHANGED <<visits, passed, blind, reader>>
    BY <1>5 DEF Review!Submit, Review!Ends
  <2>2. new \in ReviewRow /\ new.id = lastId + 1 /\ new.status # "approved" /\ new # None
    BY <1>2, <2>1, NoneIsNoReview DEF ReviewRow
  <2>. HIDE DEF new
  <2>. QED  BY <1>1, <1>2, <2>1, <2>2, VisitEnds
<1>6. CASE Review!Submit(q) /\ ~(review[a] = None /\ v.seen = None)
  <2>1. /\ v.kind = "submit" /\ v.seen # None /\ review[a] # None
        /\ review' = [review EXCEPT ![a].rating = v.rating, ![a].text = v.text,
                                    ![a].status = Review!StatusAfterEdit(q)]
        /\ lastId' = lastId
        /\ moved' = moved \cup {a} /\ visit' = [visit EXCEPT ![q] = None]
        /\ UNCHANGED <<visits, passed, blind, reader>>
    BY <1>6 DEF Review!Submit, Review!Ends, Review!Stands
  <2>. DEFINE new == [review[a] EXCEPT !.rating = v.rating, !.text = v.text,
                                       !.status = Review!StatusAfterEdit(q)]
  <2>2. review' = [review EXCEPT ![a] = new]
    BY <1>2, <2>1
  <2>3. /\ Review!StatusAfterEdit(q) \in {"pending", "approved", "rejected"}
        /\ a \notin blind => Review!StatusAfterEdit(q) = "pending"
    BY <1>2, <1>3, <2>1 DEF Review!StatusAfterEdit, ReviewRow
  <2>4. /\ new \in ReviewRow /\ new.id = review[a].id /\ new # None
        /\ a \notin blind => new.status = "pending"
    BY <1>2, <2>1, <2>3, NoneIsNoReview DEF ReviewRow
  <2>. HIDE DEF new
  <2>. QED  BY <1>1, <1>2, <2>1, <2>2, <2>4, VisitEnds
<1>7. CASE Review!Moderate(q)
  <2>1. /\ v.kind = "moderate" /\ review[a] # None
        /\ review' = [review EXCEPT ![a].status = IF v.status = v.seen.status THEN @ ELSE v.status]
        /\ lastId' = lastId
        /\ moved' = moved \cup {a} /\ visit' = [visit EXCEPT ![q] = None]
        /\ UNCHANGED <<visits, passed, blind, reader>>
    BY <1>7 DEF Review!Moderate, Review!Ends, Review!Stands
  <2>. DEFINE status == IF v.status = v.seen.status THEN review[a].status ELSE v.status
              new == [review[a] EXCEPT !.status = status]
  <2>2. review' = [review EXCEPT ![a] = new]
    BY <1>2, <2>1
  <2>3. /\ status \in {"pending", "approved", "rejected"}
        /\ a \notin blind => (status = "approved" => review[a].text \in passed)
    BY <1>2, <1>3, <2>1 DEF ReviewRow
  <2>. HIDE DEF status
  <2>4. /\ new \in ReviewRow /\ new.id = review[a].id /\ new.text = review[a].text /\ new # None
        /\ new.status = status
    BY <1>2, <2>1, <2>3, NoneIsNoReview DEF ReviewRow
  <2>. HIDE DEF new
  <2>. QED  BY <1>1, <1>2, <2>1, <2>2, <2>3, <2>4, VisitEnds
<1>8. CASE Review!Delete(q)
  <2>1. /\ review' = [review EXCEPT ![a] = IF Review!Stands(q) THEN None ELSE @]
        /\ lastId' = lastId
        /\ moved' = moved \cup {a} /\ visit' = [visit EXCEPT ![q] = None]
        /\ UNCHANGED <<visits, passed, blind, reader>>
    BY <1>8 DEF Review!Delete, Review!Ends
  <2>2. CASE review' = [review EXCEPT ![a] = None]
    BY <1>1, <1>2, <2>1, <2>2, VisitEnds
  <2>3. CASE review' = [review EXCEPT ![a] = review[a]]
    BY <1>1, <1>2, <1>4, <2>1, <2>3, VisitEnds
  <2>. QED  BY <2>1, <2>2, <2>3
<1>9. CASE Review!Fail(q)
  <2>1. /\ review' = [review EXCEPT ![a] = review[a]] /\ lastId' = lastId /\ moved' = moved
        /\ visit' = [visit EXCEPT ![q] = None]
        /\ UNCHANGED <<visits, passed, blind, reader>>
    BY <1>2, <1>9 DEF Review!Fail, Review!Ends
  <2>. QED  BY <1>1, <1>2, <1>4, <2>1, VisitEnds
<1>. QED  BY <1>5, <1>6, <1>7, <1>8, <1>9
\* What is found and fits on one page is on that page.
LEMMA PageHoldsAll ==
  ASSUME NEW found, IsFiniteSet(found), NEW page \in [1 .. Cardinality(found) -> found],
         \A i, j \in DOMAIN page : i < j => page[i] # page[j]
  PROVE  \A a \in found : \E i \in DOMAIN page : page[i] = a
<1>. DEFINE n == Cardinality(found)
<1>1. SUFFICES ASSUME NEW a \in found, \A i \in DOMAIN page : page[i] # a PROVE FALSE
  OBVIOUS
<1>2. n \in Nat
  BY FS_CardinalityType
<1>3. IsFiniteSet(1 .. n) /\ Cardinality(1 .. n) = n
  BY <1>2, FS_Interval
<1>4. IsFiniteSet(found \ {a}) /\ Cardinality(found \ {a}) = n - 1
  BY FS_RemoveElement
<1>. HIDE DEF n
<1>5. page \in [1 .. n -> found \ {a}]
  BY <1>1 DEF n
<1>6. \E x, y \in 1 .. n : x # y /\ page[x] = page[y]
  <2>1. Cardinality(found \ {a}) < Cardinality(1 .. n)
    BY <1>2, <1>3, <1>4
  <2>. DEFINE S == 1 .. n
              T == found \ {a}
  <2>2. IsFiniteSet(S) /\ IsFiniteSet(T) /\ Cardinality(T) < Cardinality(S) /\ page \in [S -> T]
    BY <1>3, <1>4, <1>5, <2>1
  <2>. HIDE DEF S, T
  <2>3. \E x, y \in S : x # y /\ page[x] = page[y]
    BY <2>2, FS_PigeonHole
  <2>. QED  BY <2>3 DEF S
<1>7. PICK x, y \in 1 .. n : x < y /\ page[x] = page[y]
  BY <1>2, <1>6
<1>. QED  BY <1>5, <1>7

LEMMA ReviewPage ==
  ASSUME ReviewInv, Review!ListPublic PROVE ReviewInv'
<1>. DEFINE found == {a \in Review!Approved : Review!AfterCursor(a)}
            more == Cardinality(found) > PublicPage
            size == IF more THEN PublicPage ELSE Cardinality(found)
<1>1. ReviewRows /\ VisitRows /\ WalkInv
  BY DEF ReviewInv
<1>2. /\ reader.open
      /\ UNCHANGED <<review, screen, visit, lastId, visits, passed, blind, moved>>
  BY DEF Review!ListPublic
<1>3. PICK page \in [1 .. size -> found] :
        /\ \A i, j \in 1 .. size : i < j => Review!Before(reader.sort, page[i], page[j])
        /\ \A a \in found : \/ \E i \in 1 .. size : page[i] = a
                            \/ \A i \in 1 .. size : Review!Before(reader.sort, page[i], a)
        /\ reader' = [reader EXCEPT !.shown = @ \o page, !.open = more,
                                    !.cursor = IF more THEN review[page[size]].id ELSE None]
  BY ReviewCardinality DEF Review!ListPublic, Review!FirstOf
<1>4. IsFiniteSet(found) /\ Cardinality(found) \in Nat /\ found \subseteq Review!Approved
      /\ found \subseteq Authors
  <2>1. found \subseteq Authors
    BY DEF Review!Approved, Review!Written
  <2>. QED  BY <2>1, ReviewsAssumption, FS_Subset, FS_CardinalityType
<1>5. size \in Nat /\ (more => size \in 1 .. size /\ page[size] \in found)
  <2>. HIDE DEF found
  <2>1. size \in Nat
    BY <1>4, ReviewsAssumption
  <2>2. more => size = PublicPage
    OBVIOUS
  <2>3. more => size \in 1 .. size
    BY <2>2, ReviewsAssumption
  <2>. HIDE DEF size, more
  <2>. QED  BY <1>3, <2>1, <2>3
<1>6. \A a \in Review!Approved : a \in Authors /\ review[a].id \in Nat
  BY <1>1 DEF ReviewRows, Review!Approved, Review!Written, ReviewRow
<1>7. /\ reader \in Readers
      /\ reader.cursor \in Nat \cup {None} /\ reader.shown \in Seq(Authors) /\ reader.open \in BOOLEAN
  BY <1>1 DEF WalkInv, Readers
<1>8. page \in Seq(Authors) /\ Len(page) = size /\ DOMAIN page = 1 .. size
  <2>. HIDE DEF size
  <2>1. page \in [1 .. size -> Authors]
    BY <1>3, <1>4
  <2>. QED  BY <1>5, <2>1
<1>9. /\ reader'.sort = reader.sort /\ reader'.shown = reader.shown \o page
      /\ reader'.open = more
      /\ reader'.cursor = IF more THEN review[page[size]].id ELSE None
      /\ reader' \in Readers
  <2>1. (IF more THEN review[page[size]].id ELSE None) \in Nat \cup {None}
    BY <1>4, <1>5, <1>6
  <2>2. reader.shown \o page \in Seq(Authors)
    BY <1>7, <1>8
  <2>. DEFINE cursor0 == IF more THEN review[page[size]].id ELSE None
              shown0 == reader.shown \o page
  <2>3. more \in BOOLEAN
    OBVIOUS
  <2>4. reader' = [reader EXCEPT !.shown = shown0, !.open = more, !.cursor = cursor0]
    BY <1>3
  <2>5. cursor0 \in Nat \cup {None} /\ shown0 \in Seq(Authors)
    BY <2>1, <2>2
  <2>. HIDE DEF more, size, found, cursor0, shown0
  <2>6. /\ reader'.sort = reader.sort /\ reader'.shown = shown0
        /\ reader'.open = more /\ reader'.cursor = cursor0
        /\ reader' \in Readers
    BY <1>7, <2>3, <2>4, <2>5 DEF Readers
  <2>. QED  BY <2>6 DEF cursor0, shown0
<1>10. ASSUME reader.sort = "newest"
       PROVE  \A i, j \in 1 .. size : i < j => review[page[i]].id > review[page[j]].id
  BY <1>3, <1>10 DEF Review!Before
<1>11. ASSUME reader.sort = "newest", NEW a \in found, \A i \in 1 .. size : page[i] # a
       PROVE  more /\ \A i \in 1 .. size : review[page[i]].id > review[a].id
  <2>1. \A i \in 1 .. size : review[page[i]].id > review[a].id
    BY <1>3, <1>11 DEF Review!Before
  <2>2. ASSUME ~more PROVE FALSE
    <3>1. page \in [1 .. Cardinality(found) -> found] /\ size = Cardinality(found)
      BY <1>3, <2>2
    <3>2. \A i, j \in DOMAIN page : i < j => page[i] # page[j]
      <4>1. \A i \in 1 .. size : review[page[i]].id \in Nat
        BY <1>3, <1>4, <1>6
      <4>. HIDE DEF size, found, more
      <4>. QED  BY <1>8, <1>10, <1>11, <4>1
    <3>. HIDE DEF found
    <3>. QED  BY <1>4, <1>11, <3>1, <3>2, PageHoldsAll
  <2>. QED  BY <2>1, <2>2
<1>. HIDE DEF more, size
<1>12. ASSUME reader.sort = "newest", NEW a \in Authors \ moved
       PROVE  /\ \A i, j \in DOMAIN reader'.shown : reader'.shown[i] = a /\ reader'.shown[j] = a => i = j
              /\ (\E i \in DOMAIN reader'.shown : reader'.shown[i] = a)
                   <=> (a \in Review!Approved /\ Turned(a)')
  <2>. DEFINE s == reader.shown
              k == Len(s)
  <2>1. s \in Seq(Authors) /\ k \in Nat /\ DOMAIN s = 1 .. k
    BY <1>7
  <2>2. /\ DOMAIN reader'.shown = 1 .. k + size
        /\ \A i \in 1 .. k : reader'.shown[i] = s[i]
        /\ \A i \in 1 .. size : reader'.shown[k + i] = page[i]
        /\ \A i \in 1 .. k + size : i \in 1 .. k \/ \E j \in 1 .. size : i = k + j
    <3>1. \A i \in 1 .. k + size : i \notin 1 .. k => i - k \in 1 .. size /\ i = k + (i - k)
      BY <1>5, <2>1
    <3>2. DOMAIN (s \o page) = 1 .. k + size /\ Len(s \o page) = k + size
      BY <1>5, <1>8, <2>1
    <3>3. \A i \in 1 .. k + size : (s \o page)[i] = IF i =< k THEN s[i] ELSE page[i - k]
      BY <1>5, <1>8, <2>1
    <3>4. \A i \in 1 .. k : i \in 1 .. k + size /\ i =< k
      BY <1>5, <2>1
    <3>5. \A i \in 1 .. size : k + i \in 1 .. k + size /\ ~(k + i =< k) /\ (k + i) - k = i
      BY <1>5, <2>1
    <3>. HIDE DEF k, s
    <3>. QED  BY <1>9, <3>1, <3>2, <3>3, <3>4, <3>5 DEF s
  <2>. HIDE DEF k
  <2>3. /\ \A i, j \in 1 .. k : s[i] = a /\ s[j] = a => i = j
        /\ (\E i \in 1 .. k : s[i] = a) <=> (a \in Review!Approved /\ Turned(a))
    BY <1>1, <1>12, <2>1 DEF WalkInv
  <2>4. a \in found <=> a \in Review!Approved /\ ~Turned(a)
    BY <1>2, <1>6, <1>7 DEF Turned, Review!AfterCursor
  <2>5. \A i, j \in 1 .. size : page[i] = a /\ page[j] = a => i = j
    <3>1. ASSUME NEW i \in 1 .. size, NEW j \in 1 .. size, i < j, page[i] = page[j] PROVE FALSE
      <4>1. review[page[i]].id \in Nat /\ page[i] \in found
        BY <1>3, <1>4, <1>6
      <4>. QED  BY <1>10, <1>12, <3>1, <4>1
    <3>. QED  BY <1>5, <3>1
  <2>6. \A i \in 1 .. size : page[i] \in found
    BY <1>3
  <2>. HIDE DEF found
  <2>7. \A i, j \in DOMAIN reader'.shown : reader'.shown[i] = a /\ reader'.shown[j] = a => i = j
    <3>1. ASSUME NEW i \in 1 .. k, s[i] = a, NEW j \in 1 .. size, page[j] = a PROVE FALSE
      BY <2>3, <2>4, <2>6, <3>1
    <3>2. ASSUME NEW i \in 1 .. k + size, NEW j \in 1 .. k + size,
                 reader'.shown[i] = a, reader'.shown[j] = a
          PROVE  i = j
      <4>1. CASE i \in 1 .. k /\ j \in 1 .. k
        BY <2>2, <2>3, <3>2, <4>1
      <4>2. CASE i \notin 1 .. k /\ j \notin 1 .. k
        BY <2>2, <2>5, <3>2, <4>2
      <4>3. CASE i \in 1 .. k /\ j \notin 1 .. k
        BY <2>2, <3>1, <3>2, <4>3
      <4>4. CASE i \notin 1 .. k /\ j \in 1 .. k
        BY <2>2, <3>1, <3>2, <4>4
      <4>. QED  BY <4>1, <4>2, <4>3, <4>4
    <3>. QED  BY <2>2, <3>2
  <2>8. (\E i \in DOMAIN reader'.shown : reader'.shown[i] = a)
           <=> (\E i \in 1 .. k : s[i] = a) \/ (\E i \in 1 .. size : page[i] = a)
    <3>1. \A i \in 1 .. k : i \in 1 .. k + size
      BY <1>5, <2>1 DEF k
    <3>2. \A i \in 1 .. size : k + i \in 1 .. k + size
      BY <1>5, <2>1 DEF k
    <3>. QED  BY <2>2, <3>1, <3>2
  <2>9. ASSUME a \in Review!Approved, Turned(a) PROVE Turned(a)'
    <3>1. CASE ~more
      BY <1>9, <3>1 DEF Turned
    <3>2. CASE more
      <4>1. page[size] \in Review!Approved /\ Review!AfterCursor(page[size])
        BY <1>5, <2>6, <3>2 DEF found
      <4>2. reader.cursor # None /\ review[a].id >= reader.cursor
        BY <1>2, <2>9 DEF Turned
      <4>3. review[page[size]].id < reader.cursor
        BY <4>1, <4>2 DEF Review!AfterCursor
      <4>4. review[a].id \in Nat /\ review[page[size]].id \in Nat /\ reader.cursor \in Nat
        BY <1>6, <1>7, <2>9, <4>1, <4>2
      <4>5. review[a].id >= review[page[size]].id
        BY <4>2, <4>3, <4>4
      <4>6. reader'.cursor = review[page[size]].id /\ reader'.cursor # None
        BY <1>9, <3>2, <4>4, NoneAssumption
      <4>. QED  BY <1>2, <4>5, <4>6 DEF Turned
    <3>. QED  BY <3>1, <3>2
  <2>10. ASSUME NEW i \in 1 .. size, page[i] = a PROVE Turned(a)'
    <3>1. CASE ~more
      BY <1>9, <3>1 DEF Turned
    <3>2. CASE more
      <4>1. page[size] \in Review!Approved /\ a \in Review!Approved
        BY <1>4, <1>5, <2>6, <2>10, <3>2
      <4>2. i = size \/ i < size
        BY <1>5, <2>10
      <4>3. review[a].id >= review[page[size]].id
        BY <1>5, <1>6, <1>10, <1>12, <2>10, <3>2, <4>1, <4>2
      <4>4. reader'.cursor = review[page[size]].id /\ reader'.cursor # None
        BY <1>6, <1>9, <3>2, <4>1, NoneAssumption
      <4>. QED  BY <1>2, <4>3, <4>4 DEF Turned
    <3>. QED  BY <3>1, <3>2
  <2>11. ASSUME a \in found, \A i \in 1 .. size : page[i] # a PROVE ~Turned(a)'
    <3>1. more /\ review[page[size]].id > review[a].id
      BY <1>5, <1>11, <1>12, <2>11
    <3>2. page[size] \in Review!Approved /\ a \in Review!Approved
      BY <1>4, <1>5, <2>11, <3>1
    <3>3. ~(review[a].id >= review[page[size]].id)
      BY <1>6, <3>1, <3>2
    <3>. QED  BY <1>2, <1>9, <3>1, <3>3 DEF Turned
  <2>12. found \subseteq Review!Approved
    BY <1>4
  <2>. QED  BY <2>3, <2>4, <2>6, <2>7, <2>8, <2>9, <2>10, <2>11, <2>12
<1>13. WalkInv'
  <2>1. Review!Approved' = Review!Approved
    BY <1>2 DEF Review!Approved, Review!Written
  <2>. QED  BY <1>2, <1>9, <1>12, <2>1 DEF WalkInv
<1>14. ReviewRows' /\ VisitRows'
  BY <1>1, <1>2 DEF ReviewRows, VisitRows, Review!Written
<1>15. \A a \in Authors \ blind : JudgedAsRead(a)'
  BY <1>2 DEF ReviewInv, JudgedAsRead, About, Review!Approved, Review!Written
<1>. QED  BY <1>2, <1>13, <1>14, <1>15 DEF ReviewInv

LEMMA ReviewSound ==
  ASSUME ReviewInv PROVE Review!PublicWasRead /\ Review!NewestShowsAll
<1>1. Review!PublicWasRead
  BY DEF ReviewInv, JudgedAsRead, Review!PublicWasRead, Review!Approved, Review!Written
<1>2. ASSUME reader.sort = "newest", NEW a \in Authors \ moved
      PROVE  LET times == Cardinality({i \in DOMAIN reader.shown : reader.shown[i] = a})
             IN  times =< 1 /\ (~reader.open => times = IF a \in Review!Approved THEN 1 ELSE 0)
  <2>. DEFINE at == {i \in DOMAIN reader.shown : reader.shown[i] = a}
  <2>1. /\ \A i, j \in at : i = j
        /\ ~reader.open => (at # {} <=> a \in Review!Approved)
    BY <1>2 DEF ReviewInv, WalkInv, Turned
  <2>. HIDE DEF at
  <2>2. CASE at = {}
    BY <2>1, <2>2, FS_EmptySet DEF at
  <2>3. CASE \E i : at = {i}
    <3>1. Cardinality(at) = 1
      BY <2>3, FS_Singleton
    <3>. QED  BY <2>1, <2>3, <3>1 DEF at
  <2>. QED  BY <2>1, <2>2, <2>3
<1>. QED  BY <1>1, <1>2, ReviewCardinality DEF Review!NewestShowsAll

\* A text shown to the public is one that an operator read and approved, unless the judgement
\* was made blind; and newest first, the pages show every approved review that nobody touched
\* once and none twice, whatever is written between two of them (submit, moderate, list_public).
THEOREM ReviewsStaySound == Spec => []ReviewsAreSound
<1>. DEFINE Inv == part = "reviews" => ReviewInv
<1>1. Init => Inv
  BY ReviewInit DEF Init
<1>2. Inv /\ [Next]_vars => Inv'
  <2>. SUFFICES ASSUME Inv, [Next]_vars, part = "reviews" PROVE ReviewInv'
    BY PartStep
  <2>1. CASE ReviewsStep
    <3>1. ASSUME NEW q \in Visits, NEW a \in Authors, NEW r \in Ratings, Review!Begin(q, "submit", a, r, None)
          PROVE  ReviewInv'
      BY <3>1, ReviewBegins
    <3>2. ASSUME NEW q \in Visits, NEW a \in Authors, NEW s \in {"approved", "rejected"},
                 Review!Begin(q, "moderate", a, None, s)
          PROVE  ReviewInv'
      BY <3>2, ReviewBegins
    <3>3. ASSUME NEW q \in Visits, NEW a \in Authors, Review!Begin(q, "delete", a, None, None)
          PROVE  ReviewInv'
      BY <3>3, ReviewBegins
    <3>4. ASSUME NEW q \in Visits,
                 Review!Submit(q) \/ Review!Moderate(q) \/ Review!Delete(q) \/ Review!Fail(q)
          PROVE  ReviewInv'
      BY <3>4, ReviewEnds
    <3>5. CASE Review!LoadScreen
      BY <3>5 DEF Review!LoadScreen, ReviewInv, ReviewRows, VisitRows, WalkInv, JudgedAsRead, About, Turned,
                  Review!Approved, Review!Written
    <3>6. CASE Review!ListPublic
      BY <3>6, ReviewPage
    <3>. QED  BY <2>1, <3>1, <3>2, <3>3, <3>4, <3>5, <3>6 DEF ReviewsStep
  <2>2. CASE UNCHANGED reviews
    BY <2>2 DEF reviews, ReviewInv, ReviewRows, VisitRows, WalkInv, JudgedAsRead, About, Turned,
                Review!Approved, Review!Written
  <2>. QED  BY <2>1, <2>2, PartStep
<1>3. Inv => ReviewsAreSound
  BY ReviewSound DEF ReviewsAreSound
<1>. QED  BY <1>1, <1>2, <1>3, PTL DEF Spec

-----------------------------------------------------------------------------
\* Pictures

Shown == Picture!Rows(gallery) \cup given
Uploads(h) == request[h].op \in {"media", "asset"}
Named(h) == request[h].op \in {"media", "asset", "delete"}
Flushed(r) == r.stage \in {"cards", "wait", "rebuild"}

\* What a request on pictures holds: a name of its own that nobody shows yet, a name to
\* delete, or an order of the gallery it has seen; and once flushed the rows it locks; k names are taken.
PictureJob(r, k) ==
  /\ DOMAIN r = {"op", "name", "todo", "order", "seen", "rows", "stage", "rev"}
  /\ \/ r = Picture!Idle
     \/ r.op = "media" /\ (r.stage = "store" \/ Flushed(r))
     \/ r.op = "asset" /\ r.stage = "store"
     \/ r.op = "delete" /\ (r.stage \in {"row", "remove"} \/ Flushed(r))
     \/ r.op = "reorder" /\ (r.stage = "row" \/ Flushed(r))
  /\ r.op \in {"media", "asset"} => r.name \in Old + 1 .. k /\ r.name \notin Shown
  /\ r.op = "delete" =>
       r.name \in (1 .. k) \ given /\ (r.stage = "remove" => gallery[r.name] = None)
  /\ r.op = "reorder" => /\ r.name = None /\ DOMAIN r.order \subseteq Nat \ {0}
                         /\ \A i, j \in DOMAIN r.order : r.order[i] = r.order[j] => i = j
                         /\ {r.order[i] : i \in DOMAIN r.order} = Picture!Rows(r.seen)
  /\ r.stage # "store" => r.todo = <<>>
  /\ ~Flushed(r) => r.rows = {}
  /\ Flushed(r) => /\ r.op = "reorder" => r.rows = Picture!Moved(r) /\ r.rows \subseteq Picture!Rows(gallery)
                   /\ r.op # "reorder" => r.rows = {r.name}
                   /\ r.op = "media" => r.order \in Nat

GalleryInv ==
  /\ gallery \in [Picture!Names -> Nat \cup {None}]
  /\ names \in Old .. MaxNames /\ Shown \subseteq 1 .. names /\ Picture!Rows(gallery) \cap given = {}
  /\ DOMAIN request = Hands
  /\ \A h \in Hands : PictureJob(request[h], names)
  /\ \A h, x \in Hands : h # x =>
       /\ request[h].rows \cap request[x].rows = {}
       /\ Uploads(h) /\ Named(x) => request[h].name # request[x].name

\* A name has one original, and its copies were made from it.
StoreInv ==
  /\ \A o \in stored : o.name \in 1 .. names
  /\ \A o, p \in stored : o.name = p.name /\ o.width = 0 =>
       /\ p.width = 0 => o = p
       /\ p.width # 0 => p.pixels = Picture!Min({p.width, o.pixels})

\* What an upload has yet to put, and what it has put.
Progress(r) ==
  /\ r.todo = <<>> => Picture!Whole(r.name)
  /\ r.todo # <<>> => \E f \in Files :
       LET original == [name |-> r.name, width |-> 0, pixels |-> f.width]
           copies == Picture!FixedWebpSet(r.name, f.width)
       IN  \/ r.todo = <<{original}, copies>> /\ \A o \in stored : o.name # r.name
           \/ r.todo = <<copies>> /\ original \in stored

\* What is shown is whole, and so are the pictures a script without a failure passed.
WholeInv ==
  /\ \A n \in Shown : Picture!Original(n) # {} /\ (n > Old => Picture!Whole(n))
  /\ DOMAIN backfill = {"todo", "failed", "listed", "stage"}
  /\ backfill.stage # "idle" /\ ~backfill.failed =>
       \A n \in (backfill.listed \ backfill.todo) \cap Picture!Rows(gallery) : Picture!Whole(n)
  /\ backfill.stage = "done" => backfill.todo = {} /\ ~backfill.failed

\* As long as no gallery requests overlap, each sees the gallery there is.
OrderInv ==
  /\ crossed \in BOOLEAN
  /\ ~crossed =>
       /\ \A m, n \in Picture!Rows(gallery) : gallery[m] = gallery[n] => m = n
       /\ \A h \in Hands : request[h].stage \notin {"idle", "remove"} =>
            /\ request[h].seen = gallery
            /\ request[h].op = "media" /\ Flushed(request[h]) =>
                 \A n \in Picture!Rows(gallery) : gallery[n] < request[h].order

Leftovers ==
  {o \in stored :
     o.width = 0 /\ o.name \notin Picture!Rows(gallery) \cup given \cup {request[h].name : h \in Hands}}
LeftInv == faults \in Nat /\ IsFiniteSet(Leftovers) /\ Cardinality(Leftovers) =< faults

Made == StoreInv /\ WholeInv /\ \A h \in Hands : Uploads(h) => Progress(request[h])

PictureInv ==
  /\ GalleryInv /\ Made /\ OrderInv /\ LeftInv /\ cover = Picture!MainOf(gallery)

\* The least of some numbers.
LEMMA LeastOf ==
  ASSUME NEW S \in SUBSET Nat, S # {}
  PROVE  \E m \in S : \A x \in S : m =< x
<1>1. PICK m \in S : \A x \in S : <<x, m>> \notin OpToRel(<, Nat)
  BY NatLessThanWellFounded, WFMin, Zenon
<1>2. \A x \in S : ~(x < m)
  BY <1>1 DEF OpToRel
<1>. QED  BY <1>2

\* The greatest of finitely many numbers.
LEMMA GreatestOf ==
  ASSUME NEW S \in SUBSET Int, IsFiniteSet(S), S # {}
  PROVE  \E m \in S : \A x \in S : m >= x
<1>. DEFINE Headless(T) == T # {} /\ \A m \in T : \E x \in T : ~(m >= x)
            sizes == {k \in Nat : \E T \in SUBSET S : Headless(T) /\ Cardinality(T) = k}
<1>1. \A T \in SUBSET S : IsFiniteSet(T) /\ Cardinality(T) \in Nat
  BY FS_Subset, FS_CardinalityType
<1>2. SUFFICES ASSUME Headless(S) PROVE FALSE
  OBVIOUS
<1>3. sizes # {}
  <2>. HIDE DEF Headless
  <2>. QED  BY <1>1, <1>2
<1>4. PICK k \in sizes : \A l \in sizes : k =< l
  BY <1>3, LeastOf
<1>5. PICK T \in SUBSET S : Headless(T) /\ Cardinality(T) = k
  BY <1>4
<1>6. PICK a \in T : TRUE
  BY <1>5
<1>7. Cardinality(T \ {a}) = k - 1 /\ k \in Nat
  BY <1>1, <1>5, <1>6, FS_RemoveElement
<1>8. ~Headless(T \ {a})
  <2>. HIDE DEF Headless
  <2>1. T \ {a} \in SUBSET S
    OBVIOUS
  <2>2. ASSUME Headless(T \ {a}) PROVE FALSE
    <3>1. k - 1 \in Nat
      BY <1>1, <1>7, <2>1
    <3>2. k - 1 \in sizes
      BY <1>7, <2>1, <2>2, <3>1
    <3>. QED  BY <1>4, <1>7, <3>2
  <2>. QED  BY <2>2
<1>9. CASE T \ {a} = {}
  <2>1. T = {a} /\ a \in Int
    BY <1>6, <1>9
  <2>. QED  BY <1>5, <2>1
<1>10. CASE T \ {a} # {}
  <2>1. PICK b \in T \ {a} : \A x \in T \ {a} : b >= x
    BY <1>8, <1>10
  <2>2. a \in Int /\ b \in Int /\ \A x \in T : x \in Int
    BY <1>6, <2>1
  <2>3. (\A x \in T : a >= x) \/ (\A x \in T : b >= x)
    BY <2>1, <2>2
  <2>. QED  BY <1>5, <1>6, <2>1, <2>3
<1>. QED  BY <1>9, <1>10

\* Positions of finitely many pictures have a greatest.
LEMMA NextPositionIs ==
  ASSUME gallery \in [Picture!Names -> Nat \cup {None}]
  PROVE  /\ Picture!NextPosition \in Nat
         /\ \A n \in Picture!Rows(gallery) : gallery[n] < Picture!NextPosition
<1>. DEFINE R == Picture!Rows(gallery)
            P == {gallery[n] : n \in R}
            S == {-1} \cup P
<1>1. R \subseteq 1 .. MaxNames /\ \A n \in R : gallery[n] \in Nat
  BY DEF Picture!Rows, Picture!Names
<1>2. IsFiniteSet(R)
  <2>1. IsFiniteSet(1 .. MaxNames)
    BY PicturesAssumption, FS_Interval
  <2>. QED  BY <1>1, <2>1, FS_Subset
<1>3. IsFiniteSet(P)
  <2>. DEFINE f == [n \in R |-> gallery[n]]
  <2>1. f \in Surjection(R, P)
    BY DEF Surjection
  <2>. HIDE DEF R, P, f
  <2>. QED  BY <1>2, <2>1, FS_Surjection
<1>4. IsFiniteSet(S) /\ S \subseteq Int /\ S # {}
  <2>1. IsFiniteSet(P \cup {-1}) /\ S = P \cup {-1}
    BY <1>3, FS_AddElement
  <2>. QED  BY <1>1, <2>1
<1>5. \E m \in S : \A x \in S : m >= x
  <2>. HIDE DEF S
  <2>. QED  BY <1>4, GreatestOf
<1>. DEFINE top == Picture!Max(S)
<1>6. top \in S /\ \A x \in S : top >= x
  <2>. HIDE DEF S
  <2>. QED  BY <1>5 DEF Picture!Max
<1>7. Picture!NextPosition = top + 1
  BY DEF Picture!NextPosition
<1>8. top \in Int /\ top >= -1
  BY <1>4, <1>6
<1>. HIDE DEF top
<1>. QED  BY <1>1, <1>6, <1>7, <1>8

\* The first picture: no other is before it.
LEMMA MainIsFirst ==
  ASSUME NEW g \in [Picture!Names -> Nat \cup {None}], Picture!Rows(g) # {}
  PROVE  /\ Picture!MainOf(g) \in Picture!Rows(g)
         /\ \A n \in Picture!Rows(g) :
              /\ g[n] >= g[Picture!MainOf(g)]
              /\ g[n] = g[Picture!MainOf(g)] => n >= Picture!MainOf(g)
<1>. DEFINE R == Picture!Rows(g)
            P == {g[n] : n \in R}
<1>1. R \subseteq Nat /\ R # {} /\ \A n \in R : g[n] \in Nat
  BY PicturesAssumption DEF Picture!Rows, Picture!Names
<1>2. P \subseteq Nat /\ P # {}
  BY <1>1
<1>3. PICK a \in R : \A n \in R : g[a] =< g[n]
  <2>1. PICK p \in P : \A x \in P : p =< x
    BY <1>2, LeastOf
  <2>. QED  BY <2>1
<1>. DEFINE F == {n \in R : g[n] = g[a]}
<1>4. F \subseteq Nat /\ F # {}
  BY <1>1, <1>3
<1>5. PICK b \in F : \A n \in F : b =< n
  BY <1>4, LeastOf
<1>6. b \in R /\ \A x \in R : g[b] < g[x] \/ (g[b] = g[x] /\ b =< x)
  BY <1>1, <1>3, <1>5
<1>. DEFINE main == Picture!MainOf(g)
<1>7. main \in R /\ \A x \in R : g[main] < g[x] \/ (g[main] = g[x] /\ main =< x)
  BY <1>6 DEF Picture!MainOf
<1>. HIDE DEF main
<1>8. \A x \in R : g[x] >= g[main] /\ (g[x] = g[main] => x >= main)
  BY <1>1, <1>7
<1>. QED  BY <1>7, <1>8 DEF main

LEMMA PictureInit ==
  ASSUME Picture!Init PROVE PictureInv
<1>1. /\ gallery = [n \in Picture!Names |-> IF n =< Old THEN n - 1 ELSE None]
      /\ stored = {[name |-> n, width |-> 0, pixels |-> OldWidth] : n \in 1 .. Old}
      /\ cover = Picture!MainOf(gallery) /\ request = [h \in Hands |-> Picture!Idle]
      /\ names = Old /\ given = {} /\ faults = 0 /\ crossed = FALSE
      /\ backfill = [todo |-> {}, failed |-> FALSE, listed |-> {}, stage |-> "idle"]
  BY DEF Picture!Init
<1>2. /\ gallery \in [Picture!Names -> Nat \cup {None}]
      /\ Picture!Rows(gallery) = 1 .. Old
      /\ \A n \in 1 .. Old : gallery[n] = n - 1
  <2>1. \A n \in 1 .. Old : n \in Picture!Names /\ gallery[n] = n - 1 /\ n - 1 \in Nat
    BY <1>1, PicturesAssumption DEF Picture!Names
  <2>2. \A n \in Picture!Names : n \notin 1 .. Old => gallery[n] = None
    BY <1>1, PicturesAssumption DEF Picture!Names
  <2>3. gallery \in [Picture!Names -> Nat \cup {None}]
    <3>1. gallery = [n \in Picture!Names |-> gallery[n]]
      BY <1>1
    <3>. QED  BY <2>1, <2>2, <3>1
  <2>. QED  BY <2>1, <2>2, <2>3, NoneAssumption DEF Picture!Rows
<1>3. \A h \in Hands : request[h] = Picture!Idle
  BY <1>1
<1>4. /\ PictureJob(Picture!Idle, names) /\ Picture!Idle.op = "none"
      /\ Picture!Idle.rows = {} /\ Picture!Idle.stage = "idle"
  BY DEF PictureJob, Picture!Idle, Flushed
<1>5. GalleryInv
  <2>1. Shown = 1 .. names /\ Picture!Rows(gallery) \cap given = {} /\ names \in Old .. MaxNames
    <3>1. names = Old /\ given = {}
      BY <1>1
    <3>2. Old \in Old .. MaxNames
      BY PicturesAssumption
    <3>. QED  BY <1>2, <3>1, <3>2 DEF Shown
  <2>2. DOMAIN request = Hands
    BY <1>1
  <2>. QED  BY <1>2, <1>3, <1>4, <2>1, <2>2 DEF GalleryInv, Uploads
<1>6. ASSUME NEW o \in stored
      PROVE  o.name \in 1 .. Old /\ o = [name |-> o.name, width |-> 0, pixels |-> OldWidth]
  BY <1>1, <1>6
<1>7. StoreInv
  BY <1>1, <1>6 DEF StoreInv
<1>8. \A h \in Hands : ~Uploads(h)
  BY <1>3, <1>4 DEF Uploads
<1>9. WholeInv
  <2>1. ASSUME NEW n \in Shown PROVE Picture!Original(n) # {} /\ ~(n > Old)
    <3>1. n \in 1 .. Old
      BY <1>1, <1>2, <2>1 DEF Shown
    <3>2. [name |-> n, width |-> 0, pixels |-> OldWidth] \in stored
      BY <1>1, <3>1
    <3>. QED  BY <3>1, <3>2, PicturesAssumption DEF Picture!Original
  <2>. QED  BY <1>1, <2>1 DEF WholeInv
<1>10. OrderInv
  <2>1. \A m, n \in Picture!Rows(gallery) : gallery[m] = gallery[n] => m = n
    BY <1>2, PicturesAssumption
  <2>2. \A h \in Hands : request[h].stage = "idle"
    BY <1>3, <1>4
  <2>3. crossed = FALSE
    BY <1>1
  <2>. QED  BY <2>1, <2>2, <2>3 DEF OrderInv
<1>11. LeftInv
  <2>1. Leftovers = {}
    BY <1>2, <1>6 DEF Leftovers
  <2>. QED  BY <1>1, <2>1, FS_EmptySet DEF LeftInv
<1>. QED  BY <1>1, <1>5, <1>7, <1>8, <1>9, <1>10, <1>11 DEF PictureInv, Made

\* One request moves on, or begins, or ends.
LEMMA JobMoves ==
  ASSUME GalleryInv, NEW h \in Hands, NEW new, NEW k \in names .. MaxNames, PictureJob(new, k),
         request' = [request EXCEPT ![h] = new], names' = k, UNCHANGED <<gallery, given>>,
         \A x \in Hands \ {h} :
           /\ request[x].rows \cap new.rows = {}
           /\ Uploads(x) /\ new.op \in {"media", "asset", "delete"} => request[x].name # new.name
           /\ Named(x) /\ new.op \in {"media", "asset"} => request[x].name # new.name
  PROVE  GalleryInv'
<1>1. \A x \in Hands \ {h} : request'[x] = request[x]
  BY DEF GalleryInv
<1>2. request'[h] = new /\ DOMAIN request' = Hands
  BY DEF GalleryInv
<1>3. Shown' = Shown /\ Picture!Rows(gallery)' = Picture!Rows(gallery)
  BY DEF Shown
<1>4. names \in Old .. MaxNames /\ k \in Old .. MaxNames /\ Shown \subseteq 1 .. names
      /\ 1 .. names \subseteq 1 .. k /\ Old + 1 .. names \subseteq Old + 1 .. k
  BY PicturesAssumption DEF GalleryInv
<1>5. \A r : PictureJob(r, names) => PictureJob(r, k)
  BY <1>4 DEF PictureJob
<1>6. ASSUME NEW r, PictureJob(r, k) PROVE PictureJob(r, k)'
  BY <1>3, <1>6 DEF PictureJob
<1>7. ASSUME NEW x \in Hands PROVE PictureJob(request[x], names)'
  <2>1. CASE x = h
    <3>1. PictureJob(new, k)'
      BY <1>6
    <3>. QED  BY <1>2, <2>1, <3>1
  <2>2. CASE x # h
    <3>1. PICK r : r = request[x]
      OBVIOUS
    <3>2. PictureJob(r, k)
      BY <1>5, <3>1 DEF GalleryInv
    <3>3. PictureJob(r, k)'
      BY <1>6, <3>2
    <3>. QED  BY <1>1, <2>2, <3>1, <3>3
  <2>. QED  BY <2>1, <2>2
<1>8. ASSUME NEW x \in Hands, NEW y \in Hands, x # y
      PROVE  /\ request'[x].rows \cap request'[y].rows = {}
             /\ Uploads(x)' /\ Named(y)' => request'[x].name # request'[y].name
  <2>1. CASE x # h /\ y # h
    BY <1>1, <1>8, <2>1 DEF GalleryInv, Uploads, Named
  <2>2. CASE x = h /\ y # h
    BY <1>1, <1>2, <1>8, <2>2 DEF Uploads, Named
  <2>3. CASE x # h /\ y = h
    BY <1>1, <1>2, <1>8, <2>3 DEF Uploads, Named
  <2>. QED  BY <1>8, <2>1, <2>2, <2>3
<1>9. /\ gallery' \in [Picture!Names -> Nat \cup {None}]
      /\ names' \in Old .. MaxNames /\ Shown' \subseteq 1 .. names'
      /\ Picture!Rows(gallery)' \cap given' = {}
  BY <1>3, <1>4 DEF GalleryInv
<1>. QED  BY <1>2, <1>7, <1>8, <1>9 DEF GalleryInv

LEMMA IdleIsFree ==
  /\ PictureJob(Picture!Idle, names) /\ ~Flushed(Picture!Idle)
  /\ Picture!Idle.op = "none" /\ Picture!Idle.rows = {} /\ Picture!Idle.stage = "idle"
  /\ Picture!Idle.name = None
BY DEF PictureJob, Picture!Idle, Flushed

\* A request that goes on keeps its name.
LEMMA JobGoesOn ==
  ASSUME GalleryInv, NEW h \in Hands, NEW new, PictureJob(new, names),
         new.op = request[h].op, new.name = request[h].name,
         \A x \in Hands \ {h} : request[x].rows \cap new.rows = {},
         request' = [request EXCEPT ![h] = new], UNCHANGED <<gallery, names, given>>
  PROVE  GalleryInv'
<1>1. ASSUME NEW x \in Hands \ {h}
      PROVE  /\ Uploads(x) /\ new.op \in {"media", "asset", "delete"} => request[x].name # new.name
             /\ Named(x) /\ new.op \in {"media", "asset"} => request[x].name # new.name
  BY <1>1 DEF GalleryInv, Uploads, Named
<1>2. names \in names .. MaxNames
  BY PicturesAssumption DEF GalleryInv
<1>. QED  BY <1>1, <1>2, JobMoves

LEMMA JobIsOver ==
  ASSUME GalleryInv, NEW h \in Hands, request' = [request EXCEPT ![h] = Picture!Idle],
         UNCHANGED <<gallery, names, given>>
  PROVE  GalleryInv'
<1>. DEFINE new == Picture!Idle
<1>1. PictureJob(new, names) /\ new.rows = {} /\ new.op = "none"
  BY IdleIsFree
<1>2. names \in names .. MaxNames
  BY PicturesAssumption DEF GalleryInv
<1>3. request' = [request EXCEPT ![h] = new]
  OBVIOUS
<1>. HIDE DEF new
<1>. QED  BY <1>1, <1>2, <1>3, JobMoves

\* An upload takes a name that nobody has.
LEMMA UploadBegins ==
  ASSUME GalleryInv, NEW h \in Hands, NEW op \in {"media", "asset"}, NEW f \in Files,
         Picture!BeginUpload(h, op, f)
  PROVE  GalleryInv'
<1>. DEFINE n == names + 1
            new == [op |-> op, name |-> n,
                    todo |-> <<{[name |-> n, width |-> 0, pixels |-> f.width]},
                              Picture!FixedWebpSet(n, f.width)>>,
                    order |-> None, seen |-> gallery, rows |-> {}, stage |-> "store", rev |-> None]
<1>1. /\ names < MaxNames /\ names' = n /\ request' = [request EXCEPT ![h] = new]
      /\ gallery' = gallery /\ given' = given
  BY DEF Picture!BeginUpload, Picture!Start
<1>2. names \in Old .. MaxNames /\ Shown \subseteq 1 .. names
      /\ n \in names .. MaxNames /\ n \in Old + 1 .. n /\ n \notin 1 .. names
  BY <1>1, PicturesAssumption DEF GalleryInv
<1>3. PictureJob(new, n)
  BY <1>2 DEF PictureJob, Flushed
<1>4. new.rows = {} /\ new.name = n
  OBVIOUS
<1>5. ASSUME NEW x \in Hands, Named(x) PROVE request[x].name # n
  <2>1. Old + 1 .. names \subseteq 1 .. names
    BY <1>2, PicturesAssumption
  <2>. QED  BY <1>2, <1>5, <2>1 DEF GalleryInv, PictureJob, Named
<1>6. \A x \in Hands : Uploads(x) => Named(x)
  BY DEF Uploads, Named
<1>. HIDE DEF new, n
<1>7. ASSUME NEW x \in Hands \ {h}
      PROVE  /\ request[x].rows \cap new.rows = {}
             /\ Uploads(x) /\ new.op \in {"media", "asset", "delete"} => request[x].name # new.name
             /\ Named(x) /\ new.op \in {"media", "asset"} => request[x].name # new.name
  BY <1>4, <1>5, <1>6
<1>8. UNCHANGED <<gallery, given>>
  BY <1>1
<1>. QED  BY <1>1, <1>2, <1>3, <1>7, <1>8, JobMoves

\* A deletion names a picture of the gallery, which no upload is about to add.
LEMMA RemovalBegins ==
  ASSUME GalleryInv, NEW h \in Hands, NEW n \in Picture!Names, Picture!BeginDelete(h, n)
  PROVE  GalleryInv'
<1>. DEFINE new == [op |-> "delete", name |-> n, todo |-> <<>>, order |-> None, seen |-> gallery,
                    rows |-> {}, stage |-> "row", rev |-> None]
<1>1. /\ gallery[n] # None /\ request' = [request EXCEPT ![h] = new]
      /\ UNCHANGED <<gallery, names, given>>
  BY DEF Picture!BeginDelete, Picture!Start
<1>2. n \in Picture!Rows(gallery) /\ n \in Shown
  BY <1>1 DEF Shown, Picture!Rows
<1>3. n \in (1 .. names) \ given /\ names \in names .. MaxNames
  BY <1>2, PicturesAssumption DEF GalleryInv, Shown
<1>4. PictureJob(new, names)
  BY <1>3 DEF PictureJob, Flushed
<1>5. new.rows = {} /\ new.name = n /\ new.op = "delete"
  OBVIOUS
<1>6. \A x \in Hands : Uploads(x) => request[x].name # n
  BY <1>2 DEF GalleryInv, PictureJob, Uploads
<1>. HIDE DEF new
<1>. QED  BY <1>1, <1>3, <1>4, <1>5, <1>6, JobMoves

\* An order lists the gallery.
LEMMA OrderBegins ==
  ASSUME GalleryInv, NEW h \in Hands, NEW order \in Picture!Arrangements(Picture!Rows(gallery)),
         Picture!BeginReorder(h, order)
  PROVE  GalleryInv'
<1>. DEFINE new == [op |-> "reorder", name |-> None, todo |-> <<>>, order |-> order, seen |-> gallery,
                    rows |-> {}, stage |-> "row", rev |-> None]
<1>1. /\ request' = [request EXCEPT ![h] = new]
      /\ UNCHANGED <<gallery, names, given>>
      /\ \A i, j \in DOMAIN order : order[i] = order[j] => i = j
      /\ {order[i] : i \in DOMAIN order} = Picture!Rows(gallery)
  BY DEF Picture!BeginReorder, Picture!Start, Picture!IsInjective, Picture!Range
<1>2. DOMAIN order \subseteq Nat \ {0}
  <2>1. DOMAIN order = 1 .. Picture!Cardinality(Picture!Rows(gallery))
    BY DEF Picture!Arrangements, Picture!IsInjective
  <2>. QED  BY <2>1
<1>3. PictureJob(new, names)
  BY <1>1, <1>2 DEF PictureJob, Flushed
<1>4. names \in names .. MaxNames
  BY PicturesAssumption DEF GalleryInv
<1>5. new.rows = {} /\ new.op = "reorder"
  OBVIOUS
<1>. HIDE DEF new
<1>. QED  BY <1>1, <1>3, <1>4, <1>5, JobMoves

\* A request's statements before its commit.
LEMMA JobWorks ==
  ASSUME GalleryInv, NEW h \in Hands,
         Picture!PutObjects(h) \/ Picture!Flush(h) \/ Picture!ClearCards(h) \/ Picture!Resume(h)
  PROVE  GalleryInv'
<1>. DEFINE r == request[h]
<1>1. PictureJob(r, names) /\ DOMAIN request = Hands
  BY DEF GalleryInv
<1>2. DOMAIN r = {"op", "name", "todo", "order", "seen", "rows", "stage", "rev"}
  BY <1>1 DEF PictureJob
<1>3. CASE Picture!PutObjects(h)
  <2>. DEFINE new == [r EXCEPT !.todo = Tail(@)]
  <2>1. r.stage = "store" /\ request' = [request EXCEPT ![h] = new] /\ UNCHANGED <<gallery, names, given>>
    BY <1>1, <1>3 DEF Picture!PutObjects, Picture!In
  <2>2. /\ DOMAIN new = DOMAIN r
        /\ new.op = r.op /\ new.name = r.name /\ new.order = r.order /\ new.seen = r.seen
        /\ new.rows = r.rows /\ new.stage = r.stage
    BY <1>2
  <2>. HIDE DEF new
  <2>3. PictureJob(new, names)
    BY <1>1, <1>2, <2>1, <2>2 DEF PictureJob, Flushed, Picture!Idle
  <2>4. \A x \in Hands \ {h} : request[x].rows \cap new.rows = {}
    BY <2>2 DEF GalleryInv
  <2>. QED  BY <2>1, <2>2, <2>3, <2>4, JobGoesOn
<1>4. CASE Picture!Flush(h)
  <2>. DEFINE rows0 == IF r.op = "reorder" THEN Picture!Moved(r) ELSE {r.name}
              order0 == IF r.op = "media" THEN Picture!NextPosition ELSE r.order
              new == [r EXCEPT !.rows = rows0, !.stage = "cards", !.order = order0]
  <2>1. /\ r.stage = "row" \/ (r.stage = "store" /\ r.todo = <<>> /\ r.op = "media")
        /\ \A x \in Hands \ {h} : request[x].rows \cap rows0 = {}
        /\ r.op = "reorder" => rows0 \subseteq Picture!Rows(gallery)
        /\ request' = [request EXCEPT ![h] = new] /\ UNCHANGED <<gallery, names, given>>
    BY <1>1, <1>2, <1>4 DEF Picture!Flush, Picture!In
  <2>2. /\ DOMAIN new = DOMAIN r
        /\ new.op = r.op /\ new.name = r.name /\ new.order = order0 /\ new.seen = r.seen
        /\ new.rows = rows0 /\ new.stage = "cards" /\ new.todo = r.todo
    BY <1>2
  <2>3. r.op = "reorder" => Picture!Moved(new) = Picture!Moved(r)
    BY <2>2 DEF Picture!Moved
  <2>4. r.op = "media" => order0 \in Nat
    BY NextPositionIs DEF GalleryInv
  <2>5. r.op = "media" \/ order0 = r.order
    OBVIOUS
  <2>6. (r.op = "reorder" => rows0 = Picture!Moved(r)) /\ (r.op # "reorder" => rows0 = {r.name})
    OBVIOUS
  <2>. HIDE DEF new, rows0, order0
  <2>7. PictureJob(new, names)
    <3>1. r.todo = <<>> /\ r # Picture!Idle
      BY <1>1, <2>1 DEF PictureJob, Picture!Idle
    <3>. QED  BY <1>1, <1>2, <2>1, <2>2, <2>3, <2>4, <2>5, <2>6, <3>1 DEF PictureJob, Flushed
  <2>. QED  BY <2>1, <2>2, <2>7, JobGoesOn
<1>5. CASE Picture!ClearCards(h) \/ Picture!Resume(h)
  <2>1. PICK stage \in {"wait", "rebuild"}, rev \in {cardRev, r.rev} :
          /\ request' = [request EXCEPT ![h] = [r EXCEPT !.rev = rev, !.stage = stage]]
          /\ Flushed(r) /\ UNCHANGED <<gallery, names, given>>
    <3>1. CASE Picture!ClearCards(h)
      <4>1. PICK at \in {"wait", "rebuild"} : request' = [request EXCEPT ![h].rev = cardRev, ![h].stage = at]
        BY <3>1 DEF Picture!ClearCards
      <4>2. request' = [request EXCEPT ![h] = [r EXCEPT !.rev = cardRev, !.stage = at]]
        BY <4>1
      <4>3. Flushed(r) /\ UNCHANGED <<gallery, names, given>>
        BY <1>1, <3>1 DEF Picture!ClearCards, Flushed, Picture!In
      <4>. QED  BY <4>2, <4>3
    <3>2. CASE Picture!Resume(h)
      <4>1. request' = [request EXCEPT ![h].stage = "rebuild"]
        BY <3>2 DEF Picture!Resume
      <4>2. [r EXCEPT !.rev = r.rev, !.stage = "rebuild"] = [r EXCEPT !.stage = "rebuild"]
        BY <1>2
      <4>3. Flushed(r) /\ UNCHANGED <<gallery, names, given>>
        BY <1>1, <3>2 DEF Picture!Resume, Flushed, Picture!In
      <4>4. request' = [request EXCEPT ![h] = [r EXCEPT !.rev = r.rev, !.stage = "rebuild"]]
        BY <4>1, <4>2
      <4>. QED  BY <4>3, <4>4
    <3>. QED  BY <1>5, <3>1, <3>2
  <2>. DEFINE new == [r EXCEPT !.rev = rev, !.stage = stage]
  <2>2. /\ DOMAIN new = DOMAIN r
        /\ new.op = r.op /\ new.name = r.name /\ new.order = r.order /\ new.seen = r.seen
        /\ new.rows = r.rows /\ new.stage = stage /\ new.todo = r.todo
    BY <1>2
  <2>. HIDE DEF new
  <2>3. Picture!Moved(new) = Picture!Moved(r)
    BY <2>2 DEF Picture!Moved
  <2>4. PictureJob(new, names)
    BY <1>1, <1>2, <2>1, <2>2, <2>3, IdleIsFree DEF PictureJob, Flushed
  <2>5. \A x \in Hands \ {h} : request[x].rows \cap new.rows = {}
    BY <2>2 DEF GalleryInv
  <2>6. request' = [request EXCEPT ![h] = new]
    BY <2>1 DEF new
  <2>. QED  BY <2>1, <2>2, <2>4, <2>5, <2>6, JobGoesOn
<1>. QED  BY <1>3, <1>4, <1>5

\* The gallery a commit leaves: its own rows written, the others as they were.
LEMMA GalleryLeft ==
  ASSUME GalleryInv, NEW h \in Hands, request[h].stage = "rebuild"
  PROVE  LET r == request[h]
             g == Picture!GalleryAfter(r)
         IN  /\ g \in [Picture!Names -> Nat \cup {None}]
             /\ \A n \in Picture!Names \ r.rows : g[n] = gallery[n]
             /\ r.op = "media" => /\ g[r.name] = r.order /\ r.rows = {r.name}
                                  /\ Picture!Rows(g) = Picture!Rows(gallery) \cup {r.name}
             /\ r.op = "delete" => /\ g[r.name] = None /\ r.rows = {r.name}
                                   /\ Picture!Rows(g) = Picture!Rows(gallery) \ {r.name}
             /\ r.op = "reorder" => /\ Picture!Rows(g) = Picture!Rows(gallery)
                                    /\ \A n \in r.rows : \E i \in DOMAIN r.order : r.order[i] = n /\ g[n] = i - 1
             /\ r.op \in {"media", "delete", "reorder"}
<1>. DEFINE r == request[h]
            g == Picture!GalleryAfter(r)
<1>1. /\ PictureJob(r, names) /\ Flushed(r) /\ r # Picture!Idle
      /\ r.op \in {"media", "delete", "reorder"}
  BY IdleIsFree DEF GalleryInv, PictureJob, Flushed
<1>2. gallery \in [Picture!Names -> Nat \cup {None}] /\ 1 .. names \subseteq Picture!Names
      /\ Old + 1 .. names \subseteq Picture!Names
  BY PicturesAssumption DEF GalleryInv, Picture!Names
<1>3. g = [n \in Picture!Names |->
             IF n \notin r.rows THEN gallery[n]
             ELSE CASE r.op = "media" -> r.order
                    [] r.op = "delete" -> None
                    [] OTHER -> (CHOOSE i \in DOMAIN r.order : r.order[i] = n) - 1]
  BY DEF Picture!GalleryAfter
<1>4. \A n \in Picture!Names \ r.rows : g[n] = gallery[n] /\ g[n] \in Nat \cup {None}
  BY <1>2, <1>3
<1>5. CASE r.op = "media"
  <2>1. r.rows = {r.name} /\ r.order \in Nat /\ r.name \in Picture!Names
    BY <1>1, <1>2, <1>5 DEF PictureJob
  <2>2. g[r.name] = r.order
    BY <1>3, <1>5, <2>1
  <2>3. g \in [Picture!Names -> Nat \cup {None}]
    BY <1>3, <1>4, <2>1, <2>2
  <2>4. Picture!Rows(g) = Picture!Rows(gallery) \cup {r.name}
    BY <1>4, <2>1, <2>2, NoneAssumption DEF Picture!Rows
  <2>. QED  BY <1>1, <1>4, <1>5, <2>1, <2>2, <2>3, <2>4
<1>6. CASE r.op = "delete"
  <2>1. r.rows = {r.name} /\ r.name \in Picture!Names
    BY <1>1, <1>2, <1>6 DEF PictureJob
  <2>2. g[r.name] = None
    BY <1>3, <1>6, <2>1
  <2>3. g \in [Picture!Names -> Nat \cup {None}]
    BY <1>3, <1>4, <2>1, <2>2
  <2>4. Picture!Rows(g) = Picture!Rows(gallery) \ {r.name}
    BY <1>4, <2>1, <2>2 DEF Picture!Rows
  <2>. QED  BY <1>1, <1>4, <1>6, <2>1, <2>2, <2>3, <2>4
<1>7. CASE r.op = "reorder"
  <2>1. /\ r.rows = Picture!Moved(r) /\ r.rows \subseteq Picture!Rows(gallery)
        /\ DOMAIN r.order \subseteq Nat \ {0}
    BY <1>1, <1>7 DEF PictureJob
  <2>2. r.rows \subseteq Picture!Names
    BY <2>1 DEF Picture!Rows
  <2>3. ASSUME NEW n \in r.rows PROVE \E i \in DOMAIN r.order : r.order[i] = n /\ g[n] = i - 1
    <3>1. \E i \in DOMAIN r.order : r.order[i] = n
      BY <2>1, <2>3 DEF Picture!Moved
    <3>2. g[n] = (CHOOSE i \in DOMAIN r.order : r.order[i] = n) - 1
      BY <1>3, <1>7, <2>2, <2>3
    <3>. QED  BY <3>1, <3>2
  <2>4. \A n \in r.rows : g[n] \in Nat
    BY <2>1, <2>3
  <2>5. g \in [Picture!Names -> Nat \cup {None}]
    BY <1>3, <1>4, <2>2, <2>4
  <2>6. Picture!Rows(g) = Picture!Rows(gallery)
    BY <1>4, <2>1, <2>2, <2>4, NoneAssumption DEF Picture!Rows
  <2>. QED  BY <1>1, <1>4, <1>7, <2>3, <2>5, <2>6
<1>. QED  BY <1>1, <1>5, <1>6, <1>7

\* A commit disturbs no other request.
LEMMA CommitKeeps ==
  ASSUME GalleryInv, NEW h \in Hands, Picture!Commit(h)
  PROVE  GalleryInv'
<1>. DEFINE r == request[h]
            g == Picture!GalleryAfter(r)
            new == IF r.op = "delete" THEN [r EXCEPT !.stage = "remove", !.rows = {}] ELSE Picture!Idle
<1>1. /\ r.stage = "rebuild" /\ gallery' = g /\ request' = [request EXCEPT ![h] = new]
      /\ names' = names /\ given' = given
  BY DEF Picture!Commit, Picture!In
<1>2. /\ g \in [Picture!Names -> Nat \cup {None}]
      /\ \A n \in Picture!Names \ r.rows : g[n] = gallery[n]
      /\ r.op = "media" => /\ r.rows = {r.name}
                           /\ Picture!Rows(g) = Picture!Rows(gallery) \cup {r.name}
      /\ r.op = "delete" => /\ g[r.name] = None /\ r.rows = {r.name}
                            /\ Picture!Rows(g) = Picture!Rows(gallery) \ {r.name}
      /\ r.op = "reorder" => Picture!Rows(g) = Picture!Rows(gallery)
      /\ r.op \in {"media", "delete", "reorder"}
  BY <1>1, GalleryLeft
<1>3. /\ PictureJob(r, names) /\ DOMAIN request = Hands
      /\ DOMAIN r = {"op", "name", "todo", "order", "seen", "rows", "stage", "rev"}
  BY DEF GalleryInv, PictureJob
<1>. HIDE DEF g
<1>4. /\ new.rows = {}
      /\ r.op = "delete" => /\ new.op = "delete" /\ new.name = r.name
                            /\ new.stage = "remove" /\ new.todo = r.todo
                            /\ DOMAIN new = DOMAIN r
      /\ r.op # "delete" => new = Picture!Idle
  BY <1>3, IdleIsFree
<1>. HIDE DEF new
<1>5. request'[h] = new /\ (\A x \in Hands \ {h} : request'[x] = request[x]) /\ DOMAIN request' = Hands
  BY <1>1, <1>3
<1>6. Picture!Rows(gallery)' = Picture!Rows(g)
  BY <1>1
<1>7. /\ Shown' \subseteq Shown \cup {r.name}
      /\ r.op # "media" => Shown' \subseteq Shown
  BY <1>1, <1>2, <1>6 DEF Shown
<1>8. r.op = "media" => r.name \in 1 .. names /\ r.name \notin given /\ Uploads(h)
  <2>1. Old + 1 .. names \subseteq 1 .. names
    BY PicturesAssumption DEF GalleryInv
  <2>. QED  BY <1>3, <2>1 DEF PictureJob, Shown, Uploads
<1>9. names' \in Old .. MaxNames /\ Shown' \subseteq 1 .. names' /\ Picture!Rows(gallery)' \cap given' = {}
  BY <1>1, <1>2, <1>6, <1>7, <1>8 DEF GalleryInv, Shown
<1>10. ASSUME NEW x \in Hands PROVE PictureJob(request[x], names)'
  <2>1. CASE x = h
    <3>1. CASE r.op = "delete"
      <4>1. new.name \in (1 .. names) \ given /\ gallery'[new.name] = None /\ new.todo = <<>>
        BY <1>1, <1>2, <1>3, <1>4, <3>1 DEF PictureJob
      <4>. QED  BY <1>1, <1>3, <1>4, <1>5, <2>1, <3>1, <4>1 DEF PictureJob, Flushed
    <3>2. CASE r.op # "delete"
      BY <1>4, <1>5, <2>1, <3>2 DEF PictureJob, Picture!Idle, Flushed
    <3>. QED  BY <3>1, <3>2
  <2>2. CASE x # h
    <3>. DEFINE s == request[x]
    <3>1. PictureJob(s, names) /\ s.rows \cap r.rows = {} /\ request'[x] = s
      BY <1>5, <2>2 DEF GalleryInv
    <3>2. s.op \in {"media", "asset"} => s.name \notin Shown'
      BY <1>7, <1>8, <2>2, <3>1 DEF GalleryInv, Uploads, Named, PictureJob
    <3>3. s.op = "delete" /\ s.stage = "remove" => gallery'[s.name] = None
      <4>1. SUFFICES ASSUME s.op = "delete", s.stage = "remove" PROVE g[s.name] = None
        BY <1>1
      <4>2. gallery[s.name] = None /\ s.name \in Picture!Names
        BY <3>1, <4>1, PicturesAssumption DEF PictureJob, GalleryInv, Picture!Names
      <4>3. CASE r.op = "media"
        BY <1>2, <1>8, <2>2, <4>1, <4>2, <4>3 DEF GalleryInv, Named
      <4>4. CASE r.op = "delete"
        BY <1>2, <4>2, <4>4
      <4>5. CASE r.op = "reorder"
        BY <1>2, <4>2, <4>5 DEF Picture!Rows
      <4>. QED  BY <1>2, <4>3, <4>4, <4>5
    <3>4. Flushed(s) /\ s.op = "reorder" => s.rows \subseteq Picture!Rows(gallery)'
      BY <1>2, <1>6, <3>1 DEF PictureJob, Picture!Rows
    <3>5. Picture!Moved(s)' = Picture!Moved(request'[x])
      BY <3>1
    <3>. HIDE DEF s
    <3>6. PICK t : t = s
      OBVIOUS
    <3>7. PictureJob(t, names)'
      <4>1. /\ PictureJob(t, names) /\ Picture!Moved(t)' = Picture!Moved(t)
            /\ Picture!Rows(t.seen)' = Picture!Rows(t.seen)
        BY <3>1, <3>6 DEF Picture!Moved, Picture!Rows
      <4>. QED  BY <1>1, <3>2, <3>3, <3>4, <3>6, <4>1 DEF PictureJob, Flushed
    <3>. QED  BY <3>1, <3>6, <3>7
  <2>. QED  BY <2>1, <2>2
<1>11. ASSUME NEW x \in Hands, NEW y \in Hands, x # y
       PROVE  /\ request'[x].rows \cap request'[y].rows = {}
              /\ Uploads(x)' /\ Named(y)' => request'[x].name # request'[y].name
  <2>1. CASE x # h /\ y # h
    BY <1>5, <1>11, <2>1 DEF GalleryInv, Uploads, Named
  <2>2. CASE x = h
    BY <1>4, <1>5, <1>11, <2>2, IdleIsFree DEF Uploads
  <2>3. CASE y = h
    BY <1>4, <1>5, <1>11, <2>3, IdleIsFree DEF GalleryInv, Uploads, Named
  <2>. QED  BY <2>1, <2>2, <2>3
<1>. QED  BY <1>1, <1>2, <1>5, <1>9, <1>10, <1>11 DEF GalleryInv

\* An asset is given away, under a name no gallery request has.
LEMMA GiveKeeps ==
  ASSUME GalleryInv, NEW h \in Hands, Picture!GiveAsset(h)
  PROVE  GalleryInv'
<1>. DEFINE r == request[h]
<1>1. /\ r.op = "asset" /\ r.stage = "store" /\ given' = given \cup {r.name}
      /\ request' = [request EXCEPT ![h] = Picture!Idle]
      /\ names' = names /\ gallery' = gallery
  BY DEF Picture!GiveAsset, Picture!In
<1>2. PictureJob(r, names) /\ Uploads(h) /\ r # Picture!Idle /\ DOMAIN request = Hands
  BY <1>1, IdleIsFree DEF GalleryInv, Uploads
<1>3. r.name \in 1 .. names /\ r.name \notin Picture!Rows(gallery)
  <2>1. Old + 1 .. names \subseteq 1 .. names
    BY PicturesAssumption DEF GalleryInv
  <2>. QED  BY <1>1, <1>2, <2>1 DEF PictureJob, Shown
<1>4. Shown' = Shown \cup {r.name} /\ Picture!Rows(gallery)' = Picture!Rows(gallery)
  BY <1>1 DEF Shown
<1>5. request'[h] = Picture!Idle /\ (\A x \in Hands \ {h} : request'[x] = request[x]) /\ DOMAIN request' = Hands
  BY <1>1, <1>2
<1>6. ASSUME NEW x \in Hands PROVE PictureJob(request[x], names)'
  <2>1. CASE x = h
    BY <1>5, <2>1 DEF PictureJob, Picture!Idle, Flushed
  <2>2. CASE x # h
    <3>1. PICK t : t = request[x]
      OBVIOUS
    <3>2. PictureJob(t, names) /\ (t.op \in {"media", "asset", "delete"} => t.name # r.name)
      BY <1>2, <2>2, <3>1 DEF GalleryInv, Named
    <3>3. PictureJob(t, names)'
      BY <1>1, <1>4, <3>2 DEF PictureJob
    <3>. QED  BY <1>5, <2>2, <3>1, <3>3
  <2>. QED  BY <2>1, <2>2
<1>7. ASSUME NEW x \in Hands, NEW y \in Hands, x # y
      PROVE  /\ request'[x].rows \cap request'[y].rows = {}
             /\ Uploads(x)' /\ Named(y)' => request'[x].name # request'[y].name
  <2>1. CASE x # h /\ y # h
    BY <1>5, <1>7, <2>1 DEF GalleryInv, Uploads, Named
  <2>2. CASE x = h
    BY <1>5, <1>7, <2>2, IdleIsFree DEF Uploads
  <2>3. CASE y = h
    BY <1>5, <1>7, <2>3, IdleIsFree DEF Named
  <2>. QED  BY <2>1, <2>2, <2>3
<1>8. Shown' \subseteq 1 .. names' /\ Picture!Rows(gallery)' \cap given' = {} /\ names' \in Old .. MaxNames
      /\ gallery' \in [Picture!Names -> Nat \cup {None}]
  BY <1>1, <1>3, <1>4 DEF GalleryInv
<1>. QED  BY <1>5, <1>6, <1>7, <1>8 DEF GalleryInv

\* What was put stays: of a name that loses no object.
LEMMA WholeStays ==
  ASSUME NEW n, \A o \in stored : o.name = n => o \in stored'
  PROVE  /\ Picture!Original(n) \subseteq Picture!Original(n)'
         /\ Picture!Whole(n) => Picture!Whole(n)'
<1>1. Picture!Original(n) \subseteq Picture!Original(n)' /\ Picture!Copies(n) \subseteq Picture!Copies(n)'
  BY DEF Picture!Original, Picture!Copies
<1>2. ASSUME Picture!Whole(n) PROVE Picture!Whole(n)'
  <2>1. PICK o \in Picture!Original(n) : \A w \in Widths : \E c \in Picture!Copies(n) :
                                            c.width = w /\ c.pixels = Picture!Min({w, o.pixels})
    BY <1>2 DEF Picture!Whole
  <2>2. o \in Picture!Original(n)' /\ \A w \in Widths : \E c \in Picture!Copies(n)' :
                                            c.width = w /\ c.pixels = Picture!Min({w, o.pixels})
    BY <1>1, <2>1
  <2>. QED  BY <2>2 DEF Picture!Whole
<1>. QED  BY <1>1, <1>2

\* The copies of an original make it whole.
LEMMA CopiesMakeWhole ==
  ASSUME NEW n, NEW o \in stored', o.name = n, o.width = 0, Picture!FixedWebpSet(n, o.pixels) \subseteq stored'
  PROVE  Picture!Whole(n)'
<1>1. o \in Picture!Original(n)'
  BY DEF Picture!Original
<1>2. ASSUME NEW w \in Widths
      PROVE \E c \in Picture!Copies(n)' : c.width = w /\ c.pixels = Picture!Min({w, o.pixels})
  <2>. DEFINE c == [name |-> n, width |-> w, pixels |-> Picture!Min({w, o.pixels})]
  <2>1. c \in stored'
    BY DEF Picture!FixedWebpSet
  <2>2. c.name = n /\ c.width = w /\ c.pixels = Picture!Min({w, o.pixels}) /\ w # 0
    BY PicturesAssumption
  <2>3. c \in Picture!Copies(n)'
    <3>. HIDE DEF c
    <3>. QED  BY <2>1, <2>2 DEF Picture!Copies
  <2>. QED  BY <2>2, <2>3
<1>. QED  BY <1>1, <1>2 DEF Picture!Whole

\* An original of a name that has no object.
LEMMA OriginalAdded ==
  ASSUME StoreInv, NEW n \in 1 .. names, NEW o, o.name = n, o.width = 0,
         \A p \in stored : p.name # n, NEW X \in SUBSET {o}, stored' = stored \cup X, UNCHANGED names
  PROVE  StoreInv'
BY DEF StoreInv

\* Copies made from an original.
LEMMA CopiesAdded ==
  ASSUME StoreInv, NEW n \in 1 .. names, NEW o \in Picture!Original(n),
         NEW X \in SUBSET Picture!FixedWebpSet(n, o.pixels), stored' = stored \cup X, UNCHANGED names
  PROVE  StoreInv' /\ \A c \in X : c.name = n /\ c.width # 0
<1>1. ASSUME NEW c \in X
      PROVE c.name = n /\ c.width # 0 /\ c.pixels = Picture!Min({c.width, o.pixels})
  <2>1. PICK w \in Widths : c = [name |-> n, width |-> w, pixels |-> Picture!Min({w, o.pixels})]
    BY <1>1 DEF Picture!FixedWebpSet
  <2>. QED  BY <2>1, PicturesAssumption
<1>2. o \in stored /\ o.name = n /\ o.width = 0
  BY DEF Picture!Original
<1>3. \A p \in stored' : p.name \in 1 .. names'
  BY <1>1 DEF StoreInv
<1>4. ASSUME NEW p \in stored', NEW q \in stored', p.name = q.name, p.width = 0
      PROVE  (q.width = 0 => p = q) /\ (q.width # 0 => q.pixels = Picture!Min({q.width, p.pixels}))
  <2>1. p \in stored
    BY <1>1, <1>4
  <2>2. CASE q \in stored
    BY <1>4, <2>1, <2>2 DEF StoreInv
  <2>3. CASE q \in X
    <3>1. p = o
      BY <1>1, <1>2, <1>4, <2>1, <2>3 DEF StoreInv
    <3>. QED  BY <1>1, <2>3, <3>1
  <2>. QED  BY <2>2, <2>3
<1>. QED  BY <1>1, <1>3, <1>4 DEF StoreInv

\* An upload's progress is not undone, and nobody puts an object of its name before it does.
LEMMA ProgressStays ==
  ASSUME NEW r, NEW s, Progress(r), s.name = r.name, s.todo = r.todo,
         \A o \in stored : o.name = r.name => o \in stored',
         \A o \in stored' \ stored : o.name = r.name => \E p \in stored : p.name = r.name
  PROVE  Progress(s)'
<1>1. Picture!Whole(r.name) => Picture!Whole(s.name)'
  BY WholeStays
<1>2. ASSUME s.todo # <<>>
      PROVE  \E f \in Files :
       LET original == [name |-> s.name, width |-> 0, pixels |-> f.width]
           copies == Picture!FixedWebpSet(s.name, f.width)
       IN  \/ s.todo = <<{original}, copies>> /\ \A o \in stored' : o.name # s.name
           \/ s.todo = <<copies>> /\ original \in stored'
  <2>1. PICK f \in Files :
       LET original == [name |-> r.name, width |-> 0, pixels |-> f.width]
           copies == Picture!FixedWebpSet(r.name, f.width)
       IN  \/ r.todo = <<{original}, copies>> /\ \A o \in stored : o.name # r.name
           \/ r.todo = <<copies>> /\ original \in stored
    BY <1>2 DEF Progress
  <2>. DEFINE original == [name |-> r.name, width |-> 0, pixels |-> f.width]
              copies == Picture!FixedWebpSet(r.name, f.width)
  <2>2. original.name = r.name
    OBVIOUS
  <2>3. \/ r.todo = <<{original}, copies>> /\ \A o \in stored : o.name # r.name
        \/ r.todo = <<copies>> /\ original \in stored
    BY <2>1
  <2>. HIDE DEF original, copies
  <2>4. \/ r.todo = <<{original}, copies>> /\ \A o \in stored' : o.name # r.name
        \/ r.todo = <<copies>> /\ original \in stored'
    BY <2>2, <2>3
  <2>. QED  BY <2>4 DEF original, copies
<1>. QED  BY <1>1, <1>2 DEF Progress, Picture!FixedWebpSet

\* One request moves on, the other uploads stay as they are.
LEMMA UploadsGoOn ==
  ASSUME GalleryInv, \A x \in Hands : Uploads(x) => Progress(request[x]),
         NEW h \in Hands, NEW new, request' = [request EXCEPT ![h] = new],
         new.op \in {"media", "asset"} => Progress(new)',
         \A x \in Hands \ {h} : Uploads(x) =>
           /\ \A o \in stored : o.name = request[x].name => o \in stored'
           /\ \A o \in stored' \ stored : o.name = request[x].name => \E p \in stored : p.name = request[x].name
  PROVE  \A x \in Hands : Uploads(x)' => Progress(request[x])'
<1>1. request'[h] = new /\ \A x \in Hands \ {h} : request'[x] = request[x]
  BY DEF GalleryInv
<1>. SUFFICES ASSUME NEW x \in Hands, Uploads(x)' PROVE Progress(request[x])'
  OBVIOUS
<1>2. PICK s : s = request'[x]
  OBVIOUS
<1>3. Progress(s)'
  <2>1. CASE x = h
    BY <1>1, <1>2, <2>1 DEF Uploads
  <2>2. CASE x # h
    <3>1. Uploads(x) /\ s = request[x]
      BY <1>1, <1>2, <2>2 DEF Uploads
    <3>2. Progress(s)
      BY <3>1
    <3>. QED  BY <2>2, <3>1, <3>2, ProgressStays
  <2>. QED  BY <2>1, <2>2
<1>. QED  BY <1>2, <1>3

\* What is shown keeps its objects, and what comes to be shown is whole.
LEMMA ShownStays ==
  ASSUME WholeInv, UNCHANGED backfill,
         \A o \in stored : o.name \in Shown => o \in stored',
         \A n \in Shown' : n \in Shown \/ Picture!Whole(n)',
         \A n \in Picture!Rows(gallery)' : n \in Picture!Rows(gallery) \/ Picture!Whole(n)'
  PROVE  WholeInv'
<1>1. ASSUME NEW n, Picture!Whole(n)' PROVE Picture!Original(n)' # {}
  BY <1>1 DEF Picture!Whole
<1>2. ASSUME NEW n \in Shown
      PROVE  /\ Picture!Original(n)' # {} /\ (n > Old => Picture!Whole(n)')
             /\ Picture!Whole(n) => Picture!Whole(n)'
  BY <1>2, WholeStays DEF WholeInv
<1>3. \A n \in Shown' : Picture!Original(n)' # {} /\ (n > Old => Picture!Whole(n)')
  BY <1>1, <1>2
<1>4. ASSUME backfill.stage # "idle", ~backfill.failed,
             NEW n \in (backfill.listed \ backfill.todo) \cap Picture!Rows(gallery)'
      PROVE  Picture!Whole(n)'
  <2>1. CASE n \in Picture!Rows(gallery)
    <3>1. Picture!Whole(n) /\ n \in Shown
      BY <1>4, <2>1 DEF WholeInv, Shown
    <3>. QED  BY <1>2, <3>1
  <2>. QED  BY <1>4, <2>1
<1>. QED  BY <1>3, <1>4 DEF WholeInv

\* A step that puts and removes nothing.
LEMMA NothingPut ==
  ASSUME GalleryInv, Made, NEW h \in Hands, NEW new, request' = [request EXCEPT ![h] = new],
         UNCHANGED <<stored, names, backfill>>,
         new.op \in {"media", "asset"} => Progress(new)',
         \A n \in Shown' : n \in Shown \/ Picture!Whole(n)',
         \A n \in Picture!Rows(gallery)' : n \in Picture!Rows(gallery) \/ Picture!Whole(n)'
  PROVE  Made'
<1>1. StoreInv'
  BY DEF Made, StoreInv
<1>2. \A x \in Hands : Uploads(x)' => Progress(request[x])'
  BY UploadsGoOn DEF Made
<1>3. WholeInv'
  BY ShownStays DEF Made
<1>. QED  BY <1>1, <1>2, <1>3 DEF Made

LEMMA BeginsMake ==
  ASSUME GalleryInv, Made, NEW h \in Hands,
         \/ \E op \in {"media", "asset"}, f \in Files : Picture!BeginUpload(h, op, f)
         \/ \E n \in Picture!Names : Picture!BeginDelete(h, n)
         \/ \E order \in Picture!Arrangements(Picture!Rows(gallery)) : Picture!BeginReorder(h, order)
  PROVE  Made'
<1>1. CASE \E op \in {"media", "asset"}, f \in Files : Picture!BeginUpload(h, op, f)
  <2>1. PICK op \in {"media", "asset"}, f \in Files : Picture!BeginUpload(h, op, f)
    BY <1>1
  <2>. DEFINE n == names + 1
              first == [name |-> n, width |-> 0, pixels |-> f.width]
              copies == Picture!FixedWebpSet(n, f.width)
  <2>2. PICK new : new = [op |-> op, name |-> n, todo |-> <<{first}, copies>>,
                    order |-> None, seen |-> gallery, rows |-> {}, stage |-> "store", rev |-> None]
    OBVIOUS
  <2>3. /\ names' = n /\ request' = [request EXCEPT ![h] = new]
        /\ UNCHANGED <<gallery, given, stored, backfill>>
    BY <2>1, <2>2 DEF Picture!BeginUpload, Picture!Start
  <2>4. names \in Nat
    BY PicturesAssumption DEF GalleryInv
  <2>5. \A o \in stored : o.name # n
    <3>1. \A o \in stored : o.name \in 1 .. names
      BY DEF Made, StoreInv
    <3>. QED  BY <2>4, <3>1
  <2>6. Progress(new)'
    <3>1. new.name = n /\ new.todo = <<{first}, copies>>
      BY <2>2
    <3>2. PICK k : k = n
      OBVIOUS
    <3>3. /\ new.name = k
          /\ new.todo = <<{[name |-> k, width |-> 0, pixels |-> f.width]}, Picture!FixedWebpSet(k, f.width)>>
      BY <3>1, <3>2
    <3>4. \A o \in stored' : o.name # k
      BY <2>3, <2>5, <3>2
    <3>5. new.todo # <<>>
      BY <3>3
    <3>. QED  BY <3>3, <3>4, <3>5 DEF Progress, Picture!FixedWebpSet
  <2>7. UNCHANGED Shown /\ UNCHANGED Picture!Rows(gallery)
    BY <2>3 DEF Shown
  <2>8. 1 .. names \subseteq 1 .. names'
    BY <2>3, PicturesAssumption DEF GalleryInv
  <2>9. StoreInv'
    BY <2>3, <2>8 DEF Made, StoreInv
  <2>10. \A x \in Hands : Uploads(x)' => Progress(request[x])'
    BY <2>3, <2>6, UploadsGoOn DEF Made
  <2>11. WholeInv'
    BY <2>3, <2>7, ShownStays DEF Made
  <2>. QED  BY <2>9, <2>10, <2>11 DEF Made
<1>2. CASE \/ \E n \in Picture!Names : Picture!BeginDelete(h, n)
           \/ \E order \in Picture!Arrangements(Picture!Rows(gallery)) : Picture!BeginReorder(h, order)
  <2>1. PICK new : /\ request' = [request EXCEPT ![h] = new] /\ new.op \in {"delete", "reorder"}
                   /\ UNCHANGED <<gallery, given, stored, backfill, names>>
    <3>1. CASE \E n \in Picture!Names : Picture!BeginDelete(h, n)
      BY <3>1 DEF Picture!BeginDelete, Picture!Start
    <3>2. CASE \E order \in Picture!Arrangements(Picture!Rows(gallery)) : Picture!BeginReorder(h, order)
      BY <3>2 DEF Picture!BeginReorder, Picture!Start
    <3>. QED  BY <1>2, <3>1, <3>2
  <2>2. UNCHANGED Shown /\ UNCHANGED Picture!Rows(gallery)
    BY <2>1 DEF Shown
  <2>. QED  BY <2>1, <2>2, NothingPut
<1>. QED  BY <1>1, <1>2

\* The original is put, then the copies; a failure leaves the first of them.
LEMMA PutsMake ==
  ASSUME GalleryInv, Made, NEW h \in Hands, Picture!PutObjects(h) \/ Picture!Fail(h)
  PROVE  /\ Made'
         /\ stored \subseteq stored' /\ \A o \in stored' \ stored : o.name = request[h].name
<1>. DEFINE r == request[h]
<1>1. PICK new, X :
        /\ request' = [request EXCEPT ![h] = new] /\ stored' = stored \cup X
        /\ UNCHANGED <<gallery, given, names, backfill>>
        /\ r.todo = <<>> => X = {}
        /\ r.todo # <<>> => X \subseteq Head(r.todo)
        /\ \/ r.todo # <<>> /\ X = Head(r.todo) /\ new = [r EXCEPT !.todo = Tail(r.todo)]
           \/ new = Picture!Idle
  <2>1. CASE Picture!PutObjects(h)
    <3>1. request' = [request EXCEPT ![h] = [r EXCEPT !.todo = Tail(r.todo)]]
      BY <2>1 DEF Picture!PutObjects
    <3>. QED  BY <2>1, <3>1 DEF Picture!PutObjects
  <2>2. CASE Picture!Fail(h)
    <3>1. PICK w \in {-1} \cup Widths :
       stored' = stored \cup (IF r.todo = <<>> THEN {} ELSE {o \in Head(r.todo) : o.width =< w})
      BY <2>2 DEF Picture!Fail
    <3>2. PICK X : X = IF r.todo = <<>> THEN {} ELSE {o \in Head(r.todo) : o.width =< w}
      OBVIOUS
    <3>3. PICK new : new = Picture!Idle
      OBVIOUS
    <3>. QED  BY <2>2, <3>1, <3>2, <3>3 DEF Picture!Fail
  <2>. QED  BY <2>1, <2>2
<1>2. PictureJob(r, names)
  BY DEF GalleryInv
<1>3. UNCHANGED Shown /\ UNCHANGED Picture!Rows(gallery)
  BY <1>1 DEF Shown
<1>4. new = Picture!Idle => new.op \notin {"media", "asset"}
  BY IdleIsFree
<1>5. CASE r.todo = <<>>
  <2>1. X = {} /\ new = Picture!Idle /\ UNCHANGED stored
    BY <1>1, <1>5
  <2>. QED  BY <1>1, <1>3, <1>4, <2>1, NothingPut
<1>6. CASE r.todo # <<>>
  <2>1. /\ Uploads(h) /\ r.name \in 1 .. names /\ r.name \notin Shown
        /\ DOMAIN r = {"op", "name", "todo", "order", "seen", "rows", "stage", "rev"}
    <3>1. r.op \in {"media", "asset"}
      BY <1>2, <1>6 DEF PictureJob, Picture!Idle, Flushed
    <3>2. Old + 1 .. names \subseteq 1 .. names
      BY PicturesAssumption DEF GalleryInv
    <3>. QED  BY <1>2, <3>1, <3>2 DEF PictureJob, Uploads
  <2>. DEFINE n == r.name
  <2>2. PICK f \in Files :
         LET original == [name |-> n, width |-> 0, pixels |-> f.width]
             copies == Picture!FixedWebpSet(n, f.width)
         IN  \/ r.todo = <<{original}, copies>> /\ \A o \in stored : o.name # n
             \/ r.todo = <<copies>> /\ original \in stored
    BY <1>6, <2>1 DEF Made, Progress
  <2>3. PICK original, copies :
         /\ original = [name |-> n, width |-> 0, pixels |-> f.width]
         /\ copies = Picture!FixedWebpSet(n, f.width)
         /\ \/ r.todo = <<{original}, copies>> /\ \A o \in stored : o.name # n
            \/ r.todo = <<copies>> /\ original \in stored
    BY <2>2
  <2>4. original.name = n /\ original.width = 0 /\ original.pixels = f.width
    BY <2>3
  <2>5. ASSUME new.op \in {"media", "asset"}
        PROVE  X = Head(r.todo) /\ new.name = n /\ new.todo = Tail(r.todo)
    BY <1>1, <1>4, <2>1, <2>5
  <2>6. ASSUME StoreInv', \A o \in X : o.name = n, new.op \in {"media", "asset"} => Progress(new)'
        PROVE  /\ Made'
               /\ stored \subseteq stored' /\ \A o \in stored' \ stored : o.name = r.name
    <3>1. stored \subseteq stored' /\ \A o \in stored' \ stored : o.name = n
      BY <1>1, <2>6
    <3>2. \A x \in Hands \ {h} : Uploads(x) => request[x].name # n
      BY <2>1 DEF GalleryInv, Uploads, Named
    <3>3. \A x \in Hands : Uploads(x)' => Progress(request[x])'
      BY <1>1, <2>6, <3>1, <3>2, UploadsGoOn DEF Made
    <3>4. WholeInv'
      BY <1>1, <1>3, <3>1, ShownStays DEF Made
    <3>. QED  BY <2>6, <3>1, <3>3, <3>4 DEF Made
  <2>7. CASE r.todo = <<{original}, copies>> /\ \A o \in stored : o.name # n
    <3>1. X \in SUBSET {original} /\ Head(r.todo) = {original} /\ Tail(r.todo) = <<copies>>
      BY <1>1, <2>7
    <3>2. StoreInv'
      BY <1>1, <2>1, <2>4, <2>7, <3>1, OriginalAdded DEF Made
    <3>3. \A o \in X : o.name = n
      BY <2>4, <3>1
    <3>4. new.op \in {"media", "asset"} => Progress(new)'
      <4>1. SUFFICES ASSUME new.op \in {"media", "asset"} PROVE Progress(new)'
        OBVIOUS
      <4>2. new.todo = <<copies>> /\ original \in stored' /\ new.name = n
        BY <1>1, <2>5, <3>1, <4>1
      <4>3. PICK k : k = n
        OBVIOUS
      <4>4. /\ new.todo = <<Picture!FixedWebpSet(k, f.width)>> /\ new.name = k /\ new.todo # <<>>
            /\ [name |-> k, width |-> 0, pixels |-> f.width] \in stored'
        BY <2>3, <4>2, <4>3
      <4>. QED  BY <4>4 DEF Progress, Picture!FixedWebpSet
    <3>. QED  BY <2>6, <3>2, <3>3, <3>4
  <2>8. CASE r.todo = <<copies>> /\ original \in stored
    <3>1. X \in SUBSET copies /\ Head(r.todo) = copies /\ Tail(r.todo) = <<>>
      BY <1>1, <2>8
    <3>2. original \in Picture!Original(n) /\ copies = Picture!FixedWebpSet(n, original.pixels)
      BY <2>3, <2>4, <2>8 DEF Picture!Original
    <3>3. StoreInv' /\ \A o \in X : o.name = n
      BY <1>1, <2>1, <3>1, <3>2, CopiesAdded DEF Made
    <3>4. new.op \in {"media", "asset"} => Progress(new)'
      <4>1. SUFFICES ASSUME new.op \in {"media", "asset"} PROVE Progress(new)'
        OBVIOUS
      <4>2. new.todo = <<>> /\ new.name = n /\ copies \subseteq stored'
        BY <1>1, <2>5, <3>1, <4>1
      <4>3. PICK k : k = n
        OBVIOUS
      <4>4. Picture!Whole(k)'
        BY <1>1, <2>4, <2>8, <3>2, <4>2, <4>3, CopiesMakeWhole
      <4>. QED  BY <4>2, <4>3, <4>4 DEF Progress
    <3>. QED  BY <2>6, <3>3, <3>4
  <2>. QED  BY <2>3, <2>7, <2>8
<1>. QED  BY <1>5, <1>6

\* A request that is not over still has its uploads to put, or is whole.
LEMMA RestMakes ==
  ASSUME GalleryInv, Made, NEW h \in Hands,
         \/ Picture!GiveAsset(h) \/ Picture!Flush(h) \/ Picture!ClearCards(h) \/ Picture!Resume(h)
         \/ Picture!Commit(h) \/ Picture!RemoveObject(h)
  PROVE  Made'
<1>. DEFINE r == request[h]
<1>1. /\ PictureJob(r, names) /\ (Uploads(h) => Progress(r))
      /\ DOMAIN r = {"op", "name", "todo", "order", "seen", "rows", "stage", "rev"}
  BY DEF GalleryInv, Made, PictureJob
<1>2. CASE Picture!GiveAsset(h)
  <2>1. /\ r.op = "asset" /\ r.todo = <<>> /\ given' = given \cup {r.name}
        /\ request' = [request EXCEPT ![h] = Picture!Idle]
        /\ UNCHANGED <<stored, gallery, backfill, names>>
    BY <1>2 DEF Picture!GiveAsset
  <2>2. PICK k : k = r.name
    OBVIOUS
  <2>3. Picture!Whole(k)
    BY <1>1, <2>1, <2>2 DEF Progress, Uploads
  <2>4. Picture!Whole(k)'
    BY <2>1, <2>3, WholeStays
  <2>5. Shown' = Shown \cup {k} /\ UNCHANGED Picture!Rows(gallery)
    BY <2>1, <2>2 DEF Shown
  <2>6. PICK new : new = Picture!Idle
    OBVIOUS
  <2>7. new.op \notin {"media", "asset"}
    BY <2>6, IdleIsFree
  <2>. QED  BY <2>1, <2>4, <2>5, <2>6, <2>7, NothingPut
<1>3. CASE Picture!Flush(h) \/ Picture!ClearCards(h) \/ Picture!Resume(h)
  <2>1. PICK new : /\ request' = [request EXCEPT ![h] = new]
                   /\ new.op = r.op /\ new.name = r.name /\ new.todo = r.todo
                   /\ UNCHANGED <<stored, gallery, given, backfill, names>>
    <3>1. CASE Picture!Flush(h)
      <4>1. PICK s, q : request' = [request EXCEPT ![h].rows = s, ![h].stage = "cards", ![h].order = q]
        BY <3>1 DEF Picture!Flush
      <4>2. request' = [request EXCEPT ![h] = [r EXCEPT !.rows = s, !.stage = "cards", !.order = q]]
        BY <4>1
      <4>3. PICK new : new = [r EXCEPT !.rows = s, !.stage = "cards", !.order = q]
        OBVIOUS
      <4>4. new.op = r.op /\ new.name = r.name /\ new.todo = r.todo
        BY <1>1, <4>3
      <4>. QED  BY <3>1, <4>2, <4>3, <4>4 DEF Picture!Flush
    <3>2. CASE Picture!ClearCards(h)
      <4>1. PICK v, s : request' = [request EXCEPT ![h].rev = v, ![h].stage = s]
        BY <3>2 DEF Picture!ClearCards
      <4>2. request' = [request EXCEPT ![h] = [r EXCEPT !.rev = v, !.stage = s]]
        BY <4>1
      <4>3. PICK new : new = [r EXCEPT !.rev = v, !.stage = s]
        OBVIOUS
      <4>4. new.op = r.op /\ new.name = r.name /\ new.todo = r.todo
        BY <1>1, <4>3
      <4>. QED  BY <3>2, <4>2, <4>3, <4>4 DEF Picture!ClearCards
    <3>3. CASE Picture!Resume(h)
      <4>2. request' = [request EXCEPT ![h] = [r EXCEPT !.stage = "rebuild"]]
        BY <3>3 DEF Picture!Resume
      <4>3. PICK new : new = [r EXCEPT !.stage = "rebuild"]
        OBVIOUS
      <4>4. new.op = r.op /\ new.name = r.name /\ new.todo = r.todo
        BY <1>1, <4>3
      <4>. QED  BY <3>3, <4>2, <4>3, <4>4 DEF Picture!Resume
    <3>. QED  BY <1>3, <3>1, <3>2, <3>3
  <2>2. new.op \in {"media", "asset"} => Progress(new)'
    <3>1. PICK s : s = r
      OBVIOUS
    <3>. QED  BY <1>1, <2>1, <3>1, ProgressStays DEF Uploads
  <2>3. UNCHANGED Shown /\ UNCHANGED Picture!Rows(gallery)
    BY <2>1 DEF Shown
  <2>. QED  BY <2>1, <2>2, <2>3, NothingPut
<1>4. CASE Picture!Commit(h)
  <2>. DEFINE g == Picture!GalleryAfter(r)
  <2>1. /\ r.stage = "rebuild" /\ gallery' = g
        /\ request' = [request EXCEPT ![h] =
             IF r.op = "delete" THEN [r EXCEPT !.stage = "remove", !.rows = {}] ELSE Picture!Idle]
        /\ UNCHANGED <<stored, names, given, backfill>>
    BY <1>4 DEF Picture!Commit, Picture!In
  <2>2. PICK new : new = IF r.op = "delete" THEN [r EXCEPT !.stage = "remove", !.rows = {}] ELSE Picture!Idle
    OBVIOUS
  <2>3. new.op \notin {"media", "asset"}
    BY <1>1, <2>2, IdleIsFree
  <2>4. PICK k : k = r.name
    OBVIOUS
  <2>5. \/ Picture!Rows(gallery)' \subseteq Picture!Rows(gallery)
        \/ (r.op = "media" /\ Picture!Rows(gallery)' = Picture!Rows(gallery) \cup {k})
    <3>1. UNCHANGED Picture!Names /\ Picture!Rows(gallery)' = Picture!Rows(g)
      BY <2>1 DEF Picture!Rows, Picture!Names
    <3>. QED  BY <2>1, <2>4, <3>1, GalleryLeft
  <2>6. r.op = "media" => Picture!Whole(k)'
    <3>1. ASSUME r.op = "media" PROVE Picture!Whole(k)
      BY <1>1, <2>1, <2>4, <3>1 DEF PictureJob, Progress, Uploads
    <3>. QED  BY <2>1, <3>1, WholeStays
  <2>7. \A n \in Picture!Rows(gallery)' : n \in Picture!Rows(gallery) \/ Picture!Whole(n)'
    BY <2>5, <2>6
  <2>8. \A n \in Shown' : n \in Shown \/ Picture!Whole(n)'
    BY <2>1, <2>7 DEF Shown
  <2>. QED  BY <2>1, <2>2, <2>3, <2>7, <2>8, NothingPut
<1>5. CASE Picture!RemoveObject(h)
  <2>1. /\ r.stage = "remove" /\ stored' = stored \ Picture!Original(r.name)
        /\ request' = [request EXCEPT ![h] = Picture!Idle]
        /\ UNCHANGED <<gallery, names, given, backfill>>
    BY <1>5 DEF Picture!RemoveObject, Picture!In, Picture!Removed
  <2>2. r.op = "delete" /\ r.name \notin Shown
    BY <1>1, <2>1, IdleIsFree DEF PictureJob, Flushed, Shown, Picture!Rows
  <2>3. stored' \subseteq stored /\ \A o \in stored : o.name # r.name => o \in stored'
    BY <2>1 DEF Picture!Original
  <2>4. StoreInv'
    BY <2>1, <2>3 DEF Made, StoreInv
  <2>5. \A x \in Hands \ {h} : Uploads(x) => request[x].name # r.name
    BY <2>2 DEF GalleryInv, Uploads, Named
  <2>6. PICK new : new = Picture!Idle
    OBVIOUS
  <2>7. \A x \in Hands : Uploads(x)' => Progress(request[x])'
    BY <2>1, <2>3, <2>5, <2>6, IdleIsFree, UploadsGoOn DEF Made
  <2>8. UNCHANGED Shown /\ UNCHANGED Picture!Rows(gallery)
    BY <2>1 DEF Shown
  <2>9. WholeInv'
    BY <2>1, <2>2, <2>3, <2>8, ShownStays DEF Made
  <2>. QED  BY <2>4, <2>7, <2>9 DEF Made
<1>. QED  BY <1>2, <1>3, <1>4, <1>5

\* The script: a picture it passes is whole, or it has failed.
LEMMA BackfillMakes ==
  ASSUME GalleryInv, Made,
         Picture!ListOriginals \/ (\E n \in Picture!Names : Picture!ProcessOriginal(n)) \/ Picture!EndBackfill
  PROVE  Made' /\ stored \subseteq stored' /\ \A o \in stored' \ stored : o.width # 0
<1>1. CASE Picture!ListOriginals \/ Picture!EndBackfill
  <2>1. UNCHANGED <<stored, gallery, given, names, request>>
    BY <1>1 DEF Picture!ListOriginals, Picture!EndBackfill
  <2>2. StoreInv'
    BY <2>1 DEF Made, StoreInv
  <2>3. \A x \in Hands : Uploads(x)' => Progress(request[x])'
    <3>. SUFFICES ASSUME NEW x \in Hands, Uploads(x)' PROVE Progress(request[x])'
      OBVIOUS
    <3>1. PICK s : s = request[x]
      OBVIOUS
    <3>2. Progress(s)'
      BY <2>1, <3>1, ProgressStays DEF Made, Uploads
    <3>. QED  BY <2>1, <3>1, <3>2
  <2>4. \A n : (Picture!Whole(n)' <=> Picture!Whole(n)) /\ (Picture!Original(n)' = Picture!Original(n))
    BY <2>1 DEF Picture!Whole, Picture!Original, Picture!Copies
  <2>5. UNCHANGED Shown /\ UNCHANGED Picture!Rows(gallery)
    BY <2>1 DEF Shown
  <2>6. WholeInv'
    <3>1. CASE Picture!ListOriginals
      <4>1. PICK found : backfill' = [todo |-> found, listed |-> found, failed |-> FALSE, stage |-> "run"]
        BY <3>1 DEF Picture!ListOriginals
      <4>. QED  BY <2>4, <2>5, <4>1 DEF Made, WholeInv
    <3>2. CASE Picture!EndBackfill
      <4>1. /\ backfill.stage = "run" /\ backfill.todo = {}
            /\ backfill' = [backfill EXCEPT !.stage = IF backfill.failed THEN "idle" ELSE "done"]
        BY <3>2 DEF Picture!EndBackfill
      <4>2. /\ DOMAIN backfill' = DOMAIN backfill
            /\ backfill'.todo = backfill.todo /\ backfill'.listed = backfill.listed
            /\ backfill'.failed = backfill.failed
            /\ backfill'.stage = IF backfill.failed THEN "idle" ELSE "done"
        BY <4>1 DEF Made, WholeInv
      <4>. QED  BY <2>4, <2>5, <4>1, <4>2 DEF Made, WholeInv
    <3>. QED  BY <1>1, <3>1, <3>2
  <2>. QED  BY <2>1, <2>2, <2>3, <2>6 DEF Made
<1>2. CASE \E n \in Picture!Names : Picture!ProcessOriginal(n)
  <2>1. PICK n \in Picture!Names : Picture!ProcessOriginal(n)
    BY <1>2
  <2>2. /\ backfill.stage = "run" /\ n \in backfill.todo
        /\ UNCHANGED <<gallery, given, names, request>>
    BY <2>1 DEF Picture!ProcessOriginal
  <2>3. UNCHANGED Shown /\ UNCHANGED Picture!Rows(gallery)
    BY <2>2 DEF Shown
  <2>4. DOMAIN backfill = {"todo", "failed", "listed", "stage"}
    BY DEF Made, WholeInv
  <2>5. /\ DOMAIN backfill' = DOMAIN backfill /\ backfill'.listed = backfill.listed /\ backfill'.stage = "run"
        /\ backfill'.todo = backfill.todo \ {n} /\ (~backfill'.failed => ~backfill.failed)
    BY <2>1, <2>2, <2>4 DEF Picture!ProcessOriginal
  <2>6. \/ /\ Picture!AllVariantsExist(n) /\ UNCHANGED stored
        \/ \E o \in Picture!Original(n) : stored' = stored \cup Picture!FixedWebpSet(n, o.pixels)
        \/ /\ backfill'.failed
           /\ \E w \in {0} \cup (Widths \ {Picture!Max(Widths)}) : stored' = stored \cup
             {c \in UNION {Picture!FixedWebpSet(n, o.pixels) : o \in Picture!Original(n)} : c.width =< w}
    BY <2>1, <2>4 DEF Picture!ProcessOriginal
  <2>7. \A o, p \in Picture!Original(n) : o = p
    BY DEF Made, StoreInv, Picture!Original
  <2>8. \A o \in Picture!Original(n) : n \in 1 .. names
    BY DEF Made, StoreInv, Picture!Original
  <2>9. /\ StoreInv' /\ stored \subseteq stored'
        /\ \A c \in stored' \ stored : c.name = n /\ c.width # 0 /\ \E o \in stored : o.name = n
    <3>1. CASE UNCHANGED stored
      BY <2>2, <3>1 DEF Made, StoreInv
    <3>2. ASSUME NEW o \in Picture!Original(n), NEW X \in SUBSET Picture!FixedWebpSet(n, o.pixels),
                 stored' = stored \cup X
          PROVE  /\ StoreInv' /\ stored \subseteq stored'
                 /\ \A c \in stored' \ stored : c.name = n /\ c.width # 0 /\ \E p \in stored : p.name = n
      <4>1. StoreInv' /\ \A c \in X : c.name = n /\ c.width # 0
        BY <2>2, <2>8, <3>2, CopiesAdded DEF Made
      <4>2. o \in stored /\ o.name = n
        BY DEF Picture!Original
      <4>. QED  BY <3>2, <4>1, <4>2
    <3>3. ASSUME NEW X, X \subseteq UNION {Picture!FixedWebpSet(n, o.pixels) : o \in Picture!Original(n)},
                 stored' = stored \cup X
          PROVE  UNCHANGED stored \/ \E o \in Picture!Original(n) : X \subseteq Picture!FixedWebpSet(n, o.pixels)
      <4>1. CASE Picture!Original(n) = {}
        BY <3>3, <4>1
      <4>2. CASE Picture!Original(n) # {}
        <5>1. PICK o \in Picture!Original(n) : TRUE
          BY <4>2
        <5>2. \A p \in Picture!Original(n) : p = o
          BY <2>7, <5>1
        <5>3. ASSUME NEW c \in X PROVE c \in Picture!FixedWebpSet(n, o.pixels)
          BY <3>3, <5>2, <5>3
        <5>. QED  BY <5>1, <5>3
      <4>. QED  BY <4>1, <4>2
    <3>4. CASE \E o \in Picture!Original(n) : stored' = stored \cup Picture!FixedWebpSet(n, o.pixels)
      BY <3>2, <3>4
    <3>5. CASE \E w \in {0} \cup (Widths \ {Picture!Max(Widths)}) : stored' = stored \cup
             {c \in UNION {Picture!FixedWebpSet(n, o.pixels) : o \in Picture!Original(n)} : c.width =< w}
      <4>1. PICK X : /\ X \subseteq UNION {Picture!FixedWebpSet(n, o.pixels) : o \in Picture!Original(n)}
                     /\ stored' = stored \cup X
        BY <3>5
      <4>. QED  BY <3>1, <3>2, <3>3, <4>1
    <3>. QED  BY <2>6, <3>1, <3>4, <3>5
  <2>10. \A x \in Hands : Uploads(x)' => Progress(request[x])'
    <3>. SUFFICES ASSUME NEW x \in Hands, Uploads(x)' PROVE Progress(request[x])'
      OBVIOUS
    <3>1. PICK s : s = request[x]
      OBVIOUS
    <3>2. Progress(s)'
      BY <2>2, <2>9, <3>1, ProgressStays DEF Made, Uploads
    <3>. QED  BY <2>2, <3>1, <3>2
  <2>11. \A m : /\ Picture!Whole(m) => Picture!Whole(m)'
                /\ Picture!Original(m) \subseteq Picture!Original(m)'
    BY <2>9, WholeStays
  <2>12. ~backfill'.failed /\ n \in Picture!Rows(gallery) => Picture!Whole(n)'
    <3>. SUFFICES ASSUME ~backfill'.failed, n \in Picture!Rows(gallery) PROVE Picture!Whole(n)'
      OBVIOUS
    <3>1. PICK o \in Picture!Original(n) : TRUE
      BY DEF Made, WholeInv, Shown
    <3>2. o \in stored /\ o.name = n /\ o.width = 0
      BY DEF Picture!Original
    <3>3. CASE Picture!AllVariantsExist(n) /\ UNCHANGED stored
      <4>1. ASSUME NEW w \in Widths
            PROVE \E c \in Picture!Copies(n) : c.width = w /\ c.pixels = Picture!Min({w, o.pixels})
        <5>1. PICK c \in Picture!Copies(n) : c.width = w
          BY <3>3 DEF Picture!AllVariantsExist
        <5>. QED  BY <3>2, <5>1 DEF Picture!Copies, Made, StoreInv
      <4>2. Picture!Whole(n)
        BY <4>1 DEF Picture!Whole
      <4>. QED  BY <2>11, <4>2
    <3>4. CASE \E p \in Picture!Original(n) : stored' = stored \cup Picture!FixedWebpSet(n, p.pixels)
      <4>1. PICK p \in Picture!Original(n) : stored' = stored \cup Picture!FixedWebpSet(n, p.pixels)
        BY <3>4
      <4>2. p \in stored' /\ p.name = n /\ p.width = 0
        BY <4>1 DEF Picture!Original
      <4>. QED  BY <4>1, <4>2, CopiesMakeWhole
    <3>. QED  BY <2>6, <3>3, <3>4
  <2>13. WholeInv'
    <3>1. \A m \in Shown' : Picture!Original(m)' # {} /\ (m > Old => Picture!Whole(m)')
      BY <2>3, <2>11 DEF Made, WholeInv
    <3>2. ASSUME ~backfill'.failed, NEW m \in (backfill'.listed \ backfill'.todo) \cap Picture!Rows(gallery)'
          PROVE  Picture!Whole(m)'
      <4>1. CASE m = n
        BY <2>3, <2>12, <3>2, <4>1
      <4>2. CASE m # n
        <5>1. Picture!Whole(m)
          BY <2>2, <2>3, <2>5, <3>2, <4>2 DEF Made, WholeInv
        <5>. QED  BY <2>11, <5>1
      <4>. QED  BY <4>1, <4>2
    <3>. QED  BY <2>4, <2>5, <3>1, <3>2 DEF WholeInv
  <2>. QED  BY <2>9, <2>10, <2>13 DEF Made
<1>. QED  BY <1>1, <1>2

\* A request that goes on, begins or ends has seen the gallery there is, unless requests crossed.
LEMMA OrderStays ==
  ASSUME GalleryInv, OrderInv, NEW h \in Hands, NEW new, request' = [request EXCEPT ![h] = new],
         UNCHANGED <<gallery, crossed>>,
         ~crossed /\ new.stage \notin {"idle", "remove"} =>
           /\ new.seen = gallery
           /\ new.op = "media" /\ Flushed(new) => \A n \in Picture!Rows(gallery) : gallery[n] < new.order
  PROVE  OrderInv'
<1>1. request'[h] = new /\ \A x \in Hands \ {h} : request'[x] = request[x]
  BY DEF GalleryInv
<1>2. UNCHANGED Picture!Rows(gallery)
  OBVIOUS
<1>3. ASSUME ~crossed, NEW x \in Hands, request'[x].stage \notin {"idle", "remove"}
      PROVE  /\ request'[x].seen = gallery
             /\ request'[x].op = "media" /\ Flushed(request'[x]) =>
                  \A n \in Picture!Rows(gallery) : gallery[n] < request'[x].order
  BY <1>1, <1>3 DEF OrderInv
<1>4. \A r : Flushed(r)' = Flushed(r)
  BY DEF Flushed
<1>. QED  BY <1>2, <1>3, <1>4 DEF OrderInv, Flushed

LEMMA HandsOrder ==
  ASSUME GalleryInv, OrderInv, NEW h \in Hands,
         \/ \E op \in {"media", "asset"}, f \in Files : Picture!BeginUpload(h, op, f)
         \/ \E n \in Picture!Names : Picture!BeginDelete(h, n)
         \/ \E order \in Picture!Arrangements(Picture!Rows(gallery)) : Picture!BeginReorder(h, order)
         \/ Picture!PutObjects(h) \/ Picture!GiveAsset(h) \/ Picture!Flush(h) \/ Picture!ClearCards(h)
         \/ Picture!Resume(h) \/ Picture!RemoveObject(h) \/ Picture!Fail(h)
  PROVE  OrderInv'
<1>. DEFINE r == request[h]
<1>1. DOMAIN r = {"op", "name", "todo", "order", "seen", "rows", "stage", "rev"} /\ PictureJob(r, names)
  BY DEF GalleryInv, PictureJob
<1>2. CASE \/ \E op \in {"media", "asset"}, f \in Files : Picture!BeginUpload(h, op, f)
           \/ \E n \in Picture!Names : Picture!BeginDelete(h, n)
           \/ \E order \in Picture!Arrangements(Picture!Rows(gallery)) : Picture!BeginReorder(h, order)
  <2>1. PICK new : /\ request' = [request EXCEPT ![h] = new] /\ new.seen = gallery
                   /\ new.stage \in {"store", "row"}
                   /\ UNCHANGED <<gallery, crossed>>
    <3>1. ASSUME NEW op, NEW f, Picture!BeginUpload(h, op, f)
          PROVE  \E n, todo :
            /\ request' = [request EXCEPT ![h] = [op |-> op, name |-> n, todo |-> todo, order |-> None,
                             seen |-> gallery, rows |-> {}, stage |-> "store", rev |-> None]]
            /\ UNCHANGED <<gallery, crossed>>
      BY <3>1 DEF Picture!BeginUpload, Picture!Start
    <3>2. ASSUME NEW n, Picture!BeginDelete(h, n)
          PROVE  /\ request' = [request EXCEPT ![h] = [op |-> "delete", name |-> n, todo |-> <<>>, order |-> None,
                                  seen |-> gallery, rows |-> {}, stage |-> "row", rev |-> None]]
                 /\ UNCHANGED <<gallery, crossed>>
      BY <3>2 DEF Picture!BeginDelete, Picture!Start
    <3>3. ASSUME NEW order, Picture!BeginReorder(h, order)
          PROVE  /\ request' = [request EXCEPT ![h] = [op |-> "reorder", name |-> None, todo |-> <<>>, order |-> order,
                                  seen |-> gallery, rows |-> {}, stage |-> "row", rev |-> None]]
                 /\ UNCHANGED <<gallery, crossed>>
      BY <3>3 DEF Picture!BeginReorder, Picture!Start
    <3>4. \E op, n, todo, order, stage :
            /\ request' = [request EXCEPT ![h] = [op |-> op, name |-> n, todo |-> todo, order |-> order,
                             seen |-> gallery, rows |-> {}, stage |-> stage, rev |-> None]]
            /\ stage \in {"store", "row"} /\ UNCHANGED <<gallery, crossed>>
      <4>1. CASE \E op \in {"media", "asset"}, f \in Files : Picture!BeginUpload(h, op, f)
        <5>1. PICK op \in {"media", "asset"}, f \in Files : Picture!BeginUpload(h, op, f)
          BY <4>1
        <5>. QED  BY <5>1, <3>1
      <4>2. CASE \E n \in Picture!Names : Picture!BeginDelete(h, n)
        BY <4>2, <3>2
      <4>3. CASE \E order \in Picture!Arrangements(Picture!Rows(gallery)) : Picture!BeginReorder(h, order)
        <5>1. PICK order \in Picture!Arrangements(Picture!Rows(gallery)) : Picture!BeginReorder(h, order)
          BY <4>3
        <5>. QED  BY <5>1, <3>3
      <4>. QED  BY <1>2, <4>1, <4>2, <4>3
    <3>5. PICK op, n, todo, order, stage :
            /\ request' = [request EXCEPT ![h] = [op |-> op, name |-> n, todo |-> todo, order |-> order,
                             seen |-> gallery, rows |-> {}, stage |-> stage, rev |-> None]]
            /\ stage \in {"store", "row"} /\ UNCHANGED <<gallery, crossed>>
      BY <3>4
    <3>6. PICK new : new = [op |-> op, name |-> n, todo |-> todo, order |-> order,
                            seen |-> gallery, rows |-> {}, stage |-> stage, rev |-> None]
      OBVIOUS
    <3>7. new.seen = gallery /\ new.stage \in {"store", "row"}
      BY <3>5, <3>6
    <3>8. request' = [request EXCEPT ![h] = new]
      BY <3>5, <3>6
    <3>. QED  BY <3>5, <3>7, <3>8
  <2>. QED  BY <2>1, OrderStays DEF Flushed
<1>3. CASE Picture!PutObjects(h)
  <2>1. PICK new : new = [r EXCEPT !.todo = Tail(r.todo)]
    OBVIOUS
  <2>2. /\ request' = [request EXCEPT ![h] = new] /\ UNCHANGED <<gallery, crossed>> /\ r.stage = "store"
    BY <1>3, <2>1 DEF Picture!PutObjects, Picture!In
  <2>3. new.stage = "store" /\ new.seen = r.seen
    BY <1>1, <2>1, <2>2
  <2>. QED  BY <2>2, <2>3, OrderStays DEF Flushed, OrderInv
<1>4. CASE Picture!GiveAsset(h) \/ Picture!RemoveObject(h) \/ Picture!Fail(h)
  <2>1. PICK new : new = Picture!Idle
    OBVIOUS
  <2>2. /\ request' = [request EXCEPT ![h] = new] /\ UNCHANGED <<gallery, crossed>>
    BY <1>4, <2>1 DEF Picture!GiveAsset, Picture!RemoveObject, Picture!Fail
  <2>. QED  BY <2>1, <2>2, IdleIsFree, OrderStays
<1>5. CASE Picture!Flush(h)
  <2>1. PICK rows0, order0 :
          /\ request' = [request EXCEPT ![h].rows = rows0, ![h].stage = "cards", ![h].order = order0]
          /\ order0 = IF r.op = "media" THEN Picture!NextPosition ELSE r.order
    BY <1>5 DEF Picture!Flush
  <2>2. PICK new : new = [r EXCEPT !.rows = rows0, !.stage = "cards", !.order = order0]
    OBVIOUS
  <2>6. UNCHANGED <<gallery, crossed>> /\ r.stage \in {"store", "row"}
    BY <1>5 DEF Picture!Flush, Picture!In
  <2>7. request' = [request EXCEPT ![h] = new]
    BY <2>1, <2>2
  <2>3. /\ request' = [request EXCEPT ![h] = new] /\ UNCHANGED <<gallery, crossed>> /\ r.stage \in {"store", "row"}
    BY <2>6, <2>7
  <2>4. new.op = r.op /\ new.seen = r.seen /\ new.order = order0
    BY <1>1, <2>2
  <2>5. r.op = "media" => \A n \in Picture!Rows(gallery) : gallery[n] < order0
    BY <2>1, NextPositionIs DEF GalleryInv
  <2>. QED  BY <2>3, <2>4, <2>5, OrderStays DEF OrderInv
<1>6. CASE Picture!ClearCards(h) \/ Picture!Resume(h)
  <2>1. PICK stage \in {"wait", "rebuild"}, rev \in {cardRev, r.rev} :
          /\ request' = [request EXCEPT ![h] = [r EXCEPT !.rev = rev, !.stage = stage]]
    <3>1. CASE Picture!ClearCards(h)
      <4>1. PICK at \in {"wait", "rebuild"} : request' = [request EXCEPT ![h].rev = cardRev, ![h].stage = at]
        BY <3>1 DEF Picture!ClearCards
      <4>2. request' = [request EXCEPT ![h] = [r EXCEPT !.rev = cardRev, !.stage = at]]
        BY <4>1
      <4>. QED  BY <4>2
    <3>2. CASE Picture!Resume(h)
      <4>1. request' = [request EXCEPT ![h].stage = "rebuild"]
        BY <3>2 DEF Picture!Resume
      <4>2. [r EXCEPT !.rev = r.rev, !.stage = "rebuild"] = [r EXCEPT !.stage = "rebuild"]
        BY <1>1
      <4>3. request' = [request EXCEPT ![h] = [r EXCEPT !.rev = r.rev, !.stage = "rebuild"]]
        BY <4>1, <4>2
      <4>. QED  BY <4>3
    <3>. QED  BY <1>6, <3>1, <3>2
  <2>2. PICK new : new = [r EXCEPT !.rev = rev, !.stage = stage]
    OBVIOUS
  <2>3. /\ request' = [request EXCEPT ![h] = new] /\ UNCHANGED <<gallery, crossed>>
        /\ r.stage \in {"cards", "wait"}
    BY <1>6, <2>1, <2>2 DEF Picture!ClearCards, Picture!Resume, Picture!In
  <2>4. new.op = r.op /\ new.seen = r.seen /\ new.order = r.order
    BY <1>1, <2>2
  <2>. QED  BY <2>3, <2>4, OrderStays DEF OrderInv, Flushed
<1>. QED  BY <1>2, <1>3, <1>4, <1>5, <1>6

\* What a request writes that nobody crossed: a last position, no position, or the places of
\* an order.
LEMMA CommitOrders ==
  ASSUME GalleryInv, OrderInv, NEW h \in Hands, Picture!Commit(h)
  PROVE  OrderInv'
<1>. DEFINE r == request[h]
            g == Picture!GalleryAfter(r)
<1>1. /\ r.stage = "rebuild" /\ gallery' = g
      /\ crossed' = (crossed \/ \E x \in Hands \ {h} : request[x].stage \notin {"idle", "remove"})
      /\ request' = [request EXCEPT ![h] =
           IF r.op = "delete" THEN [r EXCEPT !.stage = "remove", !.rows = {}] ELSE Picture!Idle]
  BY DEF Picture!Commit, Picture!In
<1>2. crossed' \in BOOLEAN
  BY <1>1 DEF OrderInv
<1>3. CASE crossed'
  BY <1>2, <1>3 DEF OrderInv
<1>4. CASE ~crossed'
  <2>1. ~crossed /\ \A x \in Hands \ {h} : request[x].stage \in {"idle", "remove"}
    BY <1>1, <1>4
  <2>2. /\ DOMAIN r = {"op", "name", "todo", "order", "seen", "rows", "stage", "rev"}
        /\ PictureJob(r, names) /\ Flushed(r)
    BY <1>1 DEF GalleryInv, PictureJob, Flushed
  <2>3. \A x \in Hands : request'[x].stage \in {"idle", "remove"}
    BY <1>1, <2>1, <2>2, IdleIsFree DEF GalleryInv
  <2>4. Picture!Rows(gallery)' = Picture!Rows(g)
    BY <1>1 DEF Picture!Rows, Picture!Names
  <2>5. r.seen = gallery /\ (r.op = "media" => \A n \in Picture!Rows(gallery) : gallery[n] < r.order)
        /\ \A m, n \in Picture!Rows(gallery) : gallery[m] = gallery[n] => m = n
    BY <1>1, <2>1, <2>2 DEF OrderInv
  <2>6. /\ \A n \in Picture!Names \ r.rows : g[n] = gallery[n]
        /\ r.op = "media" => /\ g[r.name] = r.order /\ r.rows = {r.name}
                             /\ Picture!Rows(g) = Picture!Rows(gallery) \cup {r.name}
        /\ r.op = "delete" => r.rows = {r.name} /\ Picture!Rows(g) = Picture!Rows(gallery) \ {r.name}
        /\ r.op = "reorder" => /\ Picture!Rows(g) = Picture!Rows(gallery)
                               /\ \A n \in r.rows : \E i \in DOMAIN r.order : r.order[i] = n /\ g[n] = i - 1
        /\ r.op \in {"media", "delete", "reorder"}
    BY <1>1, GalleryLeft
  <2>7. /\ gallery \in [Picture!Names -> Nat \cup {None}]
        /\ \A n \in Picture!Rows(gallery) : gallery[n] \in Nat /\ n \in Picture!Names
    BY DEF GalleryInv, Picture!Rows
  <2>. HIDE DEF g
  <2>8. \A m, n \in Picture!Rows(g) : g[m] = g[n] => m = n
    <3>1. CASE r.op = "media"
      <4>1. r.order \in Nat
        BY <2>2, <3>1 DEF PictureJob
      <4>. QED  BY <2>5, <2>6, <2>7, <3>1, <4>1
    <3>2. CASE r.op = "delete"
      BY <2>5, <2>6, <2>7, <3>2
    <3>3. CASE r.op = "reorder"
      <4>1. /\ r.rows = Picture!Moved(r) /\ DOMAIN r.order \subseteq Nat \ {0}
            /\ {r.order[i] : i \in DOMAIN r.order} = Picture!Rows(gallery)
        BY <2>2, <2>5, <3>3 DEF PictureJob
      <4>2. ASSUME NEW n \in Picture!Rows(gallery) PROVE \E i \in DOMAIN r.order : r.order[i] = n /\ g[n] = i - 1
        <5>1. CASE n \in r.rows
          BY <2>6, <3>3, <5>1
        <5>2. CASE n \notin r.rows
          <6>1. PICK i \in DOMAIN r.order : r.order[i] = n
            BY <4>1
          <6>2. n \in Picture!Range(r.order)
            BY <6>1 DEF Picture!Range
          <6>3. gallery[n] = i - 1
            BY <2>5, <4>1, <5>2, <6>1, <6>2 DEF Picture!Moved
          <6>. QED  BY <2>6, <2>7, <5>2, <6>1, <6>3
        <5>. QED  BY <5>1, <5>2
      <4>3. ASSUME NEW m \in Picture!Rows(gallery), NEW n \in Picture!Rows(gallery), g[m] = g[n] PROVE m = n
        <5>1. PICK i \in DOMAIN r.order : r.order[i] = m /\ g[m] = i - 1
          BY <4>2
        <5>2. PICK j \in DOMAIN r.order : r.order[j] = n /\ g[n] = j - 1
          BY <4>2
        <5>3. i \in Nat /\ j \in Nat
          BY <4>1
        <5>4. i - 1 = j - 1
          BY <4>3, <5>1, <5>2
        <5>5. i = j
          BY <5>3, <5>4
        <5>. QED  BY <5>1, <5>2, <5>5
      <4>. QED  BY <2>6, <3>3, <4>3
    <3>. QED  BY <2>6, <3>1, <3>2, <3>3
  <2>9. \A m, n \in Picture!Rows(gallery)' : gallery'[m] = gallery'[n] => m = n
    BY <1>1, <2>4, <2>8 DEF g
  <2>. QED  BY <1>2, <2>3, <2>9 DEF OrderInv
<1>. QED  BY <1>2, <1>3, <1>4

\* The two counts of a set are one.
LEMMA SameCount == \A S : Picture!Cardinality(S) = Cardinality(S)
BY DEF Picture!Cardinality, Cardinality

\* No fault, nothing more left behind.
LEMMA FewerLeft ==
  ASSUME LeftInv, Leftovers' \subseteq Leftovers, faults' = faults
  PROVE  LeftInv'
<1>1. IsFiniteSet(Leftovers') /\ Cardinality(Leftovers') =< Cardinality(Leftovers)
      /\ Cardinality(Leftovers) \in Nat /\ Cardinality(Leftovers') \in Nat
  BY FS_Subset, FS_CardinalityType DEF LeftInv
<1>. QED  BY <1>1 DEF LeftInv

\* A fault, one more left behind.
LEMMA OneMoreLeft ==
  ASSUME LeftInv, NEW o, Leftovers' \subseteq Leftovers \cup {o}, faults' = faults + 1
  PROVE  LeftInv'
<1>1. /\ IsFiniteSet(Leftovers \cup {o}) /\ Cardinality(Leftovers) \in Nat
      /\ Cardinality(Leftovers \cup {o}) =< Cardinality(Leftovers) + 1
  <2>1. PICK S : S = Leftovers
    OBVIOUS
  <2>2. IsFiniteSet(S) /\ Cardinality(S) \in Nat
    BY <2>1, FS_CardinalityType DEF LeftInv
  <2>3. /\ IsFiniteSet(S \cup {o})
        /\ Cardinality(S \cup {o}) = IF o \in S THEN Cardinality(S) ELSE Cardinality(S) + 1
    BY <2>2, FS_AddElement
  <2>. QED  BY <2>1, <2>2, <2>3
<1>2. IsFiniteSet(Leftovers') /\ Cardinality(Leftovers') =< Cardinality(Leftovers \cup {o})
      /\ Cardinality(Leftovers \cup {o}) \in Nat /\ Cardinality(Leftovers') \in Nat
  BY <1>1, FS_Subset, FS_CardinalityType
<1>3. \A a, b, c, d \in Nat : a =< b /\ b =< c + 1 /\ c =< d => a =< d + 1
  OBVIOUS
<1>4. faults \in Nat /\ Cardinality(Leftovers) =< faults /\ faults + 1 \in Nat
  BY DEF LeftInv
<1>. HIDE DEF Leftovers
<1>5. Cardinality(Leftovers') =< faults + 1
  BY <1>1, <1>2, <1>3, <1>4
<1>. QED  BY <1>2, <1>4, <1>5 DEF LeftInv

\* An original a request's name does not cover was left behind before.
LEMMA LeftBefore ==
  ASSUME GalleryInv, StoreInv, NEW h \in Hands, NEW new, request' = [request EXCEPT ![h] = new],
         NEW o \in Leftovers', o \in stored,
         o.name \in Shown \cup {request[h].name} => o.name \in Shown' \cup {new.name}
  PROVE  o \in Leftovers
<1>1. o.width = 0 /\ o.name \notin Shown' \cup {request'[x].name : x \in Hands}
  BY DEF Leftovers, Shown
<1>2. request'[h] = new /\ \A x \in Hands \ {h} : request'[x] = request[x]
  BY DEF GalleryInv
<1>3. o.name \notin Shown \cup {request[x].name : x \in Hands}
  BY <1>1, <1>2
<1>. QED  BY <1>1, <1>3 DEF Leftovers, Shown

LEMMA HandsLeave ==
  ASSUME GalleryInv, Made, LeftInv, NEW h \in Hands,
         \/ \E op \in {"media", "asset"}, f \in Files : Picture!BeginUpload(h, op, f)
         \/ \E n \in Picture!Names : Picture!BeginDelete(h, n)
         \/ \E order \in Picture!Arrangements(Picture!Rows(gallery)) : Picture!BeginReorder(h, order)
         \/ Picture!PutObjects(h) \/ Picture!GiveAsset(h) \/ Picture!Flush(h) \/ Picture!ClearCards(h)
         \/ Picture!Resume(h) \/ Picture!Commit(h) \/ Picture!RemoveObject(h)
  PROVE  LeftInv'
<1>. DEFINE r == request[h]
<1>1. DOMAIN r = {"op", "name", "todo", "order", "seen", "rows", "stage", "rev"} /\ PictureJob(r, names)
  BY DEF GalleryInv, PictureJob
<1>2. StoreInv /\ (\A o \in stored : o.name \in 1 .. names) /\ None \notin 1 .. names
  <2>1. \A n \in 1 .. names : n \in Nat
    OBVIOUS
  <2>. QED  BY <2>1, NoneAssumption DEF Made, StoreInv
<1>3. CASE \/ \E op \in {"media", "asset"}, f \in Files : Picture!BeginUpload(h, op, f)
           \/ \E n \in Picture!Names : Picture!BeginDelete(h, n)
           \/ \E order \in Picture!Arrangements(Picture!Rows(gallery)) : Picture!BeginReorder(h, order)
  <2>1. PICK new : /\ request' = [request EXCEPT ![h] = new] /\ r.stage = "idle"
                   /\ UNCHANGED <<gallery, given, stored, faults>>
    <3>1. CASE \E op \in {"media", "asset"}, f \in Files : Picture!BeginUpload(h, op, f)
      BY <3>1 DEF Picture!BeginUpload, Picture!Start, Picture!In
    <3>2. CASE \E n \in Picture!Names : Picture!BeginDelete(h, n)
      BY <3>2 DEF Picture!BeginDelete, Picture!Start, Picture!In
    <3>3. CASE \E order \in Picture!Arrangements(Picture!Rows(gallery)) : Picture!BeginReorder(h, order)
      BY <3>3 DEF Picture!BeginReorder, Picture!Start, Picture!In
    <3>. QED  BY <1>3, <3>1, <3>2, <3>3
  <2>2. r = Picture!Idle /\ r.name = None
    BY <1>1, <2>1, IdleIsFree DEF PictureJob, Flushed
  <2>3. UNCHANGED Shown
    BY <2>1 DEF Shown
  <2>4. ASSUME NEW o \in Leftovers' PROVE o \in Leftovers
    <3>1. o \in stored /\ o.name # None
      BY <1>2, <2>1, <2>4 DEF Leftovers
    <3>. QED  BY <1>2, <2>1, <2>2, <2>3, <2>4, <3>1, LeftBefore
  <2>. QED  BY <2>1, <2>4, FewerLeft
<1>4. CASE Picture!PutObjects(h)
  <2>1. PICK new : new = [r EXCEPT !.todo = Tail(r.todo)]
    OBVIOUS
  <2>2. /\ request' = [request EXCEPT ![h] = new] /\ UNCHANGED <<gallery, given, faults>>
        /\ new.name = r.name
    BY <1>1, <1>4, <2>1 DEF Picture!PutObjects
  <2>3. \A o \in stored' \ stored : o.name = r.name
    BY <1>4, PutsMake
  <2>4. UNCHANGED Shown
    BY <2>2 DEF Shown
  <2>5. ASSUME NEW o \in Leftovers' PROVE o \in Leftovers
    <3>1. o.name # r.name /\ o \in stored'
      <4>1. request'[h] = new
        BY <2>2 DEF GalleryInv
      <4>. QED  BY <2>2, <2>5, <4>1 DEF Leftovers
    <3>2. o \in stored
      BY <2>3, <3>1
    <3>. QED  BY <1>2, <2>2, <2>4, <2>5, <3>2, LeftBefore
  <2>. QED  BY <2>2, <2>5, FewerLeft
<1>5. CASE Picture!GiveAsset(h)
  <2>1. PICK new : new = Picture!Idle
    OBVIOUS
  <2>2. /\ request' = [request EXCEPT ![h] = new] /\ UNCHANGED <<gallery, stored, faults>>
        /\ given' = given \cup {r.name}
    BY <1>5, <2>1 DEF Picture!GiveAsset
  <2>3. Shown' = Shown \cup {r.name}
    BY <2>2 DEF Shown
  <2>4. ASSUME NEW o \in Leftovers' PROVE o \in Leftovers
    <3>1. o \in stored
      BY <2>2, <2>4 DEF Leftovers
    <3>. QED  BY <1>2, <2>2, <2>3, <2>4, <3>1, LeftBefore
  <2>. QED  BY <2>2, <2>4, FewerLeft
<1>6. CASE Picture!Flush(h) \/ Picture!ClearCards(h) \/ Picture!Resume(h)
  <2>1. PICK new : /\ request' = [request EXCEPT ![h] = new] /\ new.name = r.name
                   /\ UNCHANGED <<stored, gallery, given, faults>>
    <3>1. CASE Picture!Flush(h)
      <4>1. PICK s, q : request' = [request EXCEPT ![h].rows = s, ![h].stage = "cards", ![h].order = q]
        BY <3>1 DEF Picture!Flush
      <4>2. request' = [request EXCEPT ![h] = [r EXCEPT !.rows = s, !.stage = "cards", !.order = q]]
        BY <4>1
      <4>3. PICK new : new = [r EXCEPT !.rows = s, !.stage = "cards", !.order = q]
        OBVIOUS
      <4>4. new.name = r.name
        BY <1>1, <4>3
      <4>. QED  BY <3>1, <4>2, <4>3, <4>4 DEF Picture!Flush
    <3>2. CASE Picture!ClearCards(h)
      <4>1. PICK v, s : request' = [request EXCEPT ![h].rev = v, ![h].stage = s]
        BY <3>2 DEF Picture!ClearCards
      <4>2. request' = [request EXCEPT ![h] = [r EXCEPT !.rev = v, !.stage = s]]
        BY <4>1
      <4>3. PICK new : new = [r EXCEPT !.rev = v, !.stage = s]
        OBVIOUS
      <4>4. new.name = r.name
        BY <1>1, <4>3
      <4>. QED  BY <3>2, <4>2, <4>3, <4>4 DEF Picture!ClearCards
    <3>3. CASE Picture!Resume(h)
      <4>2. request' = [request EXCEPT ![h] = [r EXCEPT !.stage = "rebuild"]]
        BY <3>3 DEF Picture!Resume
      <4>3. PICK new : new = [r EXCEPT !.stage = "rebuild"]
        OBVIOUS
      <4>4. new.name = r.name
        BY <1>1, <4>3
      <4>. QED  BY <3>3, <4>2, <4>3, <4>4 DEF Picture!Resume
    <3>. QED  BY <1>6, <3>1, <3>2, <3>3
  <2>2. UNCHANGED Shown
    BY <2>1 DEF Shown
  <2>3. ASSUME NEW o \in Leftovers' PROVE o \in Leftovers
    <3>1. o \in stored
      BY <2>1, <2>3 DEF Leftovers
    <3>. QED  BY <1>2, <2>1, <2>2, <2>3, <3>1, LeftBefore
  <2>. QED  BY <2>1, <2>3, FewerLeft
<1>7. CASE Picture!Commit(h)
  <2>. DEFINE g == Picture!GalleryAfter(r)
  <2>1. /\ r.stage = "rebuild" /\ gallery' = g
        /\ request' = [request EXCEPT ![h] =
             IF r.op = "delete" THEN [r EXCEPT !.stage = "remove", !.rows = {}] ELSE Picture!Idle]
        /\ UNCHANGED <<stored, given, faults>>
    BY <1>7 DEF Picture!Commit, Picture!In
  <2>2. PICK new : new = IF r.op = "delete" THEN [r EXCEPT !.stage = "remove", !.rows = {}] ELSE Picture!Idle
    OBVIOUS
  <2>3. r.op = "delete" => new.name = r.name
    BY <1>1, <2>2
  <2>4. Picture!Rows(gallery)' = Picture!Rows(g)
    BY <2>1 DEF Picture!Rows, Picture!Names
  <2>5. /\ r.op = "media" => Picture!Rows(g) = Picture!Rows(gallery) \cup {r.name}
        /\ r.op = "delete" => Picture!Rows(g) = Picture!Rows(gallery) \ {r.name}
        /\ r.op = "reorder" => Picture!Rows(g) = Picture!Rows(gallery)
        /\ r.op \in {"media", "delete", "reorder"}
    BY <2>1, GalleryLeft
  <2>. HIDE DEF g
  <2>6. \A n : n \in Shown \cup {r.name} => n \in Shown' \cup {new.name} \/ (r.op = "reorder" /\ n = r.name)
    BY <2>1, <2>3, <2>4, <2>5 DEF Shown
  <2>7. r.op = "reorder" => r.name = None
    BY <1>1 DEF PictureJob
  <2>8. ASSUME NEW o \in Leftovers' PROVE o \in Leftovers
    <3>1. o \in stored /\ o.name # None
      BY <1>2, <2>1, <2>8 DEF Leftovers
    <3>2. request' = [request EXCEPT ![h] = new]
      BY <2>1, <2>2
    <3>. QED  BY <1>2, <2>6, <2>7, <2>8, <3>1, <3>2, LeftBefore
  <2>. QED  BY <2>1, <2>8, FewerLeft
<1>8. CASE Picture!RemoveObject(h)
  <2>1. PICK new : new = Picture!Idle
    OBVIOUS
  <2>2. /\ request' = [request EXCEPT ![h] = new] /\ UNCHANGED <<gallery, given, faults>>
        /\ stored' = stored \ Picture!Original(r.name)
    BY <1>8, <2>1 DEF Picture!RemoveObject, Picture!Removed
  <2>3. UNCHANGED Shown
    BY <2>2 DEF Shown
  <2>4. ASSUME NEW o \in Leftovers' PROVE o \in Leftovers
    <3>1. o \in stored' /\ o.width = 0
      BY <2>4 DEF Leftovers
    <3>2. o \in stored /\ o.name # r.name
      BY <2>2, <3>1 DEF Picture!Original
    <3>. QED  BY <1>2, <2>2, <2>3, <2>4, <3>2, LeftBefore
  <2>. QED  BY <2>2, <2>4, FewerLeft
<1>. QED  BY <1>3, <1>4, <1>5, <1>6, <1>7, <1>8

\* A request that breaks off leaves one original at most.
LEMMA FailLeaves ==
  ASSUME GalleryInv, Made, LeftInv, NEW h \in Hands, Picture!Fail(h)
  PROVE  LeftInv'
<1>. DEFINE r == request[h]
<1>1. PICK new : new = Picture!Idle
  OBVIOUS
<1>2. /\ request' = [request EXCEPT ![h] = new] /\ UNCHANGED <<gallery, given, names>>
      /\ faults' = faults + 1
  BY <1>1 DEF Picture!Fail
<1>3. UNCHANGED Shown
  BY <1>2 DEF Shown
<1>4. StoreInv /\ StoreInv' /\ \A o \in stored' \ stored : o.name = r.name
  BY PutsMake DEF Made
<1>5. ASSUME NEW o \in Leftovers', o.name # r.name PROVE o \in Leftovers
  <2>1. o \in stored
    BY <1>4, <1>5 DEF Leftovers
  <2>. QED  BY <1>2, <1>3, <1>4, <1>5, <2>1, LeftBefore
<1>6. ASSUME NEW o \in Leftovers', NEW p \in Leftovers', o.name = r.name, p.name = r.name
      PROVE  o = p
  BY <1>4, <1>6 DEF StoreInv, Leftovers
<1>7. CASE \E o \in Leftovers' : o.name = r.name
  <2>1. PICK o \in Leftovers' : o.name = r.name
    BY <1>7
  <2>2. Leftovers' \subseteq Leftovers \cup {o}
    BY <1>5, <1>6, <2>1
  <2>. QED  BY <1>2, <2>2, OneMoreLeft
<1>8. CASE ~\E o \in Leftovers' : o.name = r.name
  <2>1. Leftovers' \subseteq Leftovers \cup {None}
    BY <1>5, <1>8
  <2>. QED  BY <1>2, <2>1, OneMoreLeft
<1>. QED  BY <1>7, <1>8

\* Nothing of a request or the gallery changes.
LEMMA RequestsStay ==
  ASSUME GalleryInv, OrderInv, UNCHANGED <<gallery, names, given, request, crossed>>
  PROVE  GalleryInv' /\ OrderInv' /\ UNCHANGED <<Shown, Picture!Rows(gallery)>>
<1>1. UNCHANGED <<Shown, Picture!Rows(gallery), Picture!Names>>
  BY DEF Shown, Picture!Names
<1>2. \A r : Flushed(r)' <=> Flushed(r)
  BY DEF Flushed
<1>3. ASSUME NEW r, NEW k, PictureJob(r, k) PROVE PictureJob(r, k)'
  <2>1. Picture!Moved(r)' = Picture!Moved(r) /\ Picture!Rows(r.seen)' = Picture!Rows(r.seen)
    BY DEF Picture!Moved
  <2>. QED  BY <1>1, <1>2, <1>3, <2>1 DEF PictureJob
<1>4. ASSUME NEW h \in Hands PROVE PictureJob(request[h], names)'
  <2>1. PICK r, k : r = request[h] /\ k = names
    OBVIOUS
  <2>2. PictureJob(r, k)
    BY <2>1 DEF GalleryInv
  <2>3. PictureJob(r, k)' /\ r = request'[h] /\ k = names'
    BY <1>3, <2>1, <2>2
  <2>. QED  BY <2>3
<1>5. GalleryInv'
  BY <1>1, <1>4 DEF GalleryInv, Uploads, Named
<1>6. OrderInv'
  BY <1>1, <1>2 DEF OrderInv, Flushed
<1>. QED  BY <1>1, <1>5, <1>6

LEMMA PictureStays ==
  ASSUME PictureInv, UNCHANGED pictures
  PROVE  PictureInv'
<1>1. UNCHANGED <<stored, gallery, cover, request, names, given, backfill, faults, crossed>>
  BY DEF pictures
<1>2. GalleryInv' /\ OrderInv' /\ UNCHANGED <<Shown, Picture!Rows(gallery)>>
  BY <1>1, RequestsStay DEF PictureInv
<1>3. Made'
  <2>1. StoreInv'
    BY <1>1 DEF PictureInv, Made, StoreInv
  <2>2. ASSUME NEW x \in Hands, Uploads(x)' PROVE Progress(request[x])'
    <3>1. PICK s : s = request[x]
      OBVIOUS
    <3>2. Progress(s)'
      BY <1>1, <2>2, <3>1, ProgressStays DEF PictureInv, Made, Uploads
    <3>. QED  BY <1>1, <3>1, <3>2
  <2>3. WholeInv'
    BY <1>1, <1>2, ShownStays DEF PictureInv, Made
  <2>. QED  BY <2>1, <2>2, <2>3 DEF Made
<1>4. LeftInv'
  <2>1. Leftovers' = Leftovers
    BY <1>1, <1>2 DEF Leftovers
  <2>. QED  BY <1>1, <2>1, FewerLeft DEF PictureInv
<1>5. cover' = Picture!MainOf(gallery)'
  BY <1>1 DEF PictureInv, Picture!MainOf, Picture!Rows, Picture!Names
<1>. QED  BY <1>2, <1>3, <1>4, <1>5 DEF PictureInv

\* One step of a request.
LEMMA HandKeeps ==
  ASSUME PictureInv, NEW h \in Hands,
         \/ \E op \in {"media", "asset"}, f \in Files : Picture!BeginUpload(h, op, f)
         \/ \E n \in Picture!Names : Picture!BeginDelete(h, n)
         \/ \E order \in Picture!Arrangements(Picture!Rows(gallery)) : Picture!BeginReorder(h, order)
         \/ Picture!PutObjects(h) \/ Picture!GiveAsset(h) \/ Picture!Flush(h) \/ Picture!ClearCards(h)
         \/ Picture!Resume(h) \/ Picture!Commit(h) \/ Picture!RemoveObject(h) \/ Picture!Fail(h)
  PROVE  PictureInv'
<1>1. GalleryInv'
  <2>1. CASE Picture!RemoveObject(h) \/ Picture!Fail(h)
    BY <2>1, JobIsOver DEF PictureInv, Picture!RemoveObject, Picture!Fail
  <2>. QED  BY <2>1, UploadBegins, RemovalBegins, OrderBegins, JobWorks, GiveKeeps, CommitKeeps DEF PictureInv
<1>2. Made'
  BY BeginsMake, PutsMake, RestMakes DEF PictureInv
<1>3. OrderInv'
  BY HandsOrder, CommitOrders DEF PictureInv
<1>4. LeftInv'
  BY HandsLeave, FailLeaves DEF PictureInv
<1>5. cover' = Picture!MainOf(gallery)'
  <2>1. CASE Picture!Commit(h)
    <3>1. /\ cover' = Picture!MainOf(Picture!GalleryAfter(request[h]))
          /\ gallery' = Picture!GalleryAfter(request[h])
      BY <2>1 DEF Picture!Commit, Picture!CardGallery
    <3>2. PICK g : g = Picture!GalleryAfter(request[h])
      OBVIOUS
    <3>. QED  BY <3>1, <3>2
  <2>2. CASE UNCHANGED <<gallery, cover>>
    BY <2>2 DEF PictureInv
  <2>3. Picture!Commit(h) \/ UNCHANGED <<gallery, cover>>
    BY DEF Picture!BeginUpload, Picture!BeginDelete, Picture!BeginReorder, Picture!Start, Picture!PutObjects,
           Picture!GiveAsset, Picture!Flush, Picture!ClearCards, Picture!Resume, Picture!RemoveObject, Picture!Fail
  <2>. QED  BY <2>1, <2>2, <2>3
<1>. QED  BY <1>1, <1>2, <1>3, <1>4, <1>5 DEF PictureInv

\* One step of the script.
LEMMA BackfillKeeps ==
  ASSUME PictureInv,
         Picture!ListOriginals \/ (\E n \in Picture!Names : Picture!ProcessOriginal(n)) \/ Picture!EndBackfill
  PROVE  PictureInv'
<1>1. UNCHANGED <<gallery, cover, request, names, given, faults, crossed>>
  BY DEF Picture!ListOriginals, Picture!ProcessOriginal, Picture!EndBackfill
<1>2. GalleryInv' /\ OrderInv' /\ UNCHANGED <<Shown, Picture!Rows(gallery)>>
  BY <1>1, RequestsStay DEF PictureInv
<1>3. Made' /\ \A o \in stored' \ stored : o.width # 0
  BY BackfillMakes DEF PictureInv
<1>4. LeftInv'
  <2>1. Leftovers' \subseteq Leftovers
    BY <1>1, <1>2, <1>3 DEF Leftovers
  <2>. QED  BY <1>1, <2>1, FewerLeft DEF PictureInv
<1>5. cover' = Picture!MainOf(gallery)'
  BY <1>1 DEF PictureInv
<1>. QED  BY <1>2, <1>3, <1>4, <1>5 DEF PictureInv

LEMMA PictureSound ==
  ASSUME PictureInv
  PROVE  Picture!ShownIsWhole /\ Picture!CoverIsFirst /\ Picture!PositionsDiffer /\ Picture!LeftoversAreFaults
<1>1. /\ gallery \in [Picture!Names -> Nat \cup {None}] /\ Shown \subseteq 1 .. names
      /\ names \in Nat /\ Old \in Nat
  BY PicturesAssumption DEF PictureInv, GalleryInv
<1>2. Picture!ShownIsWhole
  <2>1. \A n \in Shown \ 1 .. Old : n > Old
    BY <1>1
  <2>. QED  BY <2>1 DEF PictureInv, Made, WholeInv, Picture!ShownIsWhole, Shown
<1>3. Picture!CoverIsFirst
  <2>1. Picture!Rows(gallery) = {} => cover = None
    BY DEF PictureInv, Picture!MainOf
  <2>2. Picture!Rows(gallery) # {} =>
           /\ cover \in Picture!Rows(gallery)
           /\ \A n \in Picture!Rows(gallery) :
                gallery[n] >= gallery[cover] /\ (gallery[n] = gallery[cover] => n >= cover)
    BY <1>1, MainIsFirst DEF PictureInv
  <2>. QED  BY <2>1, <2>2 DEF Picture!CoverIsFirst
<1>4. Picture!PositionsDiffer
  BY DEF PictureInv, OrderInv, Picture!PositionsDiffer
<1>5. Picture!LeftoversAreFaults
  <2>1. Picture!Cardinality(Leftovers) =< faults
    BY SameCount DEF PictureInv, LeftInv
  <2>. QED  BY <2>1 DEF Picture!LeftoversAreFaults, Leftovers
<1>. QED  BY <1>2, <1>3, <1>4, <1>5

\* Every picture shown has its original and all its copies whatever broke off in between, the
\* cards show the first picture however requests interleave, positions differ unless gallery
\* requests overlapped, and an original nobody shows is what a fault left
\* (add_product_media, delete_product_media, reorder_product_media, rebuild_card, main).
THEOREM PicturesStayWhole == Spec => []PicturesAreWhole
<1>. DEFINE Inv == part = "pictures" => PictureInv
<1>1. Init => Inv
  BY PictureInit DEF Init
<1>2. Inv /\ [Next]_vars => Inv'
  <2>. SUFFICES ASSUME Inv, [Next]_vars, part = "pictures" PROVE PictureInv'
    BY PartStep
  <2>1. CASE PicturesStep
    BY <2>1, HandKeeps, BackfillKeeps DEF PicturesStep
  <2>2. CASE UNCHANGED pictures
    BY <2>2, PictureStays
  <2>. QED  BY <2>1, <2>2, PartStep
<1>3. Inv => PicturesAreWhole
  BY PictureSound DEF PicturesAreWhole
<1>. QED  BY <1>1, <1>2, <1>3, PTL DEF Spec

-----------------------------------------------------------------------------
\* Variants

\* Of each attribute in as one value, and no value of another.
OneEach(c, as) ==
  /\ \A v \in c : AttributeOf[v] \in as
  /\ \A a \in as : \E v \in c : AttributeOf[v] = a /\ \A w \in c : AttributeOf[w] = a => w = v

Calling == {k \in Clerks : call[k].pc # "idle"}

\* What a request on variants holds: nothing, or what it was asked and the combinations to add.
VaryCall(r) ==
  \/ r = Vary!NoCall
  \/ /\ DOMAIN r = {"pc", "op", "new"} /\ r.pc = "read" /\ r.op \in Vary!Ops
     /\ r.new \subseteq SUBSET Vary!Values
     /\ r.op.kind \notin {"create", "generate"} => r.new = {}

\* As long as nobody else is at work, what it read is still so.
StillSo(r) ==
  /\ \A c \in r.new : OneEach(c, axes) /\ ~Vary!ComboExists(c)
  /\ r.op.kind = "generate" =>
       r.new = Vary!Missing /\ \A a \in axes : \E v \in assigned : AttributeOf[v] = a

\* Rows point at rows that exist, and the bound covers the requests under way.
KeysInv ==
  /\ DOMAIN call = Clerks /\ \A k \in Clerks : VaryCall(call[k])
  /\ combo \in [VariantIds -> (SUBSET values) \cup {None}]
  /\ assigned \subseteq values /\ values \subseteq Vary!Values
  /\ {AttributeOf[v] : v \in values} \cup axes \subseteq attrs /\ attrs \subseteq Vary!Attributes
  /\ changes \in Nat /\ IsFiniteSet(Calling) /\ changes + Cardinality(Calling) =< MaxChanges

\* As long as no two requests overlapped, variants have one value on each axis, no two the same.
ToldInv ==
  /\ raced \in BOOLEAN
  /\ ~raced =>
       /\ \A i \in Vary!Existing \ outgrown : OneEach(combo[i], axes)
       /\ \A i, j \in Vary!Existing : combo[i] = combo[j] => i = j
       /\ \A k \in Clerks : call[k].pc = "read" => StillSo(call[k])
       /\ \A k, l \in Calling : k = l

VaryInv == KeysInv /\ ToldInv

LEMMA VaryCardinality == \A S : Vary!Cardinality(S) = Cardinality(S)
BY DEF Vary!Cardinality, Cardinality

LEMMA SingleCount ==
  ASSUME NEW S, IsFiniteSet(S)
  PROVE  /\ Cardinality(S) = 1 <=> \E x \in S : \A y \in S : y = x
         /\ Cardinality(S) = 0 <=> S = {}
<1>1. ASSUME Cardinality(S) = 1 PROVE \E x \in S : \A y \in S : y = x
  <2>1. PICK x : S = {x}
    BY <1>1, FS_Singleton
  <2>. QED  BY <2>1
<1>2. ASSUME NEW x \in S, \A y \in S : y = x PROVE Cardinality(S) = 1
  <2>1. S = {x}
    BY <1>2
  <2>. QED  BY <2>1, FS_Singleton
<1>. QED  BY <1>1, <1>2, FS_EmptySet

\* What Fits counts, said without counting.
LEMMA FitsMeans ==
  ASSUME NEW c \in SUBSET Vary!Values, NEW as \in SUBSET Vary!Attributes
  PROVE  Vary!Fits(c, as) <=> OneEach(c, as)
<1>1. \A v \in c : AttributeOf[v] \in Vary!Attributes
  BY DEF Vary!Attributes, Vary!Values
<1>2. \A a : IsFiniteSet(Vary!ValuesIn(c, a))
  <2>1. IsFiniteSet(c)
    BY VariantsAssumption, FS_Subset DEF Vary!Values
  <2>. TAKE a
  <2>2. Vary!ValuesIn(c, a) \subseteq c
    BY DEF Vary!ValuesIn
  <2>. QED  BY <2>1, <2>2, FS_Subset
<1>3. \A a : Vary!Cardinality(Vary!ValuesIn(c, a)) = 1 <=>
               \E v \in c : AttributeOf[v] = a /\ \A w \in c : AttributeOf[w] = a => w = v
  <2>. TAKE a
  <2>1. Vary!Cardinality(Vary!ValuesIn(c, a)) = 1 <=>
          \E x \in Vary!ValuesIn(c, a) : \A y \in Vary!ValuesIn(c, a) : y = x
    BY <1>2, SingleCount, VaryCardinality
  <2>. QED  BY <2>1 DEF Vary!ValuesIn
<1>4. \A a : Vary!Cardinality(Vary!ValuesIn(c, a)) = 0 <=> \A v \in c : AttributeOf[v] # a
  <2>. TAKE a
  <2>1. Vary!Cardinality(Vary!ValuesIn(c, a)) = 0 <=> Vary!ValuesIn(c, a) = {}
    BY <1>2, SingleCount, VaryCardinality
  <2>. QED  BY <2>1 DEF Vary!ValuesIn
<1>5. ASSUME Vary!Fits(c, as) PROVE OneEach(c, as)
  <2>1. \A a \in as : Vary!Cardinality(Vary!ValuesIn(c, a)) = 1
    BY <1>5 DEF Vary!Fits
  <2>2. \A a \in Vary!Attributes \ as : Vary!Cardinality(Vary!ValuesIn(c, a)) = 0
    BY <1>5 DEF Vary!Fits
  <2>3. \A v \in c : AttributeOf[v] \in as
    BY <1>1, <1>4, <2>2
  <2>4. \A a \in as : \E v \in c : AttributeOf[v] = a /\ \A w \in c : AttributeOf[w] = a => w = v
    <3>. TAKE a \in as
    <3>1. Vary!Cardinality(Vary!ValuesIn(c, a)) = 1
      BY <2>1
    <3>2. (Vary!Cardinality(Vary!ValuesIn(c, a)) = 1) =>
            \E v \in c : AttributeOf[v] = a /\ \A w \in c : AttributeOf[w] = a => w = v
      BY <1>3
    <3>. QED  BY <3>1, <3>2
  <2>. QED  BY <2>3, <2>4 DEF OneEach
<1>6. ASSUME OneEach(c, as) PROVE Vary!Fits(c, as)
  <2>1. \A a \in as : Vary!Cardinality(Vary!ValuesIn(c, a)) = 1
    BY <1>3, <1>6 DEF OneEach
  <2>2. \A a \in Vary!Attributes \ as : Vary!Cardinality(Vary!ValuesIn(c, a)) = 0
    <3>. TAKE a \in Vary!Attributes \ as
    <3>1. \A v \in c : AttributeOf[v] # a
      BY <1>6 DEF OneEach
    <3>. QED  BY <1>4, <3>1, Zenon
  <2>. QED  BY <2>1, <2>2 DEF Vary!Fits
<1>. QED  BY <1>5, <1>6

LEMMA VaryInit == Vary!Init => VaryInv
<1>. SUFFICES ASSUME Vary!Init PROVE VaryInv
  OBVIOUS
<1>1. Vary!Existing = {} /\ Calling = {}
  BY DEF Vary!Init, Vary!Existing, Calling, Vary!NoCall
<1>2. DOMAIN call = Clerks /\ \A k \in Clerks : VaryCall(call[k]) /\ call[k].pc = "idle"
  BY DEF Vary!Init, VaryCall, Vary!NoCall
<1>3. /\ combo \in [VariantIds -> (SUBSET values) \cup {None}]
      /\ assigned \subseteq values /\ values \subseteq Vary!Values
      /\ {AttributeOf[v] : v \in values} \cup axes \subseteq attrs /\ attrs \subseteq Vary!Attributes
  <2>1. /\ combo = [i \in VariantIds |-> None] /\ assigned \subseteq values /\ values = Vary!Values
        /\ attrs = Vary!Attributes /\ axes \in {{}, Vary!Attributes}
    BY DEF Vary!Init
  <2>2. \A v \in values : AttributeOf[v] \in Vary!Attributes
    BY <2>1 DEF Vary!Attributes
  <2>3. axes \subseteq attrs
    BY <2>1
  <2>4. combo \in [VariantIds -> (SUBSET values) \cup {None}]
    <3>1. combo = [i \in VariantIds |-> None]
      BY <2>1
    <3>2. [i \in VariantIds |-> None] \in [VariantIds -> (SUBSET values) \cup {None}]
      OBVIOUS
    <3>. QED  BY <3>1, <3>2
  <2>. QED  BY <2>1, <2>2, <2>3, <2>4
<1>4. changes \in Nat /\ IsFiniteSet(Calling) /\ changes + Cardinality(Calling) =< MaxChanges
  BY <1>1, FS_EmptySet, VariantsAssumption DEF Vary!Init
<1>5. raced \in BOOLEAN
  BY DEF Vary!Init
<1>. QED  BY <1>1, <1>2, <1>3, <1>4, <1>5 DEF VaryInv, KeysInv, ToldInv

LEMMA VaryStays == VaryInv /\ UNCHANGED variations => VaryInv'
BY DEF variations, VaryInv, KeysInv, ToldInv, Calling, StillSo, Vary!Existing, Vary!ComboExists,
  Vary!Missing, Vary!Combinations, OneEach, VaryCall, Vary!Fits, Vary!ValuesIn

LEMMA ReadKeeps ==
  ASSUME VaryInv, NEW k \in Clerks, NEW op \in Vary!Ops, Vary!Read(k, op)
  PROVE  VaryInv'
<1>. DEFINE new == CASE op.kind = "create" -> {op.arg} [] op.kind = "generate" -> Vary!Missing [] OTHER -> {}
            rec == [pc |-> "read", op |-> op, new |-> new]
<1>1. /\ call[k].pc = "idle" /\ changes + Cardinality(Calling) < MaxChanges /\ Vary!Accepted(op)
      /\ call' = [call EXCEPT ![k] = rec]
      /\ raced' = (raced \/ \E f \in Clerks : call[f].pc # "idle")
      /\ UNCHANGED <<attrs, values, assigned, axes, combo, outgrown, changes>>
  BY VaryCardinality DEF Vary!Read, Calling
<1>2. DOMAIN call' = Clerks /\ call'[k] = rec /\ \A f \in Clerks \ {k} : call'[f] = call[f]
  BY <1>1 DEF VaryInv, KeysInv
<1>3. Calling' = Calling \cup {k} /\ k \notin Calling
  BY <1>1, <1>2 DEF Calling
<1>4. axes \in SUBSET Vary!Attributes /\ assigned \in SUBSET Vary!Values /\ values \subseteq Vary!Values
  BY DEF VaryInv, KeysInv
<1>5. \A c \in Vary!Missing : c \in SUBSET Vary!Values /\ OneEach(c, axes) /\ ~Vary!ComboExists(c)
  BY <1>4, FitsMeans DEF Vary!Missing, Vary!Combinations
<1>6. op.kind = "create" => op.arg \in SUBSET Vary!Values /\ OneEach(op.arg, axes) /\ ~Vary!ComboExists(op.arg)
  <2>. SUFFICES ASSUME op.kind = "create"
                PROVE  op.arg \in SUBSET Vary!Values /\ OneEach(op.arg, axes) /\ ~Vary!ComboExists(op.arg)
    OBVIOUS
  <2>1. op.arg \subseteq values /\ Vary!Fits(op.arg, axes) /\ ~Vary!ComboExists(op.arg)
    BY <1>1 DEF Vary!Accepted
  <2>2. op.arg \in SUBSET Vary!Values
    BY <1>4, <2>1
  <2>. QED  BY <1>4, <2>1, <2>2, FitsMeans
<1>7. op.kind = "generate" => \A a \in axes : \E v \in assigned : AttributeOf[v] = a
  <2>. SUFFICES ASSUME op.kind = "generate", NEW a \in axes PROVE \E v \in assigned : AttributeOf[v] = a
    OBVIOUS
  <2>1. Vary!ValuesIn(assigned, a) # {}
    BY <1>1 DEF Vary!Accepted
  <2>. QED  BY <2>1 DEF Vary!ValuesIn
<1>8. /\ new \subseteq SUBSET Vary!Values
      /\ \A c \in new : OneEach(c, axes) /\ ~Vary!ComboExists(c)
      /\ op.kind \notin {"create", "generate"} => new = {}
      /\ op.kind = "generate" => new = Vary!Missing
  <2>1. CASE op.kind = "create"
    BY <1>6, <2>1
  <2>2. CASE op.kind = "generate"
    BY <1>5, <2>2
  <2>3. CASE op.kind \notin {"create", "generate"}
    BY <2>3
  <2>. QED  BY <2>1, <2>2, <2>3
<1>9. VaryCall(rec) /\ StillSo(rec)
  BY <1>7, <1>8 DEF VaryCall, StillSo
<1>. HIDE DEF rec
<1>10. KeysInv'
  <2>1. \A f \in Clerks : VaryCall(call'[f])
    BY <1>2, <1>9 DEF VaryInv, KeysInv
  <2>2. IsFiniteSet(Calling') /\ Cardinality(Calling') = Cardinality(Calling) + 1 /\ Cardinality(Calling) \in Nat
    BY <1>3, FS_AddElement, FS_CardinalityType DEF VaryInv, KeysInv
  <2>3. changes' \in Nat /\ changes' + Cardinality(Calling') =< MaxChanges
    BY <1>1, <2>2, VariantsAssumption DEF VaryInv, KeysInv
  <2>. QED  BY <1>1, <1>2, <2>1, <2>2, <2>3 DEF VaryInv, KeysInv
<1>11. ToldInv'
  <2>1. raced' \in BOOLEAN
    BY <1>1 DEF VaryInv, ToldInv
  <2>. SUFFICES ASSUME ~raced'
                PROVE  /\ \A i \in Vary!Existing' \ outgrown' : OneEach(combo[i], axes)'
                       /\ \A i, j \in Vary!Existing' : combo'[i] = combo'[j] => i = j
                       /\ \A f \in Clerks : call'[f].pc = "read" => StillSo(call[f])'
                       /\ \A f, g \in Calling' : f = g
    BY <2>1 DEF ToldInv
  <2>2. ~raced /\ Calling = {}
    BY <1>1 DEF Calling
  <2>3. Calling' = {k}
    BY <1>3, <2>2
  <2>4. \A f \in Clerks : call'[f].pc = "read" => f = k
    BY <2>3 DEF Calling
  <2>5. PICK r : r = rec
    OBVIOUS
  <2>6. Vary!Missing' = Vary!Missing /\ Vary!Existing' = Vary!Existing
    BY <1>1 DEF Vary!Missing, Vary!Combinations, Vary!ComboExists, Vary!Existing
  <2>7. StillSo(r)'
    <3>1. StillSo(r)
      BY <1>9, <2>5
    <3>. QED  BY <1>1, <2>6, <3>1 DEF StillSo, OneEach, Vary!ComboExists
  <2>8. \A f \in Clerks : call'[f].pc = "read" => StillSo(call[f])'
    <3>1. call'[k] = r
      BY <1>2, <2>5
    <3>. QED  BY <2>4, <2>7, <3>1
  <2>. QED  BY <1>1, <2>2, <2>3, <2>6, <2>8 DEF VaryInv, ToldInv, OneEach
<1>. QED  BY <1>10, <1>11 DEF VaryInv

\* A call that ends leaves what the others hold.
LEMMA CallEnds ==
  ASSUME VaryInv, NEW k \in Clerks, call[k].pc = "read", call' = [call EXCEPT ![k] = Vary!NoCall]
  PROVE  /\ DOMAIN call' = Clerks /\ \A f \in Clerks : VaryCall(call'[f])
         /\ IsFiniteSet(Calling') /\ Cardinality(Calling') \in Nat /\ Cardinality(Calling) = Cardinality(Calling') + 1
         /\ ~raced => Calling' = {} /\ \A f \in Clerks : call'[f].pc # "read"
<1>1. DOMAIN call' = Clerks /\ call'[k] = Vary!NoCall /\ \A f \in Clerks \ {k} : call'[f] = call[f]
  BY DEF VaryInv, KeysInv
<1>2. Vary!NoCall.pc = "idle"
  BY DEF Vary!NoCall
<1>3. Calling' = Calling \ {k} /\ k \in Calling
  BY <1>1, <1>2 DEF Calling
<1>4. IsFiniteSet(Calling') /\ Cardinality(Calling') = Cardinality(Calling) - 1 /\ Cardinality(Calling') \in Nat
      /\ Cardinality(Calling) \in Nat
  BY <1>3, FS_RemoveElement, FS_CardinalityType DEF VaryInv, KeysInv
<1>5. \A f \in Clerks : VaryCall(call'[f])
  BY <1>1 DEF VaryInv, KeysInv, VaryCall
<1>6. ASSUME ~raced PROVE Calling' = {} /\ \A f \in Clerks : call'[f].pc # "read"
  <2>1. Calling' = {}
    BY <1>3, <1>6 DEF VaryInv, ToldInv
  <2>. QED  BY <2>1 DEF Calling
<1>. QED  BY <1>1, <1>4, <1>5, <1>6

LEMMA CombosAreSets == \A c \in SUBSET Vary!Values : c # None
BY VariantsAssumption DEF Vary!Values

\* New variants stand beside the old ones, one for each of the combinations to add.
LEMMA AddsNew ==
  ASSUME VaryInv, NEW k \in Clerks, call[k].pc = "read", ~Vary!Breaks(k), Vary!AddVariants(k)
  PROVE  /\ combo' \in [VariantIds -> (SUBSET values) \cup {None}]
         /\ \A i \in Vary!Existing : i \in Vary!Existing' /\ combo'[i] = combo[i]
         /\ \A i \in Vary!Existing' \ Vary!Existing : combo'[i] \in call[k].new
         /\ \A i, j \in Vary!Existing' \ Vary!Existing : combo'[i] = combo'[j] => i = j
         /\ \A c \in call[k].new : \E i \in Vary!Existing' : combo'[i] = c
<1>. DEFINE new == call[k].new
<1>1. new \subseteq SUBSET values /\ \A c \in new : c # None
  <2>1. UNION new \subseteq values /\ values \subseteq Vary!Values
    BY DEF Vary!Breaks, VaryInv, KeysInv
  <2>. QED  BY <2>1, CombosAreSets
<1>2. PICK f \in Vary!Numbered(new) :
        combo' = [i \in VariantIds |-> IF \E c \in new : f[c] = i
                                       THEN CHOOSE c \in new : f[c] = i ELSE combo[i]]
  BY DEF Vary!AddVariants
<1>. HIDE DEF new
<1>3. f \in [new -> VariantIds \ Vary!Existing] /\ \A c, d \in new : f[c] = f[d] => c = d
  BY DEF Vary!Numbered, Vary!IsInjective
<1>4. \A i \in VariantIds : (\E c \in new : f[c] = i) => combo'[i] \in new /\ f[combo'[i]] = i
  BY <1>2
<1>5. \A i \in VariantIds : ~(\E c \in new : f[c] = i) => combo'[i] = combo[i]
  BY <1>2
<1>6. \A i \in Vary!Existing : i \in VariantIds /\ ~\E c \in new : f[c] = i
  BY <1>3 DEF Vary!Existing
<1>7. combo' \in [VariantIds -> (SUBSET values) \cup {None}]
  <2>1. combo' = [i \in VariantIds |-> combo'[i]]
    BY <1>2
  <2>2. \A i \in VariantIds : combo'[i] \in (SUBSET values) \cup {None}
    <3>1. combo \in [VariantIds -> (SUBSET values) \cup {None}]
      BY DEF VaryInv, KeysInv
    <3>. QED  BY <1>1, <1>4, <1>5, <3>1
  <2>. QED  BY <2>1, <2>2
<1>8. \A i \in Vary!Existing : i \in Vary!Existing' /\ combo'[i] = combo[i]
  BY <1>5, <1>6 DEF Vary!Existing
<1>9. \A i \in Vary!Existing' \ Vary!Existing : i \in VariantIds /\ combo'[i] \in new /\ f[combo'[i]] = i
  BY <1>4, <1>5 DEF Vary!Existing
<1>10. \A c \in new : \E i \in Vary!Existing' : combo'[i] = c
  <2>. TAKE c \in new
  <2>1. f[c] \in VariantIds
    BY <1>3
  <2>2. combo'[f[c]] \in new /\ f[combo'[f[c]]] = f[c]
    BY <1>4, <2>1
  <2>3. combo'[f[c]] = c
    BY <1>3, <2>2
  <2>. QED  BY <1>1, <2>1, <2>3 DEF Vary!Existing
<1>. QED  BY <1>7, <1>8, <1>9, <1>10 DEF new

LEMMA AddKeeps ==
  ASSUME VaryInv, NEW k \in Clerks, call[k].pc = "read", ~Vary!Breaks(k), Vary!AddVariants(k), Vary!Done(k)
  PROVE  VaryInv'
<1>1. /\ call' = [call EXCEPT ![k] = Vary!NoCall] /\ changes' = changes + 1 /\ raced' = raced
      /\ UNCHANGED <<attrs, values, assigned, axes, outgrown>>
  BY DEF Vary!Done, Vary!AddVariants
<1>2. KeysInv'
  <2>1. /\ DOMAIN call' = Clerks /\ \A f \in Clerks : VaryCall(call'[f])
        /\ IsFiniteSet(Calling') /\ Cardinality(Calling') \in Nat
        /\ Cardinality(Calling) = Cardinality(Calling') + 1
    BY <1>1, CallEnds
  <2>2. changes' \in Nat /\ changes' + Cardinality(Calling') =< MaxChanges
    BY <1>1, <2>1, VariantsAssumption DEF VaryInv, KeysInv
  <2>3. combo' \in [VariantIds -> (SUBSET values) \cup {None}]
    BY AddsNew
  <2>. QED  BY <1>1, <2>1, <2>2, <2>3 DEF VaryInv, KeysInv
<1>3. ToldInv'
  <2>1. raced' \in BOOLEAN
    BY <1>1 DEF VaryInv, ToldInv
  <2>. SUFFICES ASSUME ~raced
                PROVE  /\ \A i \in Vary!Existing' \ outgrown : OneEach(combo'[i], axes)
                       /\ \A i, j \in Vary!Existing' : combo'[i] = combo'[j] => i = j
    BY <1>1, <2>1, CallEnds DEF ToldInv, OneEach
  <2>2. \A c \in call[k].new : OneEach(c, axes) /\ ~Vary!ComboExists(c)
    BY DEF VaryInv, ToldInv, StillSo
  <2>3. \A i \in Vary!Existing' \ outgrown : OneEach(combo'[i], axes)
    BY <2>2, AddsNew DEF VaryInv, ToldInv
  <2>4. \A i \in Vary!Existing, j \in Vary!Existing' \ Vary!Existing : combo'[i] # combo'[j]
    BY <2>2, AddsNew DEF Vary!ComboExists
  <2>5. \A i, j \in Vary!Existing : combo[i] = combo[j] => i = j
    BY DEF VaryInv, ToldInv
  <2>6. \A i, j \in Vary!Existing' : combo'[i] = combo'[j] => i = j
    BY <2>4, <2>5, AddsNew
  <2>. QED  BY <2>3, <2>6
<1>. QED  BY <1>2, <1>3 DEF VaryInv

\* The requests that add no variant: rows stay rows, and who is unraced stays told apart.
LEMMA OthersKeep ==
  ASSUME VaryInv, NEW k \in Clerks, call[k].pc = "read",
         call' = [call EXCEPT ![k] = Vary!NoCall], changes' \in {changes, changes + 1}, raced' = raced,
         combo' \in [VariantIds -> (SUBSET values') \cup {None}],
         assigned' \subseteq values', values' \subseteq Vary!Values,
         {AttributeOf[v] : v \in values'} \cup axes' \subseteq attrs', attrs' \subseteq Vary!Attributes,
         \A i \in Vary!Existing' : i \in Vary!Existing /\ combo'[i] = combo[i],
         \A i \in Vary!Existing' \ outgrown' : i \notin outgrown /\ axes' = axes
  PROVE  VaryInv'
<1>1. KeysInv'
  <2>1. /\ DOMAIN call' = Clerks /\ \A f \in Clerks : VaryCall(call'[f])
        /\ IsFiniteSet(Calling') /\ Cardinality(Calling') \in Nat
        /\ Cardinality(Calling) = Cardinality(Calling') + 1
    BY CallEnds
  <2>2. changes' \in Nat /\ changes' + Cardinality(Calling') =< MaxChanges
    BY <2>1, VariantsAssumption DEF VaryInv, KeysInv
  <2>. QED  BY <2>1, <2>2 DEF KeysInv
<1>2. ToldInv'
  <2>. SUFFICES ASSUME ~raced
                PROVE  /\ \A i \in Vary!Existing' \ outgrown' : OneEach(combo[i], axes)'
                       /\ \A i, j \in Vary!Existing' : combo'[i] = combo'[j] => i = j
    BY CallEnds DEF VaryInv, ToldInv
  <2>. QED  BY DEF VaryInv, ToldInv, OneEach
<1>. QED  BY <1>1, <1>2 DEF VaryInv

LEMMA WriteKeeps ==
  ASSUME VaryInv, NEW k \in Clerks, Vary!Write(k)
  PROVE  VaryInv'
<1>. DEFINE arg == call[k].op.arg
<1>1. /\ combo \in [VariantIds -> (SUBSET values) \cup {None}]
      /\ assigned \subseteq values /\ values \subseteq Vary!Values
      /\ {AttributeOf[v] : v \in values} \cup axes \subseteq attrs /\ attrs \subseteq Vary!Attributes
  BY DEF VaryInv, KeysInv
<1>2. call[k].pc = "read"
  BY DEF Vary!Write
<1>3. CASE Vary!GivesUp(k)
  BY <1>1, <1>2, <1>3, OthersKeep DEF Vary!GivesUp, Vary!Existing
<1>4. ASSUME ~Vary!GivesUp(k)
      PROVE  /\ ~Vary!Breaks(k) /\ Vary!Done(k)
             /\ \/ Vary!AddVariants(k) \/ Vary!SetProductAttributes(k) \/ Vary!SetVariationAttributes(k)
                \/ Vary!DeleteVariant(k) \/ Vary!DeleteAttributeValue(k) \/ Vary!DeleteAttribute(k)
  BY <1>4 DEF Vary!Write
<1>5. CASE ~Vary!GivesUp(k)
  <2>1. /\ call' = [call EXCEPT ![k] = Vary!NoCall] /\ changes' \in {changes, changes + 1}
        /\ raced' = raced /\ ~Vary!Breaks(k)
    BY <1>4, <1>5 DEF Vary!Done
  <2>2. CASE Vary!AddVariants(k)
    BY <1>2, <1>4, <1>5, <2>2, AddKeeps
  <2>3. CASE Vary!SetProductAttributes(k)
    <3>1. /\ UNCHANGED <<attrs, values, axes, combo, outgrown>> /\ assigned' = arg
          /\ call[k].op.kind = "assign"
      BY <2>3 DEF Vary!SetProductAttributes
    <3>2. arg \subseteq values
      BY <2>1, <3>1 DEF Vary!Breaks
    <3>. QED  BY <1>1, <1>2, <2>1, <3>1, <3>2, OthersKeep DEF Vary!Existing
  <2>4. CASE Vary!SetVariationAttributes(k)
    <3>1. /\ UNCHANGED <<attrs, values, assigned, combo>> /\ axes' = arg
          /\ outgrown' = IF axes' = axes THEN outgrown ELSE Vary!Existing
          /\ call[k].op.kind = "select"
      BY <2>4 DEF Vary!SetVariationAttributes
    <3>2. arg \subseteq attrs
      BY <2>1, <3>1 DEF Vary!Breaks
    <3>3. Vary!Existing' = Vary!Existing
      BY <3>1 DEF Vary!Existing
    <3>4. \A i \in Vary!Existing' \ outgrown' : i \notin outgrown /\ axes' = axes
      BY <3>1, <3>3
    <3>. QED  BY <1>1, <1>2, <2>1, <3>1, <3>2, <3>3, <3>4, OthersKeep
  <2>5. CASE Vary!DeleteVariant(k)
    <3>1. /\ UNCHANGED <<attrs, values, assigned, axes>> /\ outgrown' = outgrown \ arg
          /\ combo' = [i \in VariantIds |-> IF i \in arg THEN None ELSE combo[i]]
      BY <2>5 DEF Vary!DeleteVariant
    <3>2. combo' \in [VariantIds -> (SUBSET values) \cup {None}]
      BY <1>1, <3>1
    <3>3. \A i \in Vary!Existing' : i \in Vary!Existing /\ combo'[i] = combo[i] /\ i \notin arg
      BY <3>1 DEF Vary!Existing
    <3>. QED  BY <1>1, <1>2, <2>1, <3>1, <3>2, <3>3, OthersKeep
  <2>6. CASE Vary!DeleteAttributeValue(k)
    <3>1. /\ UNCHANGED <<attrs, axes, combo, outgrown>> /\ values' = values \ arg
          /\ assigned' = assigned \ arg /\ call[k].op.kind = "dropValue"
      BY <2>6 DEF Vary!DeleteAttributeValue
    <3>2. \A i \in VariantIds : combo[i] = None \/ arg \cap combo[i] = {}
      BY <2>1, <3>1 DEF Vary!Breaks, Vary!Existing
    <3>3. combo \in [VariantIds -> (SUBSET values') \cup {None}]
      BY <1>1, <3>1, <3>2
    <3>. QED  BY <1>1, <1>2, <2>1, <3>1, <3>3, OthersKeep DEF Vary!Existing
  <2>7. CASE Vary!DeleteAttribute(k)
    <3>. DEFINE gone == {v \in Vary!Values : AttributeOf[v] \in arg}
    <3>1. /\ UNCHANGED <<axes, combo, outgrown>> /\ values' = values \ gone /\ attrs' = attrs \ arg
          /\ assigned' = assigned \ gone /\ call[k].op.kind = "dropAttribute"
      BY <2>7 DEF Vary!DeleteAttribute
    <3>2. /\ arg \cap axes = {}
          /\ \A i \in VariantIds : combo[i] = None \/ \A v \in combo[i] : AttributeOf[v] \notin arg
      BY <2>1, <3>1 DEF Vary!Breaks, Vary!Existing
    <3>3. combo \in [VariantIds -> (SUBSET values') \cup {None}]
      BY <1>1, <3>1, <3>2
    <3>4. {AttributeOf[v] : v \in values'} \cup axes' \subseteq attrs'
      BY <1>1, <3>1, <3>2
    <3>. QED  BY <1>1, <1>2, <2>1, <3>1, <3>3, <3>4, OthersKeep DEF Vary!Existing
  <2>. QED  BY <1>4, <1>5, <2>2, <2>3, <2>4, <2>5, <2>6, <2>7
<1>. QED  BY <1>3, <1>5

LEMMA CreateKeeps ==
  ASSUME VaryInv, NEW v \in Vary!Values, Vary!CreateValue(v)
  PROVE  VaryInv'
<1>1. /\ changes + Cardinality(Calling) < MaxChanges
      /\ attrs' = attrs \cup {AttributeOf[v]} /\ values' = values \cup {v} /\ changes' = changes + 1
      /\ UNCHANGED <<assigned, axes, combo, call, outgrown, raced>>
  BY VaryCardinality DEF Vary!CreateValue, Calling
<1>2. UNCHANGED <<Calling, Vary!Existing>>
  BY <1>1 DEF Calling, Vary!Existing
<1>3. KeysInv'
  <2>1. AttributeOf[v] \in Vary!Attributes
    BY DEF Vary!Attributes
  <2>2. /\ {AttributeOf[w] : w \in values'} \cup axes \subseteq attrs' /\ attrs' \subseteq Vary!Attributes
        /\ assigned \subseteq values' /\ values' \subseteq Vary!Values
    BY <1>1, <2>1 DEF VaryInv, KeysInv
  <2>3. combo \in [VariantIds -> (SUBSET values') \cup {None}]
    BY <1>1 DEF VaryInv, KeysInv
  <2>4. Cardinality(Calling) \in Nat
    BY FS_CardinalityType DEF VaryInv, KeysInv
  <2>5. changes' \in Nat /\ changes' + Cardinality(Calling) =< MaxChanges
    BY <1>1, <2>4, VariantsAssumption DEF VaryInv, KeysInv
  <2>. QED  BY <1>1, <1>2, <2>2, <2>3, <2>5 DEF VaryInv, KeysInv
<1>4. UNCHANGED Vary!Missing
  BY <1>1 DEF Vary!Missing, Vary!Combinations, Vary!ComboExists, Vary!Existing
<1>5. ToldInv'
  BY <1>1, <1>2, <1>4 DEF VaryInv, ToldInv, StillSo, OneEach, Vary!ComboExists
<1>. QED  BY <1>3, <1>5 DEF VaryInv

\* Where a variant of today's axes exists every axis is a selector, and choosing it means
\* choosing its own values.
LEMMA OneChoice ==
  ASSUME VaryInv, ~raced, NEW i \in Vary!Existing \ outgrown
  PROVE  /\ combo[i] \in Vary!Selections /\ i \in Vary!Offered(combo[i])
         /\ \A c \in Vary!Selections : i \in Vary!Offered(c) => c = combo[i]
<1>1. /\ OneEach(combo[i], axes) /\ axes \in SUBSET Vary!Attributes
      /\ \A j \in Vary!Existing : combo[j] \in SUBSET Vary!Values
  BY DEF VaryInv, KeysInv, ToldInv, Vary!Existing
<1>2. \A v \in combo[i] : AttributeOf[v] \in axes /\ v \in Vary!Selector(AttributeOf[v])
  BY <1>1 DEF OneEach, Vary!Selector, Vary!ValuesIn
<1>3. Vary!Selectors = axes
  <2>1. \A a \in axes : Vary!Selector(a) # {}
    BY <1>1, <1>2 DEF OneEach
  <2>. QED  BY <2>1 DEF Vary!Selectors
<1>4. combo[i] \in Vary!Selections
  <2>1. Vary!Fits(combo[i], axes)
    BY <1>1, FitsMeans
  <2>2. combo[i] \subseteq UNION {Vary!Selector(a) : a \in axes}
    BY <1>2
  <2>. QED  BY <1>3, <2>1, <2>2 DEF Vary!Selections
<1>5. ASSUME NEW c \in Vary!Selections, i \in Vary!Offered(c) PROVE c = combo[i]
  <2>1. c \subseteq combo[i] /\ Vary!Fits(c, axes)
    BY <1>3, <1>5 DEF Vary!Offered, Vary!Selections
  <2>2. c \in SUBSET Vary!Values
    BY <1>1, <2>1
  <2>3. OneEach(c, axes)
    BY <1>1, <2>1, <2>2, FitsMeans
  <2>4. ASSUME NEW v \in combo[i] PROVE v \in c
    <3>1. PICK w \in c : AttributeOf[w] = AttributeOf[v]
      BY <1>2, <2>3 DEF OneEach
    <3>2. w \in combo[i]
      BY <2>1
    <3>3. PICK u \in combo[i] : \A x \in combo[i] : AttributeOf[x] = AttributeOf[v] => x = u
      BY <1>1, <1>2 DEF OneEach
    <3>. QED  BY <3>1, <3>2, <3>3
  <2>. QED  BY <2>1, <2>4
<1>. QED  BY <1>4, <1>5 DEF Vary!Offered

LEMMA VarySound ==
  ASSUME VaryInv
  PROVE  Vary!TypeOK /\ Vary!VariantsAreTold /\ Vary!PageLeadsToVariants
<1>1. /\ combo \in [VariantIds -> (SUBSET values) \cup {None}]
      /\ axes \in SUBSET Vary!Attributes /\ values \subseteq Vary!Values
  BY DEF VaryInv, KeysInv
<1>2. Vary!TypeOK
  <2>1. Cardinality(Calling) \in Nat
    BY FS_CardinalityType DEF VaryInv, KeysInv
  <2>2. changes \in 0 .. MaxChanges
    BY <2>1, VariantsAssumption DEF VaryInv, KeysInv
  <2>3. \A i \in Vary!Existing : combo[i] \subseteq values
    BY <1>1 DEF Vary!Existing
  <2>. QED  BY <2>2, <2>3 DEF VaryInv, KeysInv, Vary!TypeOK
<1>3. Vary!VariantsAreTold
  <2>. SUFFICES ASSUME ~raced
                PROVE  /\ \A i \in Vary!Existing \ outgrown :
                            Vary!Fits(combo[i], axes) /\ Vary!LabelOf(i) = combo[i]
                       /\ \A i, j \in Vary!Existing : i # j => combo[i] # combo[j]
    BY DEF Vary!VariantsAreTold
  <2>1. ASSUME NEW i \in Vary!Existing \ outgrown
        PROVE  Vary!Fits(combo[i], axes) /\ Vary!LabelOf(i) = combo[i]
    <3>1. OneEach(combo[i], axes)
      BY DEF VaryInv, ToldInv
    <3>2. combo[i] \in SUBSET Vary!Values
      BY <1>1 DEF Vary!Existing
    <3>. QED  BY <1>1, <3>1, <3>2, FitsMeans DEF OneEach, Vary!LabelOf
  <2>. QED  BY <2>1 DEF VaryInv, ToldInv
<1>4. Vary!PageLeadsToVariants
  <2>. SUFFICES ASSUME ~raced
                PROVE  /\ \A i \in Vary!Existing \ outgrown :
                            Vary!Cardinality({c \in Vary!Selections : i \in Vary!Offered(c)}) = 1
                       /\ \A c \in Vary!Selections : Vary!Cardinality(Vary!Offered(c) \ outgrown) =< 1
                       /\ \A v \in assigned \ Vary!Characteristics :
                            \E i \in Vary!Existing : Vary!ValuesIn(combo[i], AttributeOf[v]) # {}
    BY DEF Vary!PageLeadsToVariants
  <2>1. ASSUME NEW i \in Vary!Existing \ outgrown
        PROVE  Vary!Cardinality({c \in Vary!Selections : i \in Vary!Offered(c)}) = 1
    <3>1. {c \in Vary!Selections : i \in Vary!Offered(c)} = {combo[i]}
      BY OneChoice
    <3>. QED  BY <3>1, FS_Singleton, VaryCardinality
  <2>2. ASSUME NEW c \in Vary!Selections
        PROVE  Vary!Cardinality(Vary!Offered(c) \ outgrown) =< 1
    <3>. DEFINE S == Vary!Offered(c) \ outgrown
    <3>1. \A i, j \in S : i = j
      <4>1. \A i \in S : i \in Vary!Existing \ outgrown /\ c = combo[i]
        BY OneChoice DEF Vary!Offered
      <4>. QED  BY <4>1 DEF VaryInv, ToldInv
    <3>2. S = {} \/ \E i : S = {i}
      BY <3>1
    <3>. HIDE DEF S
    <3>3. Cardinality(S) \in {0, 1}
      BY <3>2, FS_Singleton, FS_EmptySet
    <3>. QED  BY <3>3, VaryCardinality DEF S
  <2>3. ASSUME NEW v \in assigned \ Vary!Characteristics
        PROVE  \E i \in Vary!Existing : Vary!ValuesIn(combo[i], AttributeOf[v]) # {}
    <3>1. Vary!Selector(AttributeOf[v]) # {}
      BY DEF Vary!Characteristics, Vary!Selectors
    <3>. QED  BY <3>1 DEF Vary!Selector, Vary!ValuesIn
  <2>. QED  BY <2>1, <2>2, <2>3
<1>. QED  BY <1>2, <1>3, <1>4

LEMMA VaryStep ==
  ASSUME VaryInv, VariationsStep
  PROVE  VaryInv'
BY ReadKeeps, WriteKeeps, CreateKeeps DEF VariationsStep

LEMMA VaryAlways == Spec => [](part = "variations" => VaryInv)
<1>. DEFINE Inv == part = "variations" => VaryInv
<1>1. Init => Inv
  BY VaryInit DEF Init
<1>2. Inv /\ [Next]_vars => Inv'
  <2>. SUFFICES ASSUME Inv, [Next]_vars, part = "variations" PROVE VaryInv'
    BY PartStep
  <2>1. CASE VariationsStep
    BY <2>1, VaryStep
  <2>2. CASE UNCHANGED variations
    BY <2>2, VaryStays
  <2>. QED  BY <2>1, <2>2, PartStep
<1>. QED  BY <1>1, <1>2, PTL DEF Spec

\* Values exist that variants and products name, no two variants are the same to a customer,
\* and the product's page leads to each by one choice, unless two requests overlapped
\* (create_variant, generate_variants, delete_attribute_value, get_product).
THEOREM VariantsStayFound == Spec => []VariantsAreFound
<1>1. (part = "variations" => VaryInv) => VariantsAreFound
  BY VarySound DEF VariantsAreFound
<1>. QED  BY <1>1, VaryAlways, PTL

\* An axis with a value assigned to each gives a combination with the value one wants.
LEMMA SomeCombination ==
  ASSUME VaryInv, \A a \in axes : \E v \in assigned : AttributeOf[v] = a,
         NEW a \in axes, NEW v \in assigned, AttributeOf[v] = a
  PROVE  \E c \in Vary!Combinations(assigned, axes) : v \in c
<1>. DEFINE of == [b \in axes |-> IF b = a THEN v ELSE CHOOSE w \in assigned : AttributeOf[w] = b]
            c == {of[b] : b \in axes}
<1>1. \A b \in axes : of[b] \in assigned /\ AttributeOf[of[b]] = b
  OBVIOUS
<1>2. of[a] = v
  OBVIOUS
<1>. HIDE DEF of
<1>3. c \subseteq assigned /\ v \in c
  BY <1>1, <1>2
<1>4. OneEach(c, axes)
  <2>1. \A w \in c : AttributeOf[w] \in axes /\ w = of[AttributeOf[w]]
    BY <1>1
  <2>2. \A b \in axes : of[b] \in c /\ AttributeOf[of[b]] = b
    BY <1>1
  <2>. HIDE DEF c
  <2>. QED  BY <2>1, <2>2 DEF OneEach
<1>5. c \in SUBSET Vary!Values /\ axes \in SUBSET Vary!Attributes
  BY <1>3 DEF VaryInv, KeysInv
<1>. HIDE DEF c
<1>6. Vary!Fits(c, axes)
  BY <1>4, <1>5, FitsMeans
<1>. QED  BY <1>3, <1>6 DEF Vary!Combinations

\* generate_variants alone adds exactly the missing combinations, so the customer finds each
\* assigned value of an axis on the product's page afterwards.
THEOREM GenerationIsComplete == Spec => GenerationCompletes
<1>1. ASSUME part = "variations" => VaryInv, [Next]_vars
      PROVE  part = "variations" => Vary!GeneratesMissing
  <2>. SUFFICES ASSUME part = "variations", NEW k \in Clerks,
                       call[k].pc = "read", call[k].op.kind = "generate", call'[k].pc = "idle",
                       ~raced, changes' # changes
                PROVE  /\ {combo'[i] : i \in Vary!Existing'} =
                            {combo[i] : i \in Vary!Existing} \cup Vary!Combinations(assigned, axes)
                       /\ \A a \in axes : Vary!ValuesIn(assigned, a) \subseteq Vary!Selector(a)'
    BY DEF Vary!GeneratesMissing
  <2>1. VaryInv /\ VariationsStep
    BY <1>1, PartStep DEF variations
  <2>2. ~Vary!Breaks(k) /\ Vary!AddVariants(k)
    <3>1. \A f \in Clerks, op \in Vary!Ops : ~Vary!Read(f, op)
      BY DEF Vary!Read
    <3>2. \A v \in Vary!Values : ~Vary!CreateValue(v)
      BY DEF Vary!CreateValue
    <3>3. PICK f \in Clerks : Vary!Write(f)
      BY <2>1, <3>1, <3>2 DEF VariationsStep
    <3>4. call' = [call EXCEPT ![f] = Vary!NoCall] /\ f = k
      BY <2>1, <3>3 DEF Vary!Write, Vary!GivesUp, Vary!Done, VaryInv, KeysInv
    <3>5. ~Vary!GivesUp(k)
      BY DEF Vary!GivesUp
    <3>. QED  BY <3>3, <3>4, <3>5 DEF Vary!Write, Vary!SetProductAttributes, Vary!SetVariationAttributes,
                Vary!DeleteVariant, Vary!DeleteAttributeValue, Vary!DeleteAttribute
  <2>3. /\ call[k].new = Vary!Missing
        /\ \A a \in axes : \E v \in assigned : AttributeOf[v] = a
    BY <2>1 DEF VaryInv, ToldInv, StillSo
  <2>4. /\ \A i \in Vary!Existing : i \in Vary!Existing' /\ combo'[i] = combo[i]
        /\ \A i \in Vary!Existing' \ Vary!Existing : combo'[i] \in Vary!Missing
        /\ \A c \in Vary!Missing : \E i \in Vary!Existing' : combo'[i] = c
    BY <2>1, <2>2, <2>3, AddsNew
  <2>5. \A c \in Vary!Combinations(assigned, axes) : \E i \in Vary!Existing' : combo'[i] = c
    BY <2>4 DEF Vary!Missing, Vary!ComboExists
  <2>6. \A i \in Vary!Existing' \ Vary!Existing : combo'[i] \in Vary!Combinations(assigned, axes)
    BY <2>4 DEF Vary!Missing
  <2>7. {combo'[i] : i \in Vary!Existing'} =
          {combo[i] : i \in Vary!Existing} \cup Vary!Combinations(assigned, axes)
    BY <2>4, <2>5, <2>6
  <2>8. ASSUME NEW a \in axes, NEW v \in Vary!ValuesIn(assigned, a)
        PROVE  v \in Vary!Selector(a)'
    <3>1. v \in assigned /\ AttributeOf[v] = a
      BY DEF Vary!ValuesIn
    <3>2. PICK c \in Vary!Combinations(assigned, axes) : v \in c
      BY <2>1, <2>3, <3>1, SomeCombination
    <3>3. PICK i \in Vary!Existing' : combo'[i] = c
      BY <2>5
    <3>. QED  BY <3>1, <3>2, <3>3 DEF Vary!Selector, Vary!ValuesIn
  <2>. QED  BY <2>7, <2>8
<1>2. (part = "variations" => VaryInv) /\ [Next]_vars
        => [part = "variations" => Vary!GeneratesMissing]_vars
  BY <1>1
<1>. QED  BY <1>2, VaryAlways, PTL DEF Spec, GenerationCompletes

-----------------------------------------------------------------------------
\* Categories

Editing == {e \in Staff : edit[e].pc # "idle"}

Path(c) == cat[c].path

\* Every step of a path is a category there is, whose own path leads so far.
Rooted ==
  \A c \in Tree!There :
    /\ Path(c)[Len(Path(c))] = c /\ cat[c].parent = Tree!Above(Path(c))
    /\ \A i \in DOMAIN Path(c) :
         /\ Path(c)[i] \in Tree!There /\ Len(Path(Path(c)[i])) = i
         /\ \A j \in 1 .. i : Path(Path(c)[i])[j] = Path(c)[j]

\* What a request on categories holds.
TreeJob(r) ==
  \/ r = Tree!NoEdit
  \/ /\ DOMAIN r = {"pc", "op", "prefix", "old", "from", "paths"} /\ r.pc \in {"begun", "ready"}
     /\ r.op \in Tree!Ops /\ r.prefix \in Seq(Ids) /\ r.old \in Seq(Ids)
     /\ r.pc = "begun" => r.op.kind = "move"
     /\ r.paths \in [DOMAIN r.paths -> Seq(Ids) \ {<<>>}] /\ DOMAIN r.paths \subseteq Ids

\* A new beginning, a category and what follows the first d of an old path.
Graft(s, x, q, d) == Append(s, x) \o SubSeq(q, d + 1, Len(q))

\* A path after the move.
Grafted(r, path) == Graft(r.prefix, r.op.id, path, Len(r.old))

\* What a request has read is still so.
Knows(r) ==
  /\ r.op.parent \in Tree!There \cup {None} /\ r.prefix = Tree!ResolvePath(r.op.parent)
  /\ r.op.kind # "create" => r.op.id \in Tree!There
  /\ r.op.kind = "move" =>
       /\ r.old = Path(r.op.id) /\ r.from = cat[r.op.id].parent
       /\ \A i \in DOMAIN r.prefix : r.prefix[i] # r.op.id
       /\ r.pc = "ready" =>
            /\ DOMAIN r.paths \subseteq Tree!Subtree(r.op.id)
            /\ \A m \in Tree!Subtree(r.op.id) :
                 (IF m \in DOMAIN r.paths THEN r.paths[m] ELSE Path(m)) = Grafted(r, Path(m))

\* Rows point at rows that exist, a category is created once, and the bound covers the
\* requests under way.
BranchInv ==
  /\ cat \in [Ids -> CategoryRow \cup {None}]
  /\ \A c \in Tree!There : Path(c) # <<>> /\ cat[c].parent \in Tree!There \cup {None}
  /\ item.home \in Tree!There /\ item.path \in Seq(Ids)
  /\ DOMAIN edit = Staff /\ \A e \in Staff : TreeJob(edit[e])
  /\ \A e \in Editing : edit[e].op.kind = "create" =>
       cat[edit[e].op.id] = None /\ \A f \in Editing \ {e} : edit[f].op.id # edit[e].op.id
  /\ edits \in Nat /\ IsFiniteSet(Editing) /\ edits + Cardinality(Editing) =< MaxEdits

\* As long as no two requests clashed the paths make a tree, and requests under way work on
\* different branches of it.
RootedInv ==
  /\ clashed \in BOOLEAN
  /\ ~clashed =>
       /\ Rooted
       /\ \A i, j \in DOMAIN item.path : item.path[i] = item.path[j] => i = j
       /\ \A e \in Editing : Knows(edit[e])
       /\ \A e, f \in Editing : e # f => ~Tree!Related(edit[e].op, edit[f].op)

TreeInv == BranchInv /\ RootedInv

LEMMA AppendIs ==
  ASSUME NEW s \in Seq(Ids), NEW x \in Ids
  PROVE  /\ Append(s, x) \in Seq(Ids) /\ Len(Append(s, x)) = Len(s) + 1
         /\ Append(s, x)[Len(s) + 1] = x /\ \A i \in 1 .. Len(s) : Append(s, x)[i] = s[i]
OBVIOUS

LEMMA TailIs ==
  ASSUME NEW old \in Seq(Ids), NEW cut \in Nat, NEW b, b = SubSeq(old, cut + 1, Len(old))
  PROVE  /\ b \in Seq(Ids) /\ Len(b) = IF cut < Len(old) THEN Len(old) - cut ELSE 0
         /\ \A k \in cut + 1 .. Len(old) : b[k - cut] = old[k]
<1>1. \A i \in cut + 1 .. Len(old) : old[i] \in Ids
  BY ElementOfSeq
<1>2. /\ b \in Seq(Ids) /\ Len(b) = IF cut + 1 <= Len(old) THEN Len(old) - (cut + 1) + 1 ELSE 0
      /\ \A i \in 1 .. Len(old) - (cut + 1) + 1 : b[i] = old[(cut + 1) + i - 1]
  BY <1>1, SubSeqProperties, LenProperties
<1>3. ASSUME NEW k \in cut + 1 .. Len(old) PROVE b[k - cut] = old[k]
  <2>1. k - cut \in 1 .. Len(old) - (cut + 1) + 1 /\ (cut + 1) + (k - cut) - 1 = k
    BY LenProperties
  <2>. QED  BY <1>2, <2>1
<1>. QED  BY <1>2, <1>3, LenProperties

LEMMA GraftIs ==
  ASSUME NEW s \in Seq(Ids), NEW x \in Ids, NEW old \in Seq(Ids), NEW cut \in Nat
  PROVE  /\ Graft(s, x, old, cut) \in Seq(Ids) /\ Graft(s, x, old, cut) # <<>>
         /\ Len(Graft(s, x, old, cut)) = Len(s) + 1 + (IF cut < Len(old) THEN Len(old) - cut ELSE 0)
<1>. DEFINE a == Append(s, x)  b == SubSeq(old, cut + 1, Len(old))  g == Graft(s, x, old, cut)
<1>1. a \in Seq(Ids) /\ Len(a) = Len(s) + 1
  BY AppendIs
<1>2. b \in Seq(Ids) /\ Len(b) = IF cut < Len(old) THEN Len(old) - cut ELSE 0
  BY TailIs
<1>3. g \in Seq(Ids) /\ Len(g) = Len(a) + Len(b)
  BY <1>1, <1>2, ConcatProperties DEF Graft
<1>. HIDE DEF a, b, g
<1>4. PICK l \in Nat : l = Len(s)
  BY LenProperties
<1>5. PICK n \in Nat : n = Len(old)
  BY LenProperties
<1>6. PICK t \in Nat : t = Len(b) /\ t = IF cut < n THEN n - cut ELSE 0
  BY <1>2, <1>5, LenProperties
<1>7. Len(g) = l + 1 + t /\ Len(g) # 0
  BY <1>1, <1>3, <1>4, <1>6
<1>8. g # <<>>
  BY <1>7, EmptySeq
<1>. QED  BY <1>3, <1>4, <1>5, <1>6, <1>7, <1>8 DEF g

LEMMA GraftHolds ==
  ASSUME NEW s \in Seq(Ids), NEW x \in Ids, NEW old \in Seq(Ids), NEW cut \in Nat
  PROVE  /\ Graft(s, x, old, cut)[Len(s) + 1] = x
         /\ \A i \in 1 .. Len(s) : Graft(s, x, old, cut)[i] = s[i]
         /\ \A k \in cut + 1 .. Len(old) : Graft(s, x, old, cut)[Len(s) + 1 + k - cut] = old[k]
<1>. DEFINE a == Append(s, x)  b == SubSeq(old, cut + 1, Len(old))  g == Graft(s, x, old, cut)
<1>1. a \in Seq(Ids) /\ Len(a) = Len(s) + 1 /\ a[Len(s) + 1] = x /\ \A i \in 1 .. Len(s) : a[i] = s[i]
  BY AppendIs
<1>2. /\ b \in Seq(Ids) /\ Len(b) = IF cut < Len(old) THEN Len(old) - cut ELSE 0
      /\ \A k \in cut + 1 .. Len(old) : b[k - cut] = old[k]
  BY TailIs
<1>3. \A i \in 1 .. Len(a) + Len(b) : g[i] = IF i <= Len(a) THEN a[i] ELSE b[i - Len(a)]
  BY <1>1, <1>2, ConcatProperties DEF Graft
<1>. HIDE DEF a, b, g
<1>4. PICK l \in Nat : l = Len(s)
  BY LenProperties
<1>5. PICK n \in Nat : n = Len(old)
  BY LenProperties
<1>6. PICK t \in Nat : t = Len(b) /\ t = IF cut < n THEN n - cut ELSE 0
  BY <1>2, <1>5, LenProperties
<1>7. Len(a) = l + 1
  BY <1>1, <1>4
<1>8. \A k \in cut + 1 .. n : g[l + 1 + k - cut] = old[k]
  <2>. TAKE k \in cut + 1 .. n
  <2>1. PICK i : i = l + 1 + k - cut
    OBVIOUS
  <2>2. i \in 1 .. l + 1 + t /\ ~(i <= l + 1) /\ i - (l + 1) = k - cut
    BY <1>6, <2>1
  <2>3. g[i] = b[i - (l + 1)]
    BY <1>3, <1>6, <1>7, <2>2
  <2>. QED  BY <1>2, <1>5, <2>1, <2>2, <2>3
<1>9. g[l + 1] = x /\ \A i \in 1 .. l : g[i] = s[i]
  <2>1. l + 1 \in 1 .. l + 1 + t /\ \A i \in 1 .. l : i \in 1 .. l + 1 + t /\ i <= l + 1
    BY <1>6
  <2>. QED  BY <1>1, <1>3, <1>4, <1>6, <1>7, <2>1
<1>. QED  BY <1>4, <1>5, <1>8, <1>9 DEF g

LEMMA CategoryIs ==
  ASSUME BranchInv, NEW c \in Tree!There
  PROVE  /\ c \in Ids /\ cat[c] \in CategoryRow /\ cat[c] # None /\ Path(c) \in Seq(Ids)
         /\ Len(Path(c)) \in Nat \ {0} /\ DOMAIN Path(c) = 1 .. Len(Path(c))
<1>1. c \in Ids /\ cat[c] # None /\ cat[c] \in CategoryRow /\ Path(c) # <<>>
  BY DEF BranchInv, Tree!There
<1>2. Path(c) \in Seq(Ids)
  BY <1>1 DEF CategoryRow, Path
<1>. QED  BY <1>1, <1>2, EmptySeq, LenProperties

LEMMA SubtreeIs ==
  \A m, c : m \in Tree!Subtree(c) <=> m \in Tree!There /\ \E i \in DOMAIN Path(m) : Path(m)[i] = c
BY DEF Tree!Subtree, Tree!Range, Path

\* On a path nothing comes twice, and what is below is on every path through it.
LEMMA RootedPaths ==
  ASSUME BranchInv, Rooted, NEW m \in Tree!There
  PROVE  /\ \A i \in 1 .. Len(Path(m)) :
              /\ Path(m)[i] \in Tree!There /\ Len(Path(Path(m)[i])) = i
              /\ \A j \in 1 .. i : Path(Path(m)[i])[j] = Path(m)[j]
         /\ \A i, j \in DOMAIN Path(m) : Path(m)[i] = Path(m)[j] => i = j
         /\ m \in Tree!Subtree(m)
         /\ \A d \in Tree!There : \A c : m \in Tree!Subtree(d) /\ d \in Tree!Subtree(c) => m \in Tree!Subtree(c)
<1>1. Len(Path(m)) \in Nat \ {0} /\ DOMAIN Path(m) = 1 .. Len(Path(m))
  BY CategoryIs
<1>2. \A i \in 1 .. Len(Path(m)) :
              /\ Path(m)[i] \in Tree!There /\ Len(Path(Path(m)[i])) = i
              /\ \A j \in 1 .. i : Path(Path(m)[i])[j] = Path(m)[j]
  BY <1>1 DEF Rooted
<1>3. \A i, j \in DOMAIN Path(m) : Path(m)[i] = Path(m)[j] => i = j
  BY <1>1, <1>2
<1>4. m \in Tree!Subtree(m)
  BY <1>1, SubtreeIs DEF Rooted
<1>5. ASSUME NEW d \in Tree!There, NEW c, m \in Tree!Subtree(d), d \in Tree!Subtree(c)
      PROVE  m \in Tree!Subtree(c)
  <2>1. PICK i \in 1 .. Len(Path(m)) : Path(m)[i] = d
    BY <1>1, <1>5, SubtreeIs
  <2>2. PICK j \in 1 .. Len(Path(d)) : Path(d)[j] = c
    BY <1>5, CategoryIs, SubtreeIs
  <2>3. j \in 1 .. i /\ Path(m)[j] = c /\ j \in DOMAIN Path(m)
    BY <1>1, <1>2, <2>1, <2>2
  <2>. QED  BY <2>3, SubtreeIs
<1>. QED  BY <1>2, <1>3, <1>4, <1>5

\* Below a category every path goes through it, at its own depth.
LEMMA BelowIs ==
  ASSUME BranchInv, Rooted, NEW id \in Tree!There, NEW m \in Tree!Subtree(id)
  PROVE  /\ m \in Tree!There /\ Len(Path(id)) =< Len(Path(m)) /\ Path(m)[Len(Path(id))] = id
         /\ \A k \in Len(Path(id)) .. Len(Path(m)) : Path(m)[k] \in Tree!Subtree(id)
<1>1. m \in Tree!There
  BY SubtreeIs
<1>2. /\ Len(Path(m)) \in Nat \ {0} /\ DOMAIN Path(m) = 1 .. Len(Path(m)) /\ Len(Path(id)) \in Nat \ {0}
  BY <1>1, CategoryIs
<1>3. PICK i \in 1 .. Len(Path(m)) : Path(m)[i] = id
  BY <1>2, SubtreeIs
<1>4. \A k \in 1 .. Len(Path(m)) :
              /\ Path(m)[k] \in Tree!There /\ Len(Path(Path(m)[k])) = k
              /\ \A j \in 1 .. k : Path(Path(m)[k])[j] = Path(m)[j]
  BY <1>1, RootedPaths
<1>5. i = Len(Path(id))
  BY <1>3, <1>4
<1>6. ASSUME NEW k \in Len(Path(id)) .. Len(Path(m)) PROVE Path(m)[k] \in Tree!Subtree(id)
  <2>1. k \in 1 .. Len(Path(m)) /\ i \in 1 .. k
    BY <1>2, <1>3, <1>5
  <2>2. Path(m)[k] \in Tree!There /\ Len(Path(Path(m)[k])) = k /\ Path(Path(m)[k])[i] = id
    BY <1>3, <1>4, <2>1
  <2>3. i \in DOMAIN Path(Path(m)[k])
    BY <2>1, <2>2, CategoryIs
  <2>. QED  BY <2>2, <2>3, SubtreeIs
<1>. QED  BY <1>1, <1>2, <1>3, <1>5, <1>6

LEMMA ElsewhereIs ==
  ASSUME BranchInv, Rooted, NEW id \in Tree!There, NEW m \in Tree!There \ Tree!Subtree(id)
  PROVE  \A i \in 1 .. Len(Path(m)) : Path(m)[i] \in Tree!There \ Tree!Subtree(id)
<1>1. Len(Path(m)) \in Nat \ {0} /\ DOMAIN Path(m) = 1 .. Len(Path(m))
  BY CategoryIs
<1>2. \A i \in 1 .. Len(Path(m)) : Path(m)[i] \in Tree!There /\ m \in Tree!Subtree(Path(m)[i])
  BY <1>1, RootedPaths, SubtreeIs
<1>. QED  BY <1>2, RootedPaths

\* What a category's parent is on its path.
LEMMA AboveIs ==
  ASSUME BranchInv, Rooted, NEW parent \in Tree!There \cup {None}, NEW n, n = Len(Tree!ResolvePath(parent))
  PROVE  /\ Tree!ResolvePath(parent) \in Seq(Ids) /\ n \in Nat /\ DOMAIN Tree!ResolvePath(parent) = 1 .. n
         /\ n = 0 <=> parent = None
         /\ n # 0 => Tree!ResolvePath(parent)[n] = parent /\ Tree!ResolvePath(parent) = Path(parent)
<1>1. None \notin Tree!There
  BY TreesAssumption DEF BranchInv, Tree!There
<1>2. CASE parent = None
  BY <1>2, EmptySeq, LenProperties DEF Tree!ResolvePath
<1>3. CASE parent \in Tree!There
  BY <1>1, <1>3, CategoryIs DEF Tree!ResolvePath, Rooted, Path
<1>. QED  BY <1>2, <1>3

\* The subtree of a category hangs below another parent, not below itself.
Moves(id, parent) ==
  /\ Tree!There' = Tree!There
  /\ \A i \in DOMAIN Tree!ResolvePath(parent) : Tree!ResolvePath(parent)[i] # id
  /\ \A m \in Tree!There \ Tree!Subtree(id) : cat'[m] = cat[m]
  /\ \A m \in Tree!Subtree(id) :
       /\ cat'[m].path = Graft(Tree!ResolvePath(parent), id, Path(m), Len(Path(id)))
       /\ cat'[m].parent = IF m = id THEN parent ELSE cat[m].parent

LEMMA GraftKeepsTree ==
  ASSUME BranchInv, Rooted, NEW id \in Tree!There, NEW parent \in Tree!There \cup {None}, Moves(id, parent)
  PROVE  Rooted'
<1>. DEFINE prefix == Tree!ResolvePath(parent)  n == Len(prefix)  d == Len(Path(id))
<1>1. /\ prefix \in Seq(Ids) /\ n \in Nat /\ DOMAIN prefix = 1 .. n /\ (n = 0 <=> parent = None)
      /\ n # 0 => prefix[n] = parent /\ prefix = Path(parent)
  BY AboveIs
<1>2. d \in Nat \ {0} /\ Path(id) \in Seq(Ids) /\ id \in Ids
  BY CategoryIs
<1>0. /\ Tree!There' = Tree!There /\ \A i \in DOMAIN prefix : prefix[i] # id
      /\ \A m \in Tree!There \ Tree!Subtree(id) : cat'[m] = cat[m]
      /\ \A m \in Tree!Subtree(id) :
           /\ cat'[m].path = Graft(prefix, id, Path(m), d)
           /\ cat'[m].parent = IF m = id THEN parent ELSE cat[m].parent
  BY DEF Moves
<1>. HIDE DEF prefix, n, d
<1>3. ASSUME NEW i \in 1 .. n
      PROVE  /\ prefix[i] \in Tree!There \ Tree!Subtree(id) /\ Len(Path(prefix[i])) = i
             /\ \A j \in 1 .. i : Path(prefix[i])[j] = prefix[j]
  <2>1. parent \in Tree!There /\ prefix = Path(parent)
    BY <1>1
  <2>2. parent \notin Tree!Subtree(id)
    BY <1>0, <2>1, SubtreeIs
  <2>3. i \in 1 .. Len(Path(parent)) /\ prefix[i] \in Tree!There \ Tree!Subtree(id)
    BY <2>1, <2>2, ElsewhereIs DEF n
  <2>. QED  BY <2>1, <2>3, RootedPaths
<1>4. ASSUME NEW m \in Tree!Subtree(id)
      PROVE  /\ m \in Tree!There /\ Len(Path(m)) \in Nat /\ d =< Len(Path(m)) /\ Path(m)[Len(Path(m))] = m
             /\ \A k \in d .. Len(Path(m)) :
                  /\ Path(m)[k] \in Tree!Subtree(id) /\ Len(Path(Path(m)[k])) = k
                  /\ \A j \in 1 .. k : Path(Path(m)[k])[j] = Path(m)[j]
             /\ cat'[m].path \in Seq(Ids) /\ Len(cat'[m].path) = n + 1 + Len(Path(m)) - d
             /\ \A i \in 1 .. n : cat'[m].path[i] = prefix[i]
             /\ \A k \in d .. Len(Path(m)) : cat'[m].path[n + 1 + k - d] = Path(m)[k]
  <2>1. /\ m \in Tree!There /\ d =< Len(Path(m)) /\ Path(m)[d] = id
        /\ \A k \in d .. Len(Path(m)) : Path(m)[k] \in Tree!Subtree(id)
    BY BelowIs DEF d
  <2>2. /\ Len(Path(m)) \in Nat \ {0} /\ Path(m) \in Seq(Ids) /\ DOMAIN Path(m) = 1 .. Len(Path(m))
        /\ Path(m)[Len(Path(m))] = m
    BY <2>1, CategoryIs DEF Rooted
  <2>3. \A k \in d .. Len(Path(m)) :
          Len(Path(Path(m)[k])) = k /\ \A j \in 1 .. k : Path(Path(m)[k])[j] = Path(m)[j]
    BY <1>2, <2>1, <2>2, RootedPaths
  <2>4. PICK q : q = Path(m)
    OBVIOUS
  <2>5. PICK g : g = cat'[m].path
    OBVIOUS
  <2>6. g = Graft(prefix, id, q, d)
    BY <1>0, <2>4, <2>5
  <2>7. /\ g \in Seq(Ids) /\ Len(g) = n + 1 + (IF d < Len(q) THEN Len(q) - d ELSE 0)
        /\ g[n + 1] = id /\ \A i \in 1 .. n : g[i] = prefix[i]
        /\ \A k \in d + 1 .. Len(q) : g[n + 1 + k - d] = q[k]
    <3>1. prefix \in Seq(Ids) /\ id \in Ids /\ q \in Seq(Ids) /\ d \in Nat
      BY <1>1, <1>2, <2>2, <2>4
    <3>2. n = Len(prefix)
      BY DEF n
    <3>3. Graft(prefix, id, q, d) \in Seq(Ids) /\ Len(Graft(prefix, id, q, d)) = Len(prefix) + 1 + (IF d < Len(q) THEN Len(q) - d ELSE 0)
      BY <3>1, GraftIs
    <3>4. /\ Graft(prefix, id, q, d)[Len(prefix) + 1] = id
          /\ \A i \in 1 .. Len(prefix) : Graft(prefix, id, q, d)[i] = prefix[i]
          /\ \A k \in d + 1 .. Len(q) : Graft(prefix, id, q, d)[Len(prefix) + 1 + k - d] = q[k]
      BY <3>1, GraftHolds
    <3>. QED  BY <2>6, <3>2, <3>3, <3>4
  <2>10. n \in Nat /\ d \in Nat /\ Len(q) \in Nat /\ d =< Len(q) /\ q[d] = id
    BY <1>1, <1>2, <2>1, <2>2, <2>4
  <2>8. \A k \in d .. Len(q) : g[n + 1 + k - d] = q[k]
    <3>. TAKE k \in d .. Len(q)
    <3>1. CASE k = d
      <4>1. n + 1 + k - d = n + 1
        BY <2>10, <3>1
      <4>. QED  BY <2>7, <2>10, <3>1, <4>1
    <3>2. CASE k \in d + 1 .. Len(q)
      BY <2>7, <3>2
    <3>. QED  BY <1>2, <2>2, <2>4, <3>1, <3>2
  <2>9. Len(g) = n + 1 + Len(q) - d
    BY <2>7, <2>10
  <2>. QED  BY <2>1, <2>2, <2>3, <2>4, <2>5, <2>7, <2>8, <2>9
<1>5. ASSUME NEW m \in Tree!There \ Tree!Subtree(id)
      PROVE  /\ cat'[m].path[Len(cat'[m].path)] = m /\ cat'[m].parent = Tree!Above(cat'[m].path)
             /\ \A i \in DOMAIN cat'[m].path :
                  /\ cat'[m].path[i] \in Tree!There /\ Len(cat'[cat'[m].path[i]].path) = i
                  /\ \A j \in 1 .. i : cat'[cat'[m].path[i]].path[j] = cat'[m].path[j]
  <2>1. cat'[m] = cat[m]
    BY <1>0
  <2>2. \A i \in DOMAIN Path(m) : Path(m)[i] \in Tree!There /\ cat'[Path(m)[i]] = cat[Path(m)[i]]
    BY <1>0, ElsewhereIs, CategoryIs
  <2>. QED  BY <2>1, <2>2 DEF Rooted, Path
<1>6. ASSUME NEW m \in Tree!Subtree(id), NEW q, q = cat'[m].path
      PROVE  /\ q[Len(q)] = m /\ cat'[m].parent = Tree!Above(q)
             /\ \A i \in DOMAIN q :
                  /\ q[i] \in Tree!There /\ Len(cat'[q[i]].path) = i
                  /\ \A j \in 1 .. i : cat'[q[i]].path[j] = q[j]
  <2>1. PICK p : p = Path(m)
    OBVIOUS
  <2>2. /\ m \in Tree!There /\ Len(p) \in Nat /\ d =< Len(p) /\ p[Len(p)] = m
        /\ q \in Seq(Ids) /\ DOMAIN q = 1 .. Len(q) /\ Len(q) = n + 1 + Len(p) - d
        /\ \A i \in 1 .. n : q[i] = prefix[i]
        /\ \A k \in d .. Len(p) : q[n + 1 + k - d] = p[k]
    BY <1>4, <1>6, <2>1, LenProperties
  <2>8. /\ n \in Nat /\ d \in Nat \ {0} /\ Len(p) \in Nat /\ d =< Len(p)
        /\ Len(q) = n + 1 + Len(p) - d /\ DOMAIN q = 1 .. Len(q)
    BY <1>1, <1>2, <2>2
  <2>3. q[Len(q)] = m
    <3>1. Len(p) \in d .. Len(p) /\ Len(q) = n + 1 + Len(p) - d
      BY <2>8
    <3>. QED  BY <2>2, <3>1
  <2>4. cat'[m].parent = Tree!Above(q)
    <3>1. CASE m = id
      <4>1. Len(p) = d /\ cat'[m].parent = parent
        BY <1>0, <2>1, <3>1 DEF d
      <4>3. Len(q) = n + 1 /\ Len(q) - 1 = n /\ (n # 0 => n \in 1 .. n)
        BY <2>8, <4>1
      <4>2. n # 0 => q[Len(q) - 1] = parent
        BY <1>1, <2>2, <4>3
      <4>. QED  BY <1>1, <1>6, <4>1, <4>2, <4>3 DEF Tree!Above
    <3>2. CASE m # id
      <4>1. d # Len(p)
        BY <1>4, <2>1, <2>2, <3>2, BelowIs DEF d
      <4>4. /\ Len(p) # 1 /\ Len(p) - 1 \in d .. Len(p)
            /\ n + 1 + (Len(p) - 1) - d = Len(q) - 1 /\ Len(q) # 1
        <5>1. PICK l \in Nat : l = Len(p) /\ d < l
          BY <2>8, <4>1
        <5>2. l # 1 /\ l - 1 \in d .. l /\ Len(q) = n + 1 + l - d /\ n + 1 + (l - 1) - d = Len(q) - 1 /\ Len(q) # 1
          BY <2>8, <5>1
        <5>. QED  BY <5>1, <5>2
      <4>2. cat'[m].parent = p[Len(p) - 1]
        <5>1. cat'[m].parent = cat[m].parent /\ cat[m].parent = Tree!Above(p)
          BY <1>0, <2>1, <2>2, <3>2 DEF Rooted
        <5>. QED  BY <4>4, <5>1 DEF Tree!Above
      <4>3. q[Len(q) - 1] = p[Len(p) - 1]
        BY <2>2, <4>4
      <4>. QED  BY <4>2, <4>3, <4>4 DEF Tree!Above
    <3>. QED  BY <3>1, <3>2
  <2>5. ASSUME NEW i \in 1 .. n
        PROVE  q[i] \in Tree!There /\ Len(cat'[q[i]].path) = i /\ \A j \in 1 .. i : cat'[q[i]].path[j] = q[j]
    <3>1. q[i] = prefix[i] /\ cat'[q[i]] = cat[q[i]] /\ q[i] \in Tree!There
      BY <1>0, <1>3, <2>2
    <3>2. \A j \in 1 .. i : q[j] = prefix[j]
      BY <1>1, <2>2
    <3>. QED  BY <1>3, <3>1, <3>2 DEF Path
  <2>6. ASSUME NEW k \in d .. Len(p), NEW i, i = n + 1 + k - d
        PROVE  q[i] \in Tree!There /\ Len(cat'[q[i]].path) = i /\ \A j \in 1 .. i : cat'[q[i]].path[j] = q[j]
    <3>1. PICK a : a = p[k]
      OBVIOUS
    <3>2. q[i] = a /\ a \in Tree!Subtree(id) /\ Len(Path(a)) = k /\ \A j \in 1 .. k : Path(a)[j] = p[j]
      BY <1>4, <2>1, <2>2, <2>6, <3>1
    <3>3. /\ a \in Tree!There /\ Len(cat'[a].path) = n + 1 + Len(Path(a)) - d
          /\ \A j \in 1 .. n : cat'[a].path[j] = prefix[j]
          /\ \A l \in d .. Len(Path(a)) : cat'[a].path[n + 1 + l - d] = Path(a)[l]
      BY <1>4, <3>2
    <3>4. ASSUME NEW j \in 1 .. i PROVE cat'[a].path[j] = q[j]
      <4>1. CASE j \in 1 .. n
        BY <2>2, <3>3, <4>1
      <4>2. CASE j \notin 1 .. n
        <5>1. PICK l \in d .. k : j = n + 1 + l - d
          <6>1. j - n - 1 + d \in d .. k /\ j = n + 1 + (j - n - 1 + d) - d
            BY <1>1, <1>2, <2>2, <2>6, <4>2
          <6>. QED  BY <6>1
        <5>2. cat'[a].path[j] = Path(a)[l] /\ q[j] = p[l] /\ Path(a)[l] = p[l]
          <6>1. l \in d .. Len(Path(a)) /\ l \in d .. Len(p) /\ l \in 1 .. k
            BY <1>2, <2>2, <3>2
          <6>. QED  BY <2>2, <3>2, <3>3, <5>1, <6>1
        <5>. QED  BY <5>2
      <4>. QED  BY <4>1, <4>2
    <3>. QED  BY <2>6, <3>2, <3>3, <3>4
  <2>7. \A i \in DOMAIN q : i \in 1 .. n \/ \E k \in d .. Len(p) : i = n + 1 + k - d
    <3>. TAKE i \in DOMAIN q
    <3>1. i \notin 1 .. n => i - n - 1 + d \in d .. Len(p) /\ i = n + 1 + (i - n - 1 + d) - d
      BY <2>8
    <3>. QED  BY <3>1
  <2>. QED  BY <2>3, <2>4, <2>5, <2>6, <2>7
<1>. QED  BY <1>0, <1>5, <1>6 DEF Rooted, Path, Tree!Above

LEMMA TreeCardinality == \A S : Tree!Cardinality(S) = Cardinality(S)
BY DEF Tree!Cardinality, Cardinality

LEMMA RelatedBoth == \A op, other : Tree!Related(op, other) <=> Tree!Related(other, op)
BY DEF Tree!Related

LEMMA PrefixIs ==
  ASSUME BranchInv, NEW parent \in Tree!There \cup {None}
  PROVE  Tree!ResolvePath(parent) \in Seq(Ids)
BY CategoryIs, EmptySeq DEF Tree!ResolvePath, Path

LEMMA EditingIs ==
  ASSUME BranchInv, NEW e \in Editing
  PROVE  /\ e \in Staff /\ DOMAIN edit = Staff
         /\ DOMAIN edit[e] = {"pc", "op", "prefix", "old", "from", "paths"} /\ edit[e].pc \in {"begun", "ready"}
         /\ edit[e].op \in Tree!Ops /\ edit[e].prefix \in Seq(Ids) /\ edit[e].old \in Seq(Ids)
         /\ edit[e].paths \in [DOMAIN edit[e].paths -> Seq(Ids) \ {<<>>}] /\ DOMAIN edit[e].paths \subseteq Ids
         /\ edit[e].op.id \in Ids /\ edit[e].op.parent \in Ids \cup {None}
         /\ edit[e].op.kind \in {"create", "move", "delete", "show"}
<1>1. e \in Staff /\ edit[e] # Tree!NoEdit /\ DOMAIN edit = Staff /\ TreeJob(edit[e])
  BY DEF Editing, Tree!NoEdit, BranchInv
<1>2. edit[e].op \in Tree!Ops
  BY <1>1 DEF TreeJob
<1>3. /\ edit[e].op.id \in Ids /\ edit[e].op.parent \in Ids \cup {None}
      /\ edit[e].op.kind \in {"create", "move", "delete", "show"}
  BY <1>2 DEF Tree!Ops
<1>. QED  BY <1>1, <1>3 DEF TreeJob

\* Knowledge, roots and relations are about the rows alone.
LEMMA SameRows ==
  ASSUME cat' = cat
  PROVE  /\ Rooted => Rooted'
         /\ \A s : Knows(s) => Knows(s)'
         /\ \A o, p : Tree!Related(o, p)' = Tree!Related(o, p)
<1>1. Rooted => Rooted'
  BY DEF Rooted, Path, Tree!There, Tree!Above
<1>2. \A s : Knows(s) => Knows(s)'
  BY DEF Knows, Grafted, Path, Tree!There, Tree!ResolvePath, Tree!Subtree
<1>3. \A o, p : Tree!Related(o, p)' = Tree!Related(o, p)
  BY DEF Tree!Related, Tree!Reads, Tree!Rewrites, Tree!Subtree, Tree!There, Tree!ResolvePath
<1>. QED  BY <1>1, <1>2, <1>3

LEMMA TreeStays ==
  ASSUME TreeInv, UNCHANGED tree
  PROVE  TreeInv'
<1>1. UNCHANGED <<cat, item, edit, clashed, edits>> /\ Editing' = Editing
  BY DEF tree, Editing
<1>2. BranchInv'
  BY <1>1 DEF TreeInv, BranchInv, Tree!There, Path
<1>3. RootedInv'
  BY <1>1, SameRows DEF TreeInv, RootedInv
<1>. QED  BY <1>2, <1>3 DEF TreeInv

\* A request that starts knows what it read, and met nobody if nothing clashed.
LEMMA StartKeepsTree ==
  ASSUME TreeInv, NEW e \in Staff, NEW op \in Tree!Ops, Tree!Begin(e, op)
  PROVE  TreeInv'
<1>. PICK r : r = [Tree!NoEdit EXCEPT !.pc = IF op.kind = "move" THEN "begun" ELSE "ready",
                     !.op = op, !.prefix = Tree!ResolvePath(op.parent),
                     !.old = IF op.kind = "create" THEN <<>> ELSE cat[op.id].path,
                     !.from = IF op.kind = "create" THEN None ELSE cat[op.id].parent]
  OBVIOUS
<1>1. /\ DOMAIN r = {"pc", "op", "prefix", "old", "from", "paths"}
      /\ r.pc = (IF op.kind = "move" THEN "begun" ELSE "ready")
      /\ r.op = op /\ r.prefix = Tree!ResolvePath(op.parent) /\ r.paths = <<>>
      /\ r.old = IF op.kind = "create" THEN <<>> ELSE Path(op.id)
      /\ r.from = IF op.kind = "create" THEN None ELSE cat[op.id].parent
  BY DEF Tree!NoEdit, Path
<1>2. /\ edit[e].pc = "idle" /\ edits + Cardinality(Editing) < MaxEdits
      /\ op.kind = "create" => cat[op.id] = None /\ \A f \in Staff : edit[f].op # None => edit[f].op.id # op.id
      /\ op.kind # "create" => op.id \in Tree!There
      /\ op.parent # None => op.parent \in Tree!There
      /\ ~Tree!Refused(op) /\ edit' = [edit EXCEPT ![e] = r]
      /\ clashed' = (clashed \/ \E f \in Staff : edit[f].pc # "idle" /\ Tree!Related(op, edit[f].op))
      /\ UNCHANGED <<cat, item, edits>>
  BY TreeCardinality DEF Tree!Begin, Editing
<1>3. DOMAIN edit' = Staff /\ edit'[e] = r /\ \A f \in Staff \ {e} : edit'[f] = edit[f]
  BY <1>2 DEF TreeInv, BranchInv
<1>4. Editing' = Editing \cup {e} /\ e \notin Editing
  BY <1>1, <1>2, <1>3 DEF Editing
<1>5. op.parent \in Tree!There \cup {None} /\ r.prefix \in Seq(Ids) /\ op.id \in Ids
  BY <1>1, <1>2, PrefixIs DEF TreeInv, Tree!Ops
<1>6. /\ BranchInv' 
  <2>1. TreeJob(r)
    <3>1. r.old \in Seq(Ids)
      BY <1>1, <1>2, CategoryIs, EmptySeq DEF TreeInv
    <3>2. r.paths \in [DOMAIN r.paths -> Seq(Ids) \ {<<>>}] /\ DOMAIN r.paths = {}
      <4>1. r.paths \in Seq(Seq(Ids) \ {<<>>}) /\ Len(r.paths) = 0
        BY <1>1, EmptySeq
      <4>. QED  BY <4>1, LenProperties
    <3>3. r.pc \in {"begun", "ready"}
      BY <1>1
    <3>. QED  BY <1>1, <1>5, <3>1, <3>2, <3>3 DEF TreeJob
  <2>2. \A f \in Staff : TreeJob(edit'[f])
    BY <1>3, <2>1 DEF TreeInv, BranchInv
  <2>3. \A f \in Editing : edit[f].op # None
    BY EditingIs, TreesAssumption DEF TreeInv, Tree!Ops
  <2>4. ASSUME NEW f \in Editing', edit'[f].op.kind = "create"
        PROVE  cat[edit'[f].op.id] = None /\ \A g \in Editing' \ {f} : edit'[g].op.id # edit'[f].op.id
    <3>1. CASE f = e
      BY <1>1, <1>2, <1>3, <1>4, <2>3, <2>4, <3>1 DEF Editing
    <3>2. CASE f # e
      <4>1. f \in Editing /\ edit'[f] = edit[f] /\ edit[f].op.kind = "create"
        BY <1>3, <1>4, <2>4, <3>2 DEF Editing
      <4>2. cat[edit[f].op.id] = None /\ \A g \in Editing \ {f} : edit[g].op.id # edit[f].op.id
        BY <4>1 DEF TreeInv, BranchInv
      <4>3. op.id # edit[f].op.id
        <5>1. CASE op.kind = "create"
          BY <1>2, <2>3, <4>1, <5>1 DEF Editing
        <5>2. CASE op.kind # "create"
          BY <1>2, <4>2, <5>2 DEF Tree!There
        <5>. QED  BY <5>1, <5>2
      <4>4. \A g \in Editing : g # e /\ edit'[g] = edit[g]
        BY <1>3, <1>4 DEF Editing
      <4>5. edit'[e].op = op
        BY <1>1, <1>3
      <4>. QED  BY <1>4, <4>1, <4>2, <4>3, <4>4, <4>5
    <3>. QED  BY <3>1, <3>2
  <2>5. IsFiniteSet(Editing') /\ Cardinality(Editing') = Cardinality(Editing) + 1 /\ Cardinality(Editing) \in Nat
    BY <1>4, FS_AddElement, FS_CardinalityType DEF TreeInv, BranchInv
  <2>6. edits' + Cardinality(Editing') =< MaxEdits
    BY <1>2, <2>5, TreesAssumption DEF TreeInv, BranchInv
  <2>7. \A f \in Editing' : edit'[f].op.kind = "create" =>
          cat[edit'[f].op.id] = None /\ \A g \in Editing' \ {f} : edit'[g].op.id # edit'[f].op.id
    BY <2>4
  <2>. QED  BY <1>2, <1>3, <2>2, <2>5, <2>6, <2>7 DEF TreeInv, BranchInv, Tree!There, Path
<1>7. RootedInv'
  <2>1. clashed' \in BOOLEAN
    BY <1>2 DEF TreeInv, RootedInv
  <2>. SUFFICES ASSUME ~clashed'
                PROVE  /\ Rooted' /\ \A i, j \in DOMAIN item'.path : item'.path[i] = item'.path[j] => i = j
                       /\ \A f \in Editing' : Knows(edit[f])'
                       /\ \A f, g \in Editing' : f # g => ~Tree!Related(edit[f].op, edit[g].op)'
    BY <2>1 DEF RootedInv
  <2>2. ~clashed /\ \A f \in Editing : ~Tree!Related(op, edit[f].op)
    BY <1>2 DEF Editing
  <2>3. Rooted' /\ \A i, j \in DOMAIN item'.path : item'.path[i] = item'.path[j] => i = j
    BY <1>2, <2>2 DEF TreeInv, RootedInv, Rooted, Path, Tree!There, Tree!Above
  <2>4. Knows(r)
    <3>1. op.kind = "move" => \A i \in DOMAIN r.prefix : r.prefix[i] # op.id
      BY <1>1, <1>2 DEF Tree!Refused, Tree!Range
    <3>. QED  BY <1>1, <1>2, <1>5, <3>1 DEF Knows
  <2>5. \A s : Knows(s) => Knows(s)'
    BY <1>2, SameRows
  <2>6. \A f \in Editing' : Knows(edit[f])'
    BY <1>3, <1>4, <2>2, <2>4, <2>5 DEF TreeInv, RootedInv, Editing
  <2>7. \A o, p : Tree!Related(o, p)' = Tree!Related(o, p)
    BY <1>2, SameRows
  <2>8. \A f, g \in Editing' : f # g => ~Tree!Related(edit'[f].op, edit'[g].op)
    <3>1. \A f, g \in Editing : f # g => ~Tree!Related(edit[f].op, edit[g].op)
      BY <2>2 DEF TreeInv, RootedInv
    <3>2. \A f \in Editing : f \in Staff /\ f # e /\ edit'[f] = edit[f]
      BY <1>3, <1>4 DEF Editing
    <3>. TAKE f, g \in Editing'
    <3>6. edit'[e].op = op
      BY <1>1, <1>3
    <3>3. CASE f \in Editing /\ g \in Editing
      BY <3>1, <3>2, <3>3
    <3>4. CASE f = e /\ g \in Editing
      BY <2>2, <3>2, <3>4, <3>6
    <3>5. CASE f \in Editing /\ g = e
      BY <2>2, <3>2, <3>5, <3>6, RelatedBoth
    <3>. QED  BY <1>4, <3>3, <3>4, <3>5
  <2>. QED  BY <2>3, <2>6, <2>7, <2>8
<1>. QED  BY <1>6, <1>7 DEF TreeInv

LEMMA SaveKeepsTree ==
  ASSUME TreeInv, NEW c \in Ids, Tree!SaveProduct(c)
  PROVE  TreeInv'
<1>1. c \in Tree!There /\ item' = [home |-> c, path |-> Path(c)] /\ UNCHANGED <<cat, edit, clashed, edits>>
  BY DEF Tree!SaveProduct, Path
<1>2. item'.home = c /\ item'.path = Path(c) /\ Path(c) \in Seq(Ids)
  BY <1>1, CategoryIs DEF TreeInv
<1>3. BranchInv'
  BY <1>1, <1>2 DEF TreeInv, BranchInv, Editing, Tree!There, Path
<1>4. RootedInv'
  <2>1. ~clashed => \A i, j \in DOMAIN Path(c) : Path(c)[i] = Path(c)[j] => i = j
    BY <1>1, RootedPaths DEF TreeInv, RootedInv
  <2>2. \A s : Knows(s) => Knows(s)'
    BY <1>1, SameRows
  <2>3. \A o, p : Tree!Related(o, p)' = Tree!Related(o, p)
    BY <1>1, SameRows
  <2>4. Rooted => Rooted'
    BY <1>1, SameRows
  <2>5. Editing' = Editing
    BY <1>1 DEF Editing
  <2>. QED  BY <1>1, <1>2, <2>1, <2>2, <2>3, <2>4, <2>5 DEF TreeInv, RootedInv
<1>. QED  BY <1>3, <1>4 DEF TreeInv

\* The paths a move computes are paths, and those of its subtree if nothing clashed.
LEMMA ReadKeepsTree ==
  ASSUME TreeInv, NEW e \in Staff, Tree!ReadSubtree(e)
  PROVE  TreeInv'
<1>. DEFINE id == edit[e].op.id
            changed == {m \in Tree!Subtree(id) \cup {id} : Tree!MovedPath(e, m) # Tree!SeenPath(e, m)}
<1>1. PICK paths : paths = [m \in changed |-> Tree!MovedPath(e, m)]
  OBVIOUS
<1>2. PICK r : r = [edit[e] EXCEPT !.pc = "ready", !.paths = paths]
  OBVIOUS
<1>3. edit[e].pc = "begun" /\ edit' = [edit EXCEPT ![e] = r] /\ UNCHANGED <<cat, item, clashed, edits>>
  <2>1. edit[e].pc = "begun" /\ UNCHANGED <<cat, item, clashed, edits>>
    BY DEF Tree!ReadSubtree
  <2>2. edit' = [edit EXCEPT ![e].pc = "ready", ![e].paths = paths]
    BY <1>1 DEF Tree!ReadSubtree
  <2>. QED  BY <1>2, <2>1, <2>2
<1>4. e \in Editing /\ BranchInv
  BY <1>3 DEF Editing, TreeInv
<1>5. /\ DOMAIN r = {"pc", "op", "prefix", "old", "from", "paths"} /\ r.pc = "ready" /\ r.op = edit[e].op
      /\ r.prefix = edit[e].prefix /\ r.old = edit[e].old /\ r.from = edit[e].from /\ r.paths = paths
  BY <1>2, <1>4, EditingIs
<1>6. DOMAIN edit' = Staff /\ edit'[e] = r /\ \A f \in Staff \ {e} : edit'[f] = edit[f]
  BY <1>3, <1>4, EditingIs
<1>7. Editing' = Editing
  BY <1>3, <1>4, <1>5, <1>6 DEF Editing
<1>8. id \in Ids /\ edit[e].prefix \in Seq(Ids) /\ edit[e].old \in Seq(Ids) /\ Len(edit[e].old) \in Nat
  BY <1>4, EditingIs, LenProperties
<1>9. edit[e].op.kind = "move"
  BY <1>3, <1>4 DEF BranchInv, TreeJob, Editing, Tree!NoEdit
<1>10. \A m \in Tree!Subtree(id) \cup {id} :
         Tree!SeenPath(e, m) \in Seq(Ids) /\ Tree!MovedPath(e, m) \in Seq(Ids) \ {<<>>}
  <2>. TAKE m \in Tree!Subtree(id) \cup {id}
  <2>1. Tree!SeenPath(e, m) \in Seq(Ids)
    BY <1>4, <1>8, CategoryIs, SubtreeIs DEF Tree!SeenPath, Path
  <2>2. Tree!MovedPath(e, m) =
          Graft(edit[e].prefix, id, Tree!SeenPath(e, m), Len(edit[e].old))
    BY DEF Tree!MovedPath, Graft
  <2>3. PICK s \in Seq(Ids), x \in Ids, old \in Seq(Ids), cut \in Nat :
          s = edit[e].prefix /\ x = id /\ old = Tree!SeenPath(e, m) /\ cut = Len(edit[e].old)
    BY <1>8, <2>1
  <2>4. Graft(s, x, old, cut) \in Seq(Ids) /\ Graft(s, x, old, cut) # <<>>
    BY GraftIs
  <2>. QED  BY <2>1, <2>2, <2>3, <2>4
<1>. HIDE DEF changed, id
<1>11. BranchInv'
  <2>1. TreeJob(r)
    <3>1. changed \subseteq Ids
      BY <1>4, <1>8, CategoryIs, SubtreeIs DEF changed
    <3>2. paths \in [changed -> Seq(Ids) \ {<<>>}]
      BY <1>1, <1>10 DEF changed
    <3>3. DOMAIN paths = changed
      BY <1>1
    <3>. QED  BY <1>4, <1>5, <3>1, <3>2, <3>3, EditingIs, <1>9 DEF TreeJob
  <2>2. \A f \in Staff : TreeJob(edit'[f])
    BY <1>4, <1>6, <2>1 DEF BranchInv
  <2>3. \A f \in Editing' : f \in Staff /\ edit'[f].op = edit[f].op
    BY <1>5, <1>6, <1>7 DEF Editing
  <2>. QED  BY <1>3, <1>4, <1>6, <1>7, <2>2, <2>3 DEF BranchInv, Tree!There, Path
<1>12. RootedInv'
  <2>1. ASSUME ~clashed PROVE Knows(r)
    <3>1. Rooted /\ Knows(edit[e])
      BY <1>4, <2>1 DEF TreeInv, RootedInv
    <3>2. /\ edit[e].old = Path(id) /\ id \in Tree!There /\ \A i \in DOMAIN edit[e].prefix : edit[e].prefix[i] # id
          /\ edit[e].op.parent \in Tree!There \cup {None}
          /\ edit[e].prefix = Tree!ResolvePath(edit[e].op.parent)
      BY <1>9, <3>1 DEF Knows, id
    <3>3. id \in Tree!Subtree(id)
      BY <1>4, <3>1, <3>2, RootedPaths
    <3>4. ASSUME NEW m \in Tree!Subtree(id) PROVE Tree!SeenPath(e, m) = Path(m)
      <4>1. m \in Tree!There /\ \E i \in DOMAIN Path(m) : Path(m)[i] = id
        BY SubtreeIs
      <4>2. m # edit[e].op.parent
        <5>1. m # None
          BY <1>4, <4>1, TreesAssumption, CategoryIs
        <5>. QED  BY <3>2, <4>1, <5>1 DEF Tree!ResolvePath, Path
      <4>. QED  BY <3>2, <4>2 DEF Tree!SeenPath, Path, id
    <3>5. ASSUME NEW m \in Tree!Subtree(id)
          PROVE  (IF m \in DOMAIN paths THEN paths[m] ELSE Path(m)) = Grafted(r, Path(m))
      <4>1. Tree!MovedPath(e, m) = Grafted(r, Path(m))
        BY <1>5, <3>4 DEF Tree!MovedPath, Grafted, Graft, id
      <4>2. DOMAIN paths = changed /\ (m \in changed => paths[m] = Tree!MovedPath(e, m))
        BY <1>1
      <4>3. m \notin changed => Tree!MovedPath(e, m) = Path(m)
        BY <3>4 DEF changed
      <4>. QED  BY <4>1, <4>2, <4>3
    <3>6. DOMAIN paths \subseteq Tree!Subtree(id)
      BY <1>1, <3>3 DEF changed
    <3>. QED  BY <1>5, <3>1, <3>5, <3>6 DEF Knows, id
  <2>2. \A s : Knows(s) => Knows(s)'
    BY <1>3, SameRows
  <2>3. \A o, p : Tree!Related(o, p)' = Tree!Related(o, p)
    BY <1>3, SameRows
  <2>4. Rooted => Rooted'
    BY <1>3, SameRows
  <2>5. \A f \in Editing : f \in Staff /\ edit'[f].op = edit[f].op
    BY <1>5, <1>6 DEF Editing
  <2>6. ~clashed => \A f \in Editing : Knows(edit'[f])
    BY <1>5, <1>6, <2>1 DEF TreeInv, RootedInv, Editing
  <2>. QED  BY <1>3, <1>7, <2>2, <2>3, <2>4, <2>5, <2>6 DEF TreeInv, RootedInv
<1>. QED  BY <1>11, <1>12 DEF TreeInv

\* A request commits what it prepared.
Commits(e) ==
  /\ e \in Editing /\ ~Tree!Fails(edit[e].op, edit[e].paths) /\ cat' = Tree!Rows(e)

\* What the rows are then, by what was asked for.
LEMMA CommitRows ==
  ASSUME BranchInv, NEW e \in Staff, Commits(e), NEW op, op = edit[e].op
  PROVE  /\ cat' \in [Ids -> CategoryRow \cup {None}]
         /\ op.parent \in Tree!There \cup {None}
         /\ op.kind = "create" =>
              /\ op.id \notin Tree!There /\ Tree!There' = Tree!There \cup {op.id}
              /\ cat'[op.id].parent = op.parent /\ cat'[op.id].path = Append(edit[e].prefix, op.id)
              /\ \A c \in Tree!There : cat'[c] = cat[c]
         /\ op.kind # "create" => op.id \in Tree!There /\ \A c \in Tree!There : cat[c].path # <<>>
         /\ op.kind = "move" =>
              /\ Tree!There' = Tree!There /\ DOMAIN edit[e].paths \subseteq Tree!There
              /\ \A c \in Tree!There \ DOMAIN edit[e].paths : cat'[c] = cat[c]
              /\ \A c \in DOMAIN edit[e].paths :
                   /\ cat'[c].path = edit[e].paths[c]
                   /\ cat'[c].parent = IF c = op.id /\ op.parent # edit[e].from THEN op.parent ELSE cat[c].parent
         /\ op.kind = "delete" =>
              /\ Tree!There' = Tree!There \ {op.id} /\ \A c \in Tree!There' : cat'[c] = cat[c]
              /\ item.home # op.id /\ \A c \in Tree!There : cat[c].parent # op.id
         /\ op.kind = "show" =>
              /\ Tree!There' = Tree!There
              /\ \A c \in Tree!There : Path(c)' = Path(c) /\ cat'[c].parent = cat[c].parent
              /\ \A c \in Tree!There \ {op.id} : cat'[c] = cat[c]
<1>1. /\ e \in Editing /\ ~Tree!Fails(op, edit[e].paths) /\ cat' = Tree!Rows(e)
  BY DEF Commits
<1>2. /\ op.id \in Ids /\ op.parent \in Ids \cup {None} /\ op.kind \in {"create", "move", "delete", "show"}
      /\ edit[e].prefix \in Seq(Ids)
      /\ edit[e].paths \in [DOMAIN edit[e].paths -> Seq(Ids) \ {<<>>}]
  BY <1>1, EditingIs
<1>3. /\ cat \in [Ids -> CategoryRow \cup {None}] /\ None \notin CategoryRow
      /\ \A c \in Tree!There : c \in Ids /\ cat[c] \in CategoryRow
  BY TreesAssumption, CategoryIs DEF BranchInv
<1>4. op.parent \in Tree!There \cup {None}
  BY <1>1 DEF Tree!Fails
<1>5. op.kind # "create" => op.id \in Tree!There /\ DOMAIN edit[e].paths \subseteq Tree!There
  BY <1>1 DEF Tree!Fails
<1>6. \A c \in Tree!There : cat[c].path # <<>>
  BY CategoryIs, EmptySeq DEF Path
<1>7. CASE op.kind = "create"
  <2>. DEFINE new == [parent |-> op.parent, path |-> Append(edit[e].prefix, op.id), active |-> TRUE]
  <2>1. cat' = [cat EXCEPT ![op.id] = new]
    BY <1>1, <1>7 DEF Tree!Rows
  <2>2. new \in CategoryRow /\ new.parent = op.parent /\ new.path = Append(edit[e].prefix, op.id)
    BY <1>2, AppendIs DEF CategoryRow
  <2>3. cat[op.id] = None
    BY <1>1, <1>7 DEF BranchInv
  <2>. HIDE DEF new
  <2>4. cat' \in [Ids -> CategoryRow \cup {None}] /\ cat'[op.id] = new
    BY <1>2, <1>3, <2>1, <2>2
  <2>5. op.id \notin Tree!There /\ Tree!There' = Tree!There \cup {op.id}
    BY <1>2, <1>3, <2>1, <2>2, <2>3, <2>4 DEF Tree!There
  <2>6. \A c \in Tree!There : cat'[c] = cat[c]
    BY <1>3, <2>1, <2>5
  <2>. QED  BY <1>4, <1>7, <2>2, <2>4, <2>5, <2>6
<1>8. CASE op.kind = "move"
  <2>. DEFINE became(c) == [cat[c] EXCEPT !.path = edit[e].paths[c],
                           !.parent = IF c = op.id /\ op.parent # edit[e].from THEN op.parent ELSE cat[c].parent]
  <2>1. cat' = [c \in Ids |-> IF c \notin DOMAIN edit[e].paths THEN cat[c] ELSE became(c)]
    BY <1>1, <1>8 DEF Tree!Rows
  <2>2. ASSUME NEW c \in DOMAIN edit[e].paths
        PROVE  /\ became(c) \in CategoryRow /\ became(c).path = edit[e].paths[c]
               /\ became(c).parent = IF c = op.id /\ op.parent # edit[e].from THEN op.parent ELSE cat[c].parent
    <3>1. cat[c] \in CategoryRow /\ edit[e].paths[c] \in Seq(Ids)
      BY <1>2, <1>3, <1>5, <1>8
    <3>. QED  BY <1>2, <3>1 DEF CategoryRow
  <2>. HIDE DEF became
  <2>3. cat' \in [Ids -> CategoryRow \cup {None}]
    BY <1>3, <2>1, <2>2
  <2>4. Tree!There' = Tree!There
    BY <1>3, <1>5, <1>8, <2>1, <2>2 DEF Tree!There
  <2>5. \A c \in Tree!There \ DOMAIN edit[e].paths : cat'[c] = cat[c]
    BY <1>3, <2>1
  <2>6. \A c \in DOMAIN edit[e].paths : cat'[c] = became(c)
    BY <1>3, <1>5, <1>8, <2>1
  <2>. QED  BY <1>4, <1>5, <1>6, <1>8, <2>2, <2>3, <2>4, <2>5, <2>6
<1>9. CASE op.kind = "delete"
  <2>1. cat' = [cat EXCEPT ![op.id] = None]
    BY <1>1, <1>9 DEF Tree!Rows
  <2>2. item.home # op.id /\ \A c \in Tree!There : cat[c].parent # op.id
    BY <1>1, <1>9 DEF Tree!Fails, Tree!Refused
  <2>3. cat' \in [Ids -> CategoryRow \cup {None}] /\ cat'[op.id] = None
    BY <1>2, <1>3, <2>1
  <2>4. \A c \in Ids \ {op.id} : cat'[c] = cat[c]
    BY <1>3, <2>1
  <2>5. Tree!There' = Tree!There \ {op.id} /\ \A c \in Tree!There' : cat'[c] = cat[c]
    BY <2>3, <2>4 DEF Tree!There
  <2>. QED  BY <1>4, <1>5, <1>6, <1>9, <2>2, <2>3, <2>5
<1>10. CASE op.kind = "show"
  <2>. DEFINE became == [cat[op.id] EXCEPT !.active = ~cat[op.id].active]
  <2>1. cat' = [cat EXCEPT ![op.id] = became]
    BY <1>1, <1>10 DEF Tree!Rows
  <2>2. became \in CategoryRow /\ became.path = cat[op.id].path /\ became.parent = cat[op.id].parent
    BY <1>3, <1>5, <1>10 DEF CategoryRow
  <2>. HIDE DEF became
  <2>3. cat' \in [Ids -> CategoryRow \cup {None}] /\ cat'[op.id] = became
    BY <1>2, <1>3, <2>1, <2>2
  <2>4. \A c \in Ids \ {op.id} : cat'[c] = cat[c]
    BY <1>3, <2>1
  <2>5. Tree!There' = Tree!There
    BY <1>3, <1>5, <1>10, <2>2, <2>3, <2>4 DEF Tree!There
  <2>. QED  BY <1>3, <1>4, <1>5, <1>6, <1>10, <2>2, <2>3, <2>4, <2>5 DEF Path
<1>. QED  BY <1>2, <1>7, <1>8, <1>9, <1>10

\* Of an unrelated request nothing changes: neither what it builds on nor what it rewrites.
LEMMA UnrelatedStays ==
  ASSUME BranchInv, Rooted, NEW e \in Staff, Commits(e), Knows(edit[e]), edit[e].pc = "ready",
         NEW op, op = edit[e].op, NEW other \in Tree!Ops, ~Tree!Related(op, other), other.id # op.id,
         other.parent \in Tree!There \cup {None},
         other.kind # "create" => other.id \in Tree!There
  PROVE  /\ other.parent \in Tree!There' \cup {None}
         /\ Tree!ResolvePath(other.parent)' = Tree!ResolvePath(other.parent)
         /\ other.kind # "create" =>
              /\ Tree!Subtree(other.id)' = Tree!Subtree(other.id)
              /\ \A m \in Tree!Subtree(other.id) : m \in Tree!There' /\ cat'[m] = cat[m]
<1>. DEFINE mine == IF op.kind = "create" THEN {} ELSE Tree!Subtree(op.id)
<1>1. /\ e \in Editing /\ op.id \in Ids /\ op.parent \in Tree!There \cup {None} /\ edit[e].prefix \in Seq(Ids)
      /\ op.kind \in {"create", "move", "delete", "show"} /\ edit[e].prefix = Tree!ResolvePath(op.parent)
      /\ op.kind # "create" => op.id \in Tree!There
  BY EditingIs DEF Commits, Knows
<1>2. None \notin Tree!There
  BY TreesAssumption, CategoryIs
\* What changes lies in the subtree, or is new.
<1>3. \A c \in Tree!There \ mine : c \in Tree!There' /\ cat'[c] = cat[c]
  <2>1. op.kind # "create" => op.id \in mine
    BY <1>1, RootedPaths
  <2>2. op.kind = "move" => DOMAIN edit[e].paths \subseteq mine
    BY DEF Knows
  <2>. QED  BY <1>1, <2>1, <2>2, CommitRows
<1>4. \A c \in Tree!There' : c \in Tree!There \/ (op.kind = "create" /\ c = op.id)
  BY <1>1, CommitRows
\* New paths are made of what the request has read.
<1>5. ASSUME NEW m \in Tree!There', m \notin Tree!There \/ m \in mine, NEW i \in DOMAIN cat'[m].path
      PROVE  \/ cat'[m].path[i] = op.id
             \/ \E j \in DOMAIN edit[e].prefix : cat'[m].path[i] = edit[e].prefix[j]
             \/ m \in mine /\ \E j \in DOMAIN Path(m) : cat'[m].path[i] = Path(m)[j]
  <2>1. CASE op.kind = "create"
    <3>1. m = op.id /\ cat'[m].path = Append(edit[e].prefix, op.id)
      <4>1. m \notin Tree!There
        BY <1>5, <2>1
      <4>2. m = op.id
        BY <1>4, <4>1
      <4>. QED  BY <2>1, <4>2, CommitRows
    <3>2. PICK q : q = Append(edit[e].prefix, op.id)
      OBVIOUS
    <3>3. /\ q \in Seq(Ids) /\ Len(q) = Len(edit[e].prefix) + 1 /\ q[Len(edit[e].prefix) + 1] = op.id
          /\ \A j \in 1 .. Len(edit[e].prefix) : q[j] = edit[e].prefix[j]
      BY <1>1, <3>2, AppendIs
    <3>. QED  BY <1>1, <1>5, <3>1, <3>2, <3>3, LenProperties
  <2>2. CASE op.kind = "move" /\ m \in DOMAIN edit[e].paths
    <3>1. m \in Tree!Subtree(op.id) /\ m \in Tree!There /\ Path(m) \in Seq(Ids)
      BY <2>2, CategoryIs, SubtreeIs DEF Knows
    <3>2. PICK q : q = Path(m)
      OBVIOUS
    <3>3. PICK g : g = cat'[m].path
      OBVIOUS
    <3>4. g = Graft(edit[e].prefix, op.id, q, Len(edit[e].old))
      <4>1. g = edit[e].paths[m]
        BY <2>2, <3>3, CommitRows
      <4>2. edit[e].paths[m] = Grafted(edit[e], q)
        BY <2>2, <3>1, <3>2 DEF Knows
      <4>. QED  BY <4>1, <4>2 DEF Grafted
    <3>5. Len(edit[e].old) \in Nat
      BY <1>1, EditingIs, LenProperties
    <3>6. PICK s \in Seq(Ids), n \in Nat : s = edit[e].prefix /\ n = Len(s) /\ DOMAIN s = 1 .. n
      BY <1>1, LenProperties
    <3>7. PICK x \in Ids, d \in Nat : x = op.id /\ d = Len(edit[e].old)
      BY <1>1, <3>5
    <3>8. q \in Seq(Ids) /\ g = Graft(s, x, q, d)
      BY <3>1, <3>2, <3>4, <3>6, <3>7
    <3>9. g \in Seq(Ids) /\ Len(g) = n + 1 + (IF d < Len(q) THEN Len(q) - d ELSE 0)
      BY <3>6, <3>8, GraftIs
    <3>10. /\ g[n + 1] = x /\ \A j \in 1 .. n : g[j] = s[j]
           /\ \A k \in d + 1 .. Len(q) : g[n + 1 + k - d] = q[k]
      <4>1. /\ Graft(s, x, q, d)[Len(s) + 1] = x /\ \A j \in 1 .. Len(s) : Graft(s, x, q, d)[j] = s[j]
            /\ \A k \in d + 1 .. Len(q) : Graft(s, x, q, d)[Len(s) + 1 + k - d] = q[k]
        BY <3>8, GraftHolds
      <4>. QED  BY <3>6, <3>8, <4>1
    <3>11. PICK l \in Nat : l = Len(q) /\ DOMAIN q = 1 .. l
      BY <3>8, LenProperties
    <3>12. i \in 1 .. n + 1 + (IF d < l THEN l - d ELSE 0)
      BY <1>5, <3>3, <3>9, <3>11, LenProperties
    <3>13. CASE i \in 1 .. n
      BY <3>3, <3>6, <3>10, <3>13
    <3>14. CASE i = n + 1
      BY <3>3, <3>7, <3>10, <3>14
    <3>15. CASE i > n + 1
      <4>1. PICK k \in d + 1 .. l : i = n + 1 + k - d /\ k \in 1 .. l
        <5>1. PICK k \in Int : k = i - n - 1 + d
          BY <3>12
        <5>2. k \in d + 1 .. l /\ i = n + 1 + k - d /\ k \in 1 .. l
          BY <3>12, <3>15, <5>1
        <5>. QED  BY <5>2
      <4>2. g[i] = q[k] /\ k \in DOMAIN q
        BY <3>10, <3>11, <4>1
      <4>3. m \in mine
        BY <2>2, <3>1
      <4>. QED  BY <3>2, <3>3, <4>2, <4>3
    <3>. QED  BY <3>12, <3>13, <3>14, <3>15
  <2>3. CASE op.kind # "create" /\ ~(op.kind = "move" /\ m \in DOMAIN edit[e].paths)
    <3>1. m \in mine /\ cat'[m].path = Path(m)
      BY <1>1, <1>4, <1>5, <2>3, CommitRows DEF Path
    <3>. QED  BY <1>5, <3>1
  <2>. QED  BY <2>1, <2>2, <2>3
<1>6. Tree!Rewrites(op) \cap Tree!Reads(other) = {} /\ mine \subseteq Tree!Rewrites(op)
  BY DEF Tree!Related, Tree!Rewrites
<1>7. other.parent # None => other.parent \in Tree!There' /\ cat'[other.parent] = cat[other.parent]
  BY <1>3, <1>6 DEF Tree!Reads
<1>8. ASSUME other.kind # "create"
      PROVE  /\ Tree!Subtree(other.id)' = Tree!Subtree(other.id)
             /\ \A m \in Tree!Subtree(other.id) : m \in Tree!There' /\ cat'[m] = cat[m]
  <2>1. Tree!Subtree(other.id) \cap mine = {} /\ Tree!Subtree(other.id) \cap Tree!Reads(op) = {}
        /\ other.id \notin Tree!Reads(op)
    BY <1>6, <1>8 DEF Tree!Related, Tree!Rewrites
  <2>2. \A m \in Tree!Subtree(other.id) : m \in Tree!There /\ m \in Tree!There' /\ cat'[m] = cat[m]
    BY <1>3, <2>1, SubtreeIs
  <2>3. other.id # op.id /\ \A j \in DOMAIN edit[e].prefix : other.id # edit[e].prefix[j]
    BY <1>1, <2>1 DEF Tree!Reads, Tree!Range
  <2>4. \A m \in mine : ~\E j \in DOMAIN Path(m) : Path(m)[j] = other.id
    BY <2>1, SubtreeIs
  <2>5. ASSUME NEW m \in Tree!There', NEW i \in DOMAIN cat'[m].path, cat'[m].path[i] = other.id
        PROVE  m \in Tree!Subtree(other.id)
    <3>1. m \in Tree!There /\ m \notin mine
      BY <1>5, <2>3, <2>4, <2>5
    <3>2. Path(m)[i] = other.id /\ i \in DOMAIN Path(m)
      BY <1>3, <2>5, <3>1 DEF Path
    <3>. QED  BY <3>1, <3>2, SubtreeIs
  <2>6. \A m \in Tree!Subtree(other.id) : \E i \in DOMAIN cat'[m].path : cat'[m].path[i] = other.id
    BY <2>2, SubtreeIs DEF Path
  <2>7. Tree!Subtree(other.id)' = {m \in Tree!There' : \E i \in DOMAIN cat'[m].path : cat'[m].path[i] = other.id}
    BY DEF Tree!Subtree, Tree!Range
  <2>. QED  BY <2>2, <2>5, <2>6, <2>7
<1>9. Tree!ResolvePath(other.parent)' = Tree!ResolvePath(other.parent)
  BY <1>7 DEF Tree!ResolvePath
<1>. QED  BY <1>7, <1>8, <1>9

\* A request ends, with what it prepared or without.
LEMMA EditEnds ==
  ASSUME TreeInv, NEW e \in Staff, Tree!Commit(e)
  PROVE  /\ e \in Editing /\ edit[e].pc = "ready" /\ UNCHANGED <<item, clashed>>
         /\ DOMAIN edit' = Staff /\ edit'[e] = Tree!NoEdit /\ \A f \in Staff \ {e} : edit'[f] = edit[f]
         /\ Editing' = Editing \ {e}
         /\ \/ cat' = cat /\ edits' = edits
            \/ Commits(e) /\ edits' = edits + 1
<1>1. edit[e].pc = "ready" /\ edit' = [edit EXCEPT ![e] = Tree!NoEdit] /\ UNCHANGED <<item, clashed>>
  BY DEF Tree!Commit
<1>2. e \in Editing
  BY <1>1 DEF Editing
<1>3. DOMAIN edit' = Staff /\ edit'[e] = Tree!NoEdit /\ \A f \in Staff \ {e} : edit'[f] = edit[f]
  BY <1>1 DEF TreeInv, BranchInv
<1>4. Editing' = Editing \ {e}
  BY <1>3 DEF Editing, Tree!NoEdit
<1>5. \/ cat' = cat /\ edits' = edits
      \/ Commits(e) /\ edits' = edits + 1
  BY <1>2 DEF Tree!Commit, Commits
<1>. QED  BY <1>1, <1>2, <1>3, <1>4, <1>5

LEMMA CommitKeepsBranches ==
  ASSUME TreeInv, NEW e \in Staff, Tree!Commit(e)
  PROVE  BranchInv'
<1>1. /\ e \in Editing /\ UNCHANGED <<item, clashed>>
      /\ DOMAIN edit' = Staff /\ edit'[e] = Tree!NoEdit /\ \A f \in Staff \ {e} : edit'[f] = edit[f]
      /\ Editing' = Editing \ {e}
  BY EditEnds
<1>2. BranchInv
  BY DEF TreeInv
<1>3. /\ IsFiniteSet(Editing') /\ Cardinality(Editing') = Cardinality(Editing) - 1
      /\ Cardinality(Editing) \in Nat /\ Cardinality(Editing') \in Nat
  <2>1. IsFiniteSet(Editing)
    BY <1>2 DEF BranchInv
  <2>2. IsFiniteSet(Editing \ {e}) /\ Cardinality(Editing \ {e}) = Cardinality(Editing) - 1
    BY <1>1, <2>1, FS_RemoveElement
  <2>. QED  BY <1>1, <2>1, <2>2, FS_CardinalityType
<1>4. \A f \in Staff : TreeJob(edit'[f])
  BY <1>1, <1>2 DEF BranchInv, TreeJob
<1>5. \A f \in Editing' : f \in Editing \ {e} /\ f \in Staff /\ edit'[f] = edit[f]
  BY <1>1 DEF Editing
<1>6. CASE cat' = cat /\ edits' = edits
  <2>1. \A f \in Editing' : edit'[f].op.kind = "create" =>
          cat'[edit'[f].op.id] = None /\ \A g \in Editing' \ {f} : edit'[g].op.id # edit'[f].op.id
    BY <1>2, <1>5, <1>6 DEF BranchInv
  <2>2. edits' \in Nat /\ edits' + Cardinality(Editing') =< MaxEdits
    BY <1>2, <1>3, <1>6, TreesAssumption DEF BranchInv
  <2>. QED  BY <1>1, <1>2, <1>3, <1>4, <1>6, <2>1, <2>2 DEF BranchInv, Tree!There, Path
<1>7. CASE Commits(e) /\ edits' = edits + 1
  <2>. PICK op : op = edit[e].op
    OBVIOUS
  <2>1. /\ op.id \in Ids /\ op.kind \in {"create", "move", "delete", "show"} /\ edit[e].prefix \in Seq(Ids)
        /\ edit[e].paths \in [DOMAIN edit[e].paths -> Seq(Ids) \ {<<>>}]
    BY <1>1, <1>2, EditingIs
  <2>2. cat' \in [Ids -> CategoryRow \cup {None}] /\ op.parent \in Tree!There \cup {None}
    BY <1>2, <1>7, CommitRows
  <2>3. \A c \in Tree!There : cat[c].path # <<>> /\ cat[c].parent \in Tree!There \cup {None}
    BY <1>2 DEF BranchInv, Path
  <2>4. /\ \A c \in Tree!There' : cat'[c].path # <<>> /\ cat'[c].parent \in Tree!There' \cup {None}
        /\ item.home \in Tree!There' /\ \A c \in Tree!There' : c \in Tree!There \/ (op.kind = "create" /\ c = op.id)
    <3>1. item.home \in Tree!There
      BY <1>2 DEF BranchInv
    <3>2. CASE op.kind = "create"
      <4>1. /\ Tree!There' = Tree!There \cup {op.id}
            /\ cat'[op.id].parent = op.parent /\ cat'[op.id].path = Append(edit[e].prefix, op.id)
            /\ \A c \in Tree!There : cat'[c] = cat[c]
        BY <1>2, <1>7, <3>2, CommitRows
      <4>2. Append(edit[e].prefix, op.id) # <<>>
        BY <2>1, AppendIs, EmptySeq, LenProperties
      <4>. QED  BY <2>2, <2>3, <3>1, <3>2, <4>1, <4>2
    <3>3. CASE op.kind = "move"
      <4>1. /\ Tree!There' = Tree!There /\ DOMAIN edit[e].paths \subseteq Tree!There
            /\ \A c \in Tree!There \ DOMAIN edit[e].paths : cat'[c] = cat[c]
            /\ \A c \in DOMAIN edit[e].paths :
                 /\ cat'[c].path = edit[e].paths[c]
                 /\ cat'[c].parent = IF c = op.id /\ op.parent # edit[e].from THEN op.parent ELSE cat[c].parent
        BY <1>2, <1>7, <3>3, CommitRows
      <4>2. \A c \in DOMAIN edit[e].paths : edit[e].paths[c] # <<>>
        BY <2>1
      <4>. QED  BY <2>2, <2>3, <3>1, <4>1, <4>2
    <3>4. CASE op.kind = "delete"
      <4>1. /\ Tree!There' = Tree!There \ {op.id} /\ \A c \in Tree!There' : cat'[c] = cat[c]
            /\ item.home # op.id /\ \A c \in Tree!There : cat[c].parent # op.id
        BY <1>2, <1>7, <3>4, CommitRows
      <4>. QED  BY <2>3, <3>1, <4>1
    <3>5. CASE op.kind = "show"
      <4>1. /\ Tree!There' = Tree!There
            /\ \A c \in Tree!There : cat'[c].path = cat[c].path /\ cat'[c].parent = cat[c].parent
        BY <1>2, <1>7, <3>5, CommitRows DEF Path
      <4>. QED  BY <2>3, <3>1, <4>1
    <3>. QED  BY <2>1, <3>2, <3>3, <3>4, <3>5
  <2>5. ASSUME NEW f \in Editing', edit'[f].op.kind = "create"
        PROVE  cat'[edit'[f].op.id] = None /\ \A g \in Editing' \ {f} : edit'[g].op.id # edit'[f].op.id
    <3>1. f \in Editing \ {e} /\ edit'[f] = edit[f]
      BY <1>5
    <3>2. cat[edit[f].op.id] = None /\ \A g \in Editing \ {f} : edit[g].op.id # edit[f].op.id
      BY <1>2, <2>5, <3>1 DEF BranchInv
    <3>3. edit[f].op.id \in Ids \ Tree!There /\ edit[f].op.id # op.id
      BY <1>1, <1>2, <3>1, <3>2, EditingIs DEF Tree!There
    <3>4. edit[f].op.id \notin Tree!There'
      BY <2>4, <3>3
    <3>5. cat'[edit[f].op.id] = None
      BY <3>3, <3>4 DEF Tree!There
    <3>. QED  BY <1>5, <3>1, <3>2, <3>5
  <2>6. edits' \in Nat /\ edits' + Cardinality(Editing') =< MaxEdits
    BY <1>2, <1>3, <1>7, TreesAssumption DEF BranchInv
  <2>7. \A f \in Editing' : edit'[f].op.kind = "create" =>
          cat'[edit'[f].op.id] = None /\ \A g \in Editing' \ {f} : edit'[g].op.id # edit'[f].op.id
    BY <2>5
  <2>8. item'.home \in Tree!There' /\ item'.path \in Seq(Ids)
    BY <1>1, <1>2, <2>4 DEF BranchInv
  <2>9. \A c \in Tree!There' : Path(c)' # <<>> /\ cat'[c].parent \in Tree!There' \cup {None}
    BY <2>4 DEF Path
  <2>. QED  BY <1>1, <1>3, <1>4, <2>2, <2>6, <2>7, <2>8, <2>9 DEF BranchInv
<1>. QED  BY <1>6, <1>7, EditEnds

\* Whatever a request that clashed with none commits, the paths make a tree.
LEMMA CommitKeepsTree ==
  ASSUME BranchInv, Rooted, NEW e \in Staff, Commits(e), Knows(edit[e]), edit[e].pc = "ready"
  PROVE  Rooted'
<1>. DEFINE op == edit[e].op  prefix == edit[e].prefix
<1>1. /\ e \in Editing /\ op.id \in Ids /\ op.parent \in Tree!There \cup {None} /\ prefix \in Seq(Ids)
      /\ op.kind \in {"create", "move", "delete", "show"} /\ prefix = Tree!ResolvePath(op.parent)
      /\ op.kind # "create" => op.id \in Tree!There
  BY EditingIs DEF Commits, Knows
<1>2. PICK n \in Nat : n = Len(prefix) /\ DOMAIN prefix = 1 .. n
  BY <1>1, LenProperties
<1>3. (n = 0 <=> op.parent = None) /\ (n # 0 => prefix[n] = op.parent /\ prefix = Path(op.parent))
  BY <1>1, <1>2, AboveIs
\* Where the rows on a path stay as they are, so does what is said of it.
<1>4. ASSUME NEW c \in Tree!There, cat'[c].path = Path(c), cat'[c].parent = cat[c].parent,
             \A i \in DOMAIN Path(c) : Path(c)[i] \in Tree!There' /\ cat'[Path(c)[i]].path = Path(Path(c)[i])
      PROVE  /\ cat'[c].path[Len(cat'[c].path)] = c /\ cat'[c].parent = Tree!Above(cat'[c].path)
             /\ \A i \in DOMAIN cat'[c].path :
                  /\ cat'[c].path[i] \in Tree!There' /\ Len(cat'[cat'[c].path[i]].path) = i
                  /\ \A j \in 1 .. i : cat'[cat'[c].path[i]].path[j] = cat'[c].path[j]
  BY <1>4 DEF Rooted
<1>5. CASE op.kind = "create"
  <2>1. /\ op.id \notin Tree!There /\ Tree!There' = Tree!There \cup {op.id}
        /\ cat'[op.id].parent = op.parent /\ cat'[op.id].path = Append(prefix, op.id)
        /\ \A c \in Tree!There : cat'[c] = cat[c]
    BY <1>5, CommitRows
  <2>2. PICK q : q = Append(prefix, op.id)
    OBVIOUS
  <2>3. /\ q \in Seq(Ids) /\ Len(q) = n + 1 /\ q[n + 1] = op.id /\ \A i \in 1 .. n : q[i] = prefix[i]
    BY <1>1, <1>2, <2>2, AppendIs
  <2>4. op.parent = Tree!Above(q)
    <3>1. n # 0 => n \in 1 .. n /\ Len(q) # 1 /\ Len(q) - 1 = n
      BY <2>3
    <3>. QED  BY <1>3, <2>3, <3>1 DEF Tree!Above
  <2>5. ASSUME NEW i \in 1 .. n
        PROVE  q[i] \in Tree!There' /\ Len(cat'[q[i]].path) = i /\ \A j \in 1 .. i : cat'[q[i]].path[j] = q[j]
    <3>1. op.parent \in Tree!There /\ prefix = Path(op.parent) /\ i \in 1 .. Len(Path(op.parent))
      BY <1>1, <1>2, <1>3
    <3>2. /\ prefix[i] \in Tree!There /\ Len(Path(prefix[i])) = i
          /\ \A j \in 1 .. i : Path(prefix[i])[j] = prefix[j]
      BY <3>1, RootedPaths
    <3>3. \A j \in 1 .. i : q[j] = prefix[j]
      BY <2>3
    <3>. QED  BY <2>1, <2>3, <3>2, <3>3 DEF Path
  <2>6. DOMAIN q = 1 .. n + 1 /\ \A i \in DOMAIN q : i \in 1 .. n \/ i = n + 1
    BY <2>3, LenProperties
  <2>7. /\ cat'[op.id].path[Len(cat'[op.id].path)] = op.id
        /\ cat'[op.id].parent = Tree!Above(cat'[op.id].path)
        /\ \A i \in DOMAIN cat'[op.id].path :
             /\ cat'[op.id].path[i] \in Tree!There' /\ Len(cat'[cat'[op.id].path[i]].path) = i
             /\ \A j \in 1 .. i : cat'[cat'[op.id].path[i]].path[j] = cat'[op.id].path[j]
    <3>1. cat'[op.id].path = q
      BY <2>1, <2>2
    <3>2. \A i \in DOMAIN q :
             /\ q[i] \in Tree!There' /\ Len(cat'[q[i]].path) = i
             /\ \A j \in 1 .. i : cat'[q[i]].path[j] = q[j]
      BY <2>1, <2>3, <2>5, <2>6, <3>1
    <3>. QED  BY <2>1, <2>3, <2>4, <3>1, <3>2
  <2>8. \A c \in Tree!There : \A i \in DOMAIN Path(c) :
          Path(c)[i] \in Tree!There' /\ cat'[Path(c)[i]].path = Path(Path(c)[i])
    BY <2>1 DEF Rooted, Path
  <2>9. \A c \in Tree!There : cat'[c].path = Path(c) /\ cat'[c].parent = cat[c].parent
    BY <2>1 DEF Path
  <2>10. ASSUME NEW c \in Tree!There'
         PROVE  /\ cat'[c].path[Len(cat'[c].path)] = c /\ cat'[c].parent = Tree!Above(cat'[c].path)
                /\ \A i \in DOMAIN cat'[c].path :
                     /\ cat'[c].path[i] \in Tree!There' /\ Len(cat'[cat'[c].path[i]].path) = i
                     /\ \A j \in 1 .. i : cat'[cat'[c].path[i]].path[j] = cat'[c].path[j]
    <3>1. CASE c = op.id
      BY <2>7, <3>1
    <3>2. CASE c \in Tree!There
      BY <1>4, <2>8, <2>9, <3>2
    <3>. QED  BY <2>1, <3>1, <3>2
  <2>. QED  BY <2>10 DEF Rooted, Path, Tree!Above
<1>6. CASE op.kind = "delete"
  <2>1. /\ Tree!There' = Tree!There \ {op.id} /\ \A c \in Tree!There' : cat'[c] = cat[c]
        /\ \A c \in Tree!There : cat[c].parent # op.id
    BY <1>6, CommitRows
  <2>2. ASSUME NEW c \in Tree!There', NEW i \in DOMAIN Path(c) PROVE Path(c)[i] \in Tree!There'
    <3>1. c \in Tree!There /\ c # op.id
      BY <2>1
    <3>2. PICK l \in Nat : l = Len(Path(c)) /\ DOMAIN Path(c) = 1 .. l /\ l # 0
      BY <3>1, CategoryIs
    <3>3. i \in 1 .. l /\ Path(c)[i] \in Tree!There /\ Path(c)[l] = c
      BY <2>2, <3>1, <3>2 DEF Rooted
    <3>4. SUFFICES ASSUME Path(c)[i] = op.id PROVE FALSE
      BY <2>1, <3>3
    <3>5. i + 1 \in 1 .. l
      BY <3>1, <3>3, <3>4
    <3>6. PICK d \in Tree!There : d = Path(c)[i + 1] /\ Len(Path(d)) = i + 1 /\ Path(d)[i] = Path(c)[i]
      BY <3>1, <3>2, <3>3, <3>5, RootedPaths
    <3>7. cat[d].parent = op.id
      BY <3>3, <3>4, <3>6 DEF Rooted, Tree!Above
    <3>. QED  BY <2>1, <3>7
  <2>3. \A c \in Tree!There' : c \in Tree!There /\ cat'[c].path = Path(c) /\ cat'[c].parent = cat[c].parent
    BY <2>1 DEF Path
  <2>. QED  BY <1>4, <2>2, <2>3 DEF Rooted, Path, Tree!Above
<1>7. CASE op.kind = "show"
  <2>1. /\ Tree!There' = Tree!There
        /\ \A c \in Tree!There : cat'[c].path = Path(c) /\ cat'[c].parent = cat[c].parent
    BY <1>7, CommitRows DEF Path
  <2>2. \A c \in Tree!There : \A i \in DOMAIN Path(c) : Path(c)[i] \in Tree!There
    BY DEF Rooted
  <2>. QED  BY <1>4, <2>1, <2>2 DEF Rooted, Path, Tree!Above
<1>8. CASE op.kind = "move"
  <2>. DEFINE paths == edit[e].paths
  <2>1. /\ Tree!There' = Tree!There /\ DOMAIN paths \subseteq Tree!There
        /\ \A c \in Tree!There \ DOMAIN paths : cat'[c] = cat[c]
        /\ \A c \in DOMAIN paths :
             /\ cat'[c].path = paths[c]
             /\ cat'[c].parent = IF c = op.id /\ op.parent # edit[e].from THEN op.parent ELSE cat[c].parent
    BY <1>8, CommitRows
  <2>2. /\ edit[e].old = Path(op.id) /\ edit[e].from = cat[op.id].parent
        /\ DOMAIN paths \subseteq Tree!Subtree(op.id) /\ \A i \in DOMAIN prefix : prefix[i] # op.id
        /\ \A m \in Tree!Subtree(op.id) :
             (IF m \in DOMAIN paths THEN paths[m] ELSE Path(m)) = Grafted(edit[e], Path(m))
    BY <1>8 DEF Knows
  <2>3. \A m \in Tree!Subtree(op.id) : m \in Tree!There /\ cat'[m].path = Graft(prefix, op.id, Path(m), Len(Path(op.id)))
    BY <2>1, <2>2, SubtreeIs DEF Grafted, Path
  <2>4. ASSUME op.id \notin DOMAIN paths PROVE cat[op.id].parent = op.parent
    <3>1. op.id \in Tree!Subtree(op.id) /\ op.id \in Tree!There
      BY <1>1, <1>8, RootedPaths
    <3>2. PICK q \in Seq(Ids), d \in Nat : q = Path(op.id) /\ d = Len(q)
      BY <3>1, CategoryIs
    <3>3. PICK s \in Seq(Ids), x \in Ids : s = prefix /\ x = op.id
      BY <1>1
    <3>4. q = Graft(s, x, q, d)
      BY <2>2, <2>4, <3>1, <3>2, <3>3 DEF Grafted
    <3>5. Len(Graft(s, x, q, d)) = Len(s) + 1 + (IF d < Len(q) THEN Len(q) - d ELSE 0)
      BY GraftIs
    <3>6. \A i \in 1 .. Len(s) : Graft(s, x, q, d)[i] = s[i]
      BY GraftHolds
    <3>7. Len(q) = n + 1
      BY <1>2, <3>2, <3>3, <3>4, <3>5
    <3>8. n # 0 => q[n] = op.parent
      BY <1>2, <1>3, <3>3, <3>4, <3>6
    <3>9. cat[op.id].parent = Tree!Above(q)
      BY <3>1, <3>2 DEF Rooted
    <3>10. n # 0 => Len(q) # 1 /\ Len(q) - 1 = n
      BY <3>7
    <3>. QED  BY <1>3, <3>7, <3>8, <3>9, <3>10 DEF Tree!Above
  <2>5. \A m \in Tree!Subtree(op.id) : cat'[m].parent = IF m = op.id THEN op.parent ELSE cat[m].parent
    BY <2>1, <2>2, <2>3, <2>4
  <2>6. \A m \in Tree!There \ Tree!Subtree(op.id) : cat'[m] = cat[m]
    BY <2>1, <2>2
  <2>7. \A i \in DOMAIN prefix : prefix[i] # op.id
    BY <2>2
  <2>8. Moves(op.id, op.parent)
    BY <1>1, <2>1, <2>3, <2>5, <2>6, <2>7 DEF Moves
  <2>. QED  BY <1>1, <1>8, <2>8, GraftKeepsTree
<1>. QED  BY <1>1, <1>5, <1>6, <1>7, <1>8

\* Of two requests under way that met no clash, one commits and what the other has read stays.
LEMMA OthersStay ==
  ASSUME TreeInv, ~clashed, NEW e \in Staff, Commits(e), edit[e].pc = "ready",
         NEW f \in Editing \ {e}, NEW other, other = edit[f].op
  PROVE  /\ other.parent \in Tree!There' \cup {None}
         /\ Tree!ResolvePath(other.parent)' = Tree!ResolvePath(other.parent)
         /\ other.kind # "create" =>
              /\ other.id \in Tree!Subtree(other.id) /\ Tree!Subtree(other.id)' = Tree!Subtree(other.id)
              /\ \A m \in Tree!Subtree(other.id) : m \in Tree!There' /\ cat'[m] = cat[m]
<1>1. /\ BranchInv /\ Rooted /\ e \in Editing /\ Knows(edit[e]) /\ Knows(edit[f])
      /\ ~Tree!Related(edit[e].op, other)
  BY DEF TreeInv, RootedInv, Commits
<1>2. /\ other \in Tree!Ops /\ other.parent \in Tree!There \cup {None}
      /\ other.kind # "create" => other.id \in Tree!There
  BY <1>1, EditingIs DEF Knows
<1>3. edit[e].op.kind # "create" => edit[e].op.id \in Tree!There
  BY <1>1 DEF Knows
<1>4. other.id # edit[e].op.id
  <2>1. CASE edit[e].op.kind = "create"
    BY <1>1, <2>1 DEF BranchInv
  <2>2. CASE other.kind = "create"
    BY <1>1, <2>2 DEF BranchInv
  <2>3. CASE edit[e].op.kind # "create" /\ other.kind # "create"
    BY <1>1, <2>3 DEF Tree!Related, Tree!Rewrites
  <2>. QED  BY <2>1, <2>2, <2>3
<1>5. other.kind # "create" => other.id \in Tree!Subtree(other.id)
  BY <1>1, <1>2, RootedPaths
<1>. QED  BY <1>1, <1>2, <1>4, <1>5, UnrelatedStays

LEMMA CommitKeepsRoots ==
  ASSUME TreeInv, NEW e \in Staff, Tree!Commit(e)
  PROVE  RootedInv'
<1>1. /\ e \in Editing /\ edit[e].pc = "ready" /\ UNCHANGED <<item, clashed>>
      /\ Editing' = Editing \ {e} /\ \A f \in Editing' : edit'[f] = edit[f]
  BY EditEnds DEF Editing
<1>. SUFFICES ASSUME ~clashed
              PROVE  /\ Rooted' /\ \A f \in Editing' : Knows(edit[f])'
                     /\ \A f, g \in Editing' : f # g => ~Tree!Related(edit[f].op, edit[g].op)'
  BY <1>1 DEF TreeInv, RootedInv
<1>2. /\ BranchInv /\ Rooted /\ \A f \in Editing : Knows(edit[f])
      /\ \A f, g \in Editing : f # g => ~Tree!Related(edit[f].op, edit[g].op)
  BY DEF TreeInv, RootedInv
<1>3. CASE cat' = cat
  <2>1. Rooted' /\ \A s : Knows(s) => Knows(s)'
    BY <1>2, <1>3, SameRows
  <2>2. ASSUME NEW f \in Editing', NEW s, s = edit[f] PROVE Knows(edit[f])'
    <3>1. f \in Editing /\ edit'[f] = s /\ Knows(s)'
      BY <1>1, <1>2, <2>1, <2>2
    <3>. QED  BY <3>1 DEF Knows, Path, Grafted
  <2>3. ASSUME NEW f \in Editing', NEW g \in Editing', f # g
        PROVE  ~Tree!Related(edit[f].op, edit[g].op)'
    <3>1. PICK o, p : o = edit[f].op /\ p = edit[g].op
      OBVIOUS
    <3>2. edit'[f].op = o /\ edit'[g].op = p /\ ~Tree!Related(o, p)
      BY <1>1, <1>2, <2>3, <3>1
    <3>3. ~Tree!Related(o, p)'
      BY <1>3, <3>2, SameRows
    <3>. QED  BY <3>2, <3>3 DEF Tree!Related, Tree!Reads, Tree!Rewrites
  <2>. QED  BY <2>1, <2>2, <2>3
<1>4. CASE Commits(e)
  <2>1. Rooted'
    BY <1>1, <1>2, <1>4, CommitKeepsTree
  <2>2. ASSUME NEW f \in Editing' PROVE Knows(edit[f])'
    <3>1. PICK r : r = edit[f]
      OBVIOUS
    <3>2. f \in Editing \ {e} /\ edit'[f] = r /\ Knows(r)
      BY <1>1, <1>2, <3>1
    <3>3. /\ r.op.parent \in Tree!There' \cup {None}
          /\ Tree!ResolvePath(r.op.parent)' = Tree!ResolvePath(r.op.parent)
          /\ r.op.kind # "create" =>
               /\ r.op.id \in Tree!Subtree(r.op.id) /\ Tree!Subtree(r.op.id)' = Tree!Subtree(r.op.id)
               /\ \A m \in Tree!Subtree(r.op.id) : m \in Tree!There' /\ cat'[m] = cat[m]
      BY <1>1, <1>4, <3>1, <3>2, OthersStay
    <3>4. Knows(r)'
      BY <3>2, <3>3 DEF Knows, Path, Grafted
    <3>. QED  BY <3>2, <3>4 DEF Knows, Path, Grafted
  <2>3. ASSUME NEW f \in Editing', NEW g \in Editing', f # g
        PROVE  ~Tree!Related(edit[f].op, edit[g].op)'
    <3>1. PICK o, p : o = edit[f].op /\ p = edit[g].op
      OBVIOUS
    <3>2. f \in Editing \ {e} /\ g \in Editing \ {e} /\ edit'[f].op = o /\ edit'[g].op = p /\ ~Tree!Related(o, p)
      BY <1>1, <1>2, <2>3, <3>1
    <3>3. /\ Tree!ResolvePath(o.parent)' = Tree!ResolvePath(o.parent)
          /\ o.kind # "create" => Tree!Subtree(o.id)' = Tree!Subtree(o.id)
          /\ Tree!ResolvePath(p.parent)' = Tree!ResolvePath(p.parent)
          /\ p.kind # "create" => Tree!Subtree(p.id)' = Tree!Subtree(p.id)
      BY <1>1, <1>4, <3>1, <3>2, OthersStay
    <3>4. /\ Tree!Reads(o)' = Tree!Reads(o) /\ Tree!Reads(p)' = Tree!Reads(p)
          /\ Tree!Rewrites(o)' = Tree!Rewrites(o) /\ Tree!Rewrites(p)' = Tree!Rewrites(p)
      BY <3>3 DEF Tree!Reads, Tree!Rewrites
    <3>5. ~Tree!Related(o, p)'
      BY <3>2, <3>4 DEF Tree!Related
    <3>. QED  BY <3>2, <3>5 DEF Tree!Related, Tree!Reads, Tree!Rewrites
  <2>. QED  BY <2>1, <2>2, <2>3
<1>. QED  BY <1>3, <1>4, EditEnds DEF Commits

LEMMA TreeInit ==
  ASSUME Tree!Init PROVE TreeInv
<1>1. PICK forest \in Forests :
        cat = [c \in Ids |-> IF c \notin DOMAIN forest THEN None
                             ELSE [parent |-> Tree!Above(forest[c]), path |-> forest[c], active |-> TRUE]]
  BY DEF Tree!Init
<1>2. /\ DOMAIN forest \subseteq Ids
      /\ \A c \in DOMAIN forest :
           /\ forest[c] \in Seq(DOMAIN forest) /\ forest[c] # <<>> /\ forest[c][Len(forest[c])] = c
           /\ \A i \in DOMAIN forest[c] : forest[forest[c][i]] = SubSeq(forest[c], 1, i)
  BY TreesAssumption
<1>3. ASSUME NEW c \in DOMAIN forest, NEW q, q = forest[c]
      PROVE  /\ c \in Ids /\ q \in Seq(Ids) /\ q # <<>> /\ Tree!Above(q) \in DOMAIN forest \cup {None}
             /\ q[Len(q)] = c
             /\ \A i \in DOMAIN q :
                  /\ q[i] \in DOMAIN forest /\ Len(forest[q[i]]) = i
                  /\ \A j \in 1 .. i : forest[q[i]][j] = q[j]
  <2>1. c \in Ids /\ q \in Seq(DOMAIN forest) /\ q # <<>> /\ q[Len(q)] = c
    BY <1>2, <1>3
  <2>2. PICK n \in Nat \ {0} : n = Len(q) /\ DOMAIN q = 1 .. n
    BY <2>1, LenProperties, EmptySeq
  <2>3. \A i \in 1 .. n : q[i] \in DOMAIN forest
    BY <2>1, <2>2, ElementOfSeq
  <2>4. Tree!Above(q) \in DOMAIN forest \cup {None}
    <3>1. n # 1 => n - 1 \in 1 .. n
      BY <2>2
    <3>. QED  BY <2>2, <2>3, <3>1 DEF Tree!Above
  <2>5. ASSUME NEW i \in 1 .. n
        PROVE  Len(forest[q[i]]) = i /\ \A j \in 1 .. i : forest[q[i]][j] = q[j]
    <3>1. forest[q[i]] = SubSeq(q, 1, i)
      BY <1>2, <1>3, <2>2
    <3>2. \A j \in 1 .. i : q[j] \in DOMAIN forest
      BY <2>3
    <3>3. Len(SubSeq(q, 1, i)) = i /\ \A j \in 1 .. i : SubSeq(q, 1, i)[j] = q[j]
      BY <2>1, <2>2
    <3>. QED  BY <3>1, <3>3
  <2>6. c \in Ids /\ q \in Seq(Ids)
    BY <1>2, <2>1, <2>2, <2>3
  <2>7. \A i \in DOMAIN q :
          /\ q[i] \in DOMAIN forest /\ Len(forest[q[i]]) = i
          /\ \A j \in 1 .. i : forest[q[i]][j] = q[j]
    BY <2>2, <2>3, <2>5
  <2>. QED  BY <2>1, <2>4, <2>6, <2>7
<1>4. ASSUME NEW c \in DOMAIN forest
      PROVE  /\ cat[c] = [parent |-> Tree!Above(forest[c]), path |-> forest[c], active |-> TRUE]
             /\ cat[c] \in CategoryRow /\ cat[c] # None
             /\ Path(c) = forest[c] /\ cat[c].parent = Tree!Above(forest[c])
  <2>1. cat[c] = [parent |-> Tree!Above(forest[c]), path |-> forest[c], active |-> TRUE] /\ c \in Ids
    BY <1>1, <1>2
  <2>2. Tree!Above(forest[c]) \in Ids \cup {None} /\ forest[c] \in Seq(Ids)
    BY <1>2, <1>3
  <2>3. cat[c] \in CategoryRow
    BY <2>1, <2>2 DEF CategoryRow
  <2>4. cat[c] # None
    BY <2>3, TreesAssumption
  <2>5. Path(c) = forest[c] /\ cat[c].parent = Tree!Above(forest[c])
    BY <2>1 DEF Path
  <2>. QED  BY <2>1, <2>3, <2>4, <2>5
<1>5. Tree!There = DOMAIN forest /\ cat \in [Ids -> CategoryRow \cup {None}]
  <2>1. \A c \in Ids \ DOMAIN forest : cat[c] = None
    BY <1>1
  <2>2. DOMAIN cat = Ids /\ \A c \in Ids : cat[c] \in CategoryRow \cup {None}
    BY <1>1, <1>4, <2>1
  <2>3. cat = [c \in Ids |-> cat[c]]
    BY <1>1
  <2>. QED  BY <1>2, <1>4, <2>1, <2>2, <2>3 DEF Tree!There
<1>6. Rooted
  <2>. SUFFICES ASSUME NEW c \in DOMAIN forest
                PROVE  /\ Path(c)[Len(Path(c))] = c /\ cat[c].parent = Tree!Above(Path(c))
                       /\ \A i \in DOMAIN Path(c) :
                            /\ Path(c)[i] \in DOMAIN forest /\ Len(Path(Path(c)[i])) = i
                            /\ \A j \in 1 .. i : Path(Path(c)[i])[j] = Path(c)[j]
    BY <1>5 DEF Rooted
  <2>1. PICK q : q = forest[c]
    OBVIOUS
  <2>2. Path(c) = q /\ cat[c].parent = Tree!Above(q)
    BY <1>4, <2>1
  <2>3. /\ q[Len(q)] = c
        /\ \A i \in DOMAIN q :
             /\ q[i] \in DOMAIN forest /\ Len(forest[q[i]]) = i
             /\ \A j \in 1 .. i : forest[q[i]][j] = q[j]
    BY <1>3, <2>1
  <2>4. \A i \in DOMAIN q : Path(q[i]) = forest[q[i]]
    BY <1>4, <2>3
  <2>. QED  BY <2>2, <2>3, <2>4
<1>7. PICK h \in Tree!There : item = [home |-> h, path |-> cat[h].path]
  BY DEF Tree!Init
<1>8. item.home = h /\ item.path = Path(h)
  BY <1>7 DEF Path
<1>9. /\ edit = [e \in Staff |-> Tree!NoEdit] /\ clashed = FALSE /\ edits = 0 /\ Editing = {}
  BY DEF Tree!Init, Editing, Tree!NoEdit
<1>10. BranchInv
  <2>1. \A c \in Tree!There : Path(c) # <<>> /\ cat[c].parent \in Tree!There \cup {None}
    <3>. TAKE c \in Tree!There
    <3>1. PICK q : q = forest[c]
      OBVIOUS
    <3>2. c \in DOMAIN forest /\ cat[c].parent = Tree!Above(q) /\ Path(c) = q
      BY <1>4, <1>5, <3>1
    <3>3. q # <<>> /\ Tree!Above(q) \in DOMAIN forest \cup {None}
      BY <1>3, <3>1, <3>2
    <3>. QED  BY <1>5, <3>2, <3>3
  <2>2. item.path \in Seq(Ids)
    <3>1. PICK q : q = forest[h]
      OBVIOUS
    <3>2. h \in DOMAIN forest /\ Path(h) = q
      BY <1>4, <1>5, <3>1
    <3>3. q \in Seq(Ids)
      BY <1>3, <3>1, <3>2
    <3>. QED  BY <1>8, <3>2, <3>3
  <2>3. edits + Cardinality(Editing) =< MaxEdits /\ IsFiniteSet(Editing) /\ edits \in Nat
    BY <1>9, FS_EmptySet, TreesAssumption
  <2>. QED  BY <1>5, <1>8, <1>9, <2>1, <2>2, <2>3 DEF BranchInv, TreeJob
<1>11. \A i, j \in DOMAIN item.path : item.path[i] = item.path[j] => i = j
  BY <1>6, <1>8, <1>10, RootedPaths
<1>. QED  BY <1>6, <1>9, <1>10, <1>11 DEF TreeInv, RootedInv

LEMMA TreeStepKeeps ==
  ASSUME TreeInv, TreeStep
  PROVE  TreeInv'
BY StartKeepsTree, ReadKeepsTree, CommitKeepsBranches, CommitKeepsRoots, SaveKeepsTree DEF TreeStep, TreeInv

\* A category's parent is one step up its path.
LEMMA ParentIs ==
  ASSUME BranchInv, Rooted, NEW c \in Tree!There, NEW p, p = cat[c].parent, NEW n \in Nat, n = Len(Path(c))
  PROVE  /\ n = 1 => p = None
         /\ n # 1 => /\ p \in Tree!There /\ Len(Path(p)) = n - 1
                     /\ \A i \in 1 .. n - 1 : Path(p)[i] = Path(c)[i]
<1>1. n # 0 /\ DOMAIN Path(c) = 1 .. n
  BY CategoryIs
<1>2. p = Tree!Above(Path(c))
  BY DEF Rooted
<1>3. n # 1 => p = Path(c)[n - 1] /\ n - 1 \in 1 .. n
  BY <1>1, <1>2 DEF Tree!Above
<1>4. n = 1 => p = None
  BY <1>2 DEF Tree!Above
<1>5. n # 1 => /\ p \in Tree!There /\ Len(Path(p)) = n - 1
               /\ \A i \in 1 .. n - 1 : Path(p)[i] = Path(c)[i]
  <2>. SUFFICES ASSUME n # 1
                PROVE  /\ p \in Tree!There /\ Len(Path(p)) = n - 1
                       /\ \A i \in 1 .. n - 1 : Path(p)[i] = Path(c)[i]
    OBVIOUS
  <2>1. PICK k \in DOMAIN Path(c) : k = n - 1 /\ p = Path(c)[k]
    BY <1>1, <1>3
  <2>2. /\ Path(c)[k] \in Tree!There /\ Len(Path(Path(c)[k])) = k
        /\ \A j \in 1 .. k : Path(Path(c)[k])[j] = Path(c)[j]
    BY <2>1 DEF Rooted
  <2>. QED  BY <2>1, <2>2
<1>. QED  BY <1>4, <1>5

LEMMA PathIs ==
  ASSUME BranchInv, Rooted, NEW c \in Tree!There
  PROVE  Path(c) = Append(Tree!ResolvePath(cat[c].parent), c)
<1>1. PICK p : p = cat[c].parent
  OBVIOUS
<1>2. PICK q : q = Path(c)
  OBVIOUS
<1>3. /\ c \in Ids /\ q \in Seq(Ids) /\ Len(q) \in Nat \ {0} /\ q[Len(q)] = c
      /\ p \in Tree!There \cup {None} /\ None \notin Tree!There
  BY <1>1, <1>2, CategoryIs, TreesAssumption DEF Rooted, BranchInv, Tree!There
<1>4. PICK n \in Nat \ {0} : n = Len(q)
  BY <1>3
<1>5. PICK s : s = Tree!ResolvePath(p)
  OBVIOUS
<1>6. s \in Seq(Ids) /\ Len(s) = n - 1 /\ \A i \in 1 .. n - 1 : s[i] = q[i]
  <2>1. CASE n = 1
    <3>1. s = <<>>
      BY <1>1, <1>2, <1>4, <1>5, <2>1, ParentIs DEF Tree!ResolvePath
    <3>. QED  BY <2>1, <3>1, EmptySeq
  <2>2. CASE n # 1
    <3>1. p \in Tree!There /\ Len(Path(p)) = n - 1 /\ \A i \in 1 .. n - 1 : Path(p)[i] = q[i]
      BY <1>1, <1>2, <1>4, <2>2, ParentIs
    <3>. QED  BY <1>3, <1>5, <3>1, CategoryIs DEF Tree!ResolvePath, Path
  <2>. QED  BY <2>1, <2>2
<1>7. /\ Append(s, c) \in Seq(Ids) /\ Len(Append(s, c)) = Len(s) + 1
      /\ Append(s, c)[Len(s) + 1] = c /\ \A i \in 1 .. Len(s) : Append(s, c)[i] = s[i]
  BY <1>3, <1>6, AppendIs
<1>8. PICK a : a = Append(s, c)
  OBVIOUS
<1>9. a \in Seq(Ids) /\ Len(a) = n /\ \A i \in 1 .. n : a[i] = q[i]
  BY <1>3, <1>4, <1>6, <1>7, <1>8
<1>10. a = q
  BY <1>3, <1>4, <1>9, SeqEqual
<1>. QED  BY <1>1, <1>2, <1>5, <1>8, <1>10

\* Going up from a category that is shown ends at one the menu starts with.
LEMMA MenuShowsAll ==
  ASSUME BranchInv, Rooted
  PROVE  Tree!Menu = Tree!Listed
<1>. SUFFICES ASSUME NEW M \in SUBSET Tree!Listed, Tree!MenuRoots \subseteq M,
                     \A d \in M : Tree!MenuChildren(d) \subseteq M, Tree!Listed \ M # {}
              PROVE  FALSE
  BY DEF Tree!Menu
<1>. DEFINE depths == {Len(Path(c)) : c \in Tree!Listed \ M}
<1>1. \A c \in Tree!Listed : c \in Tree!There /\ Len(Path(c)) \in Nat \ {0}
  BY CategoryIs DEF Tree!Listed
<1>2. depths \in SUBSET Nat /\ depths # {}
  BY <1>1
<1>3. PICK least \in depths : \A x \in depths : least =< x
  BY <1>2, LeastOf
<1>4. PICK c \in Tree!Listed \ M : \A d \in Tree!Listed \ M : Len(Path(c)) =< Len(Path(d))
  BY <1>3
<1>. HIDE DEF depths
<1>5. PICK p : p = cat[c].parent
  OBVIOUS
<1>6. p \in Tree!Listed
  BY <1>4, <1>5 DEF Tree!MenuRoots
<1>7. p \notin M
  BY <1>4, <1>5 DEF Tree!MenuChildren
<1>8. PICK n \in Nat \ {0} : n = Len(Path(c))
  BY <1>1, <1>4
<1>9. Len(Path(p)) = n - 1
  <2>1. p # None
    BY <1>6, TreesAssumption DEF Tree!Listed, Tree!There
  <2>. QED  BY <1>1, <1>4, <1>5, <1>8, <2>1, ParentIs
<1>. QED  BY <1>4, <1>6, <1>7, <1>8, <1>9

LEMMA TreeSound ==
  ASSUME TreeInv
  PROVE  Tree!TypeOK /\ Tree!TreeIsSound /\ Tree!CountMatchesPage
<1>1. BranchInv /\ RootedInv
  BY DEF TreeInv
<1>2. Tree!TypeOK
  <2>1. \A c \in Tree!There : /\ cat[c].path # <<>> /\ cat[c].parent \in Tree!There \cup {None}
                              /\ Tree!Range(cat[c].path) \subseteq Ids
    <3>. TAKE c \in Tree!There
    <3>1. PICK q : q = Path(c)
      OBVIOUS
    <3>2. q \in Seq(Ids)
      BY <1>1, <3>1, CategoryIs
    <3>3. Tree!Range(q) \subseteq Ids
      BY <3>2, ElementOfSeq, LenProperties DEF Tree!Range
    <3>. QED  BY <1>1, <3>1, <3>3 DEF BranchInv, Path
  <2>2. edits \in 0 .. MaxEdits
    <3>1. Cardinality(Editing) \in Nat
      BY <1>1, FS_CardinalityType DEF BranchInv
    <3>. QED  BY <1>1, <3>1, TreesAssumption DEF BranchInv
  <2>. QED  BY <1>1, <2>1, <2>2 DEF Tree!TypeOK, BranchInv
<1>3. Tree!TreeIsSound
  BY <1>1, PathIs, MenuShowsAll DEF Tree!TreeIsSound, RootedInv, Path
<1>4. Tree!CountMatchesPage
  <2>. SUFFICES ASSUME ~clashed, NEW c \in Ids PROVE Tree!CountOf(c) = Tree!OnPage(c)
    BY DEF Tree!CountMatchesPage
  <2>. DEFINE S == {i \in DOMAIN item.path : item.path[i] = c}
  <2>1. Tree!CountOf(c) = Cardinality(S)
    BY TreeCardinality DEF Tree!CountOf
  <2>2. CASE c \in Tree!Range(item.path)
    <3>1. PICK i \in DOMAIN item.path : item.path[i] = c
      BY <2>2 DEF Tree!Range
    <3>2. S = {i}
      BY <1>1, <3>1 DEF RootedInv
    <3>. QED  BY <2>1, <2>2, <3>2, FS_Singleton DEF Tree!OnPage
  <2>3. CASE c \notin Tree!Range(item.path)
    <3>1. S = {}
      BY <2>3 DEF Tree!Range
    <3>. QED  BY <2>1, <2>3, <3>1, FS_EmptySet DEF Tree!OnPage
  <2>. QED  BY <2>2, <2>3
<1>. QED  BY <1>2, <1>3, <1>4

\* Unless two requests worked on related categories at once, every category's path is its
\* parent's path and itself, the menu reaches every category shown, and the number beside a
\* category is what its page lists (create_category, move_category, delete_category,
\* update_category, list_categories, count_products_by_category).
THEOREM TreeStaysSound == Spec => []TreeIsSound
<1>. DEFINE Inv == part = "tree" => TreeInv
<1>1. Init => Inv
  BY TreeInit DEF Init
<1>2. Inv /\ [Next]_vars => Inv'
  <2>. SUFFICES ASSUME Inv, [Next]_vars, part = "tree" PROVE TreeInv'
    BY PartStep
  <2>1. CASE TreeStep
    BY <2>1, TreeStepKeeps
  <2>2. CASE UNCHANGED tree
    BY <2>2, TreeStays
  <2>. QED  BY <2>1, <2>2, PartStep
<1>3. Inv => TreeIsSound
  BY TreeSound DEF TreeIsSound
<1>. QED  BY <1>1, <1>2, <1>3, PTL DEF Spec

-----------------------------------------------------------------------------
\* Orders and pages

\* Before is a strict total order of S.
Orders(Before, S) ==
  /\ \A x \in S : <<x, x>> \notin Before
  /\ \A x, y \in S : x = y \/ <<x, y>> \in Before \/ <<y, x>> \in Before
  /\ \A x, y, z \in S : <<x, y>> \in Before /\ <<y, z>> \in Before => <<x, z>> \in Before

Ahead(S, Before, x) == {y \in S : <<y, x>> \in Before}

\* Of two rows the first one has fewer ahead of it, and no row has all ahead of it.
LEMMA FewerAhead ==
  ASSUME NEW S, IsFiniteSet(S), NEW Before, Orders(Before, S), NEW x \in S
  PROVE  /\ Cardinality(Ahead(S, Before, x)) \in 0 .. Cardinality(S) - 1
         /\ Cardinality(S) \in Nat
         /\ \A y \in S : <<x, y>> \in Before =>
              Cardinality(Ahead(S, Before, x)) < Cardinality(Ahead(S, Before, y))
<1>1. \A y \in S : /\ IsFiniteSet(Ahead(S, Before, y))
                   /\ Cardinality(Ahead(S, Before, y)) \in Nat
  BY FS_Subset, FS_CardinalityType DEF Ahead
<1>2. Ahead(S, Before, x) \subseteq S /\ x \notin Ahead(S, Before, x)
  BY DEF Ahead, Orders
<1>3. Cardinality(Ahead(S, Before, x)) =< Cardinality(S) /\ Cardinality(S) \in Nat
      /\ (Cardinality(S) = Cardinality(Ahead(S, Before, x)) => S = Ahead(S, Before, x))
  BY <1>2, FS_Subset, FS_CardinalityType
<1>4. ASSUME NEW y \in S, <<x, y>> \in Before
      PROVE  Cardinality(Ahead(S, Before, x)) < Cardinality(Ahead(S, Before, y))
  <2>1. Ahead(S, Before, x) \subseteq Ahead(S, Before, y) /\ x \in Ahead(S, Before, y)
    BY <1>4 DEF Ahead, Orders
  <2>2. /\ Cardinality(Ahead(S, Before, x)) =< Cardinality(Ahead(S, Before, y))
        /\ Cardinality(Ahead(S, Before, y)) = Cardinality(Ahead(S, Before, x))
             => Ahead(S, Before, y) = Ahead(S, Before, x)
    BY <1>1, <2>1, FS_Subset
  <2>. QED  BY <1>1, <1>2, <2>1, <2>2
<1>. QED  BY <1>1, <1>2, <1>3, <1>4

\* In order means each row once, the first ones first.
LEMMA InOrderIs ==
  ASSUME NEW S, IsFiniteSet(S), NEW Before, Orders(Before, S)
  PROVE  /\ Cardinality(S) \in Nat
         /\ InOrder(S, Before) \in [1 .. Cardinality(S) -> S]
         /\ \A i, j \in 1 .. Cardinality(S) :
              i < j => <<InOrder(S, Before)[i], InOrder(S, Before)[j]>> \in Before
         /\ \A x \in S : \E i \in 1 .. Cardinality(S) : InOrder(S, Before)[i] = x
<1>. DEFINE n == Cardinality(S)
            place == [x \in S |-> Cardinality(Ahead(S, Before, x)) + 1]
<1>1. n \in Nat /\ IsFiniteSet(1 .. n) /\ Cardinality(1 .. n) = n
  BY FS_CardinalityType, FS_Interval
<1>2. \A x \in S : place[x] \in 1 .. n
  BY <1>1, FewerAhead
<1>3. \A x, y \in S : <<x, y>> \in Before => place[x] < place[y]
  <2>1. \A x \in S : Cardinality(Ahead(S, Before, x)) \in Nat
    BY FS_Subset, FS_CardinalityType DEF Ahead
  <2>. QED  BY <2>1, FewerAhead
<1>4. \A x, y \in S : place[x] = place[y] => x = y
  <2>. HIDE DEF place, n
  <2>1. \A x \in S : place[x] \in Int
    BY <1>1, <1>2
  <2>2. ASSUME NEW x \in S, NEW y \in S, place[x] = place[y] PROVE x = y
    <3>1. x = y \/ <<x, y>> \in Before \/ <<y, x>> \in Before
      BY DEF Orders
    <3>2. ~(place[x] < place[y]) /\ ~(place[y] < place[x])
      BY <2>1, <2>2
    <3>. QED  BY <1>3, <3>1, <3>2
  <2>. QED  BY <2>2
<1>5. \A i \in 1 .. n : \E x \in S : place[x] = i
  <2>. DEFINE T == 1 .. n
  <2>1. place \in Injection(S, T)
    <3>1. place \in [S -> T]
      BY <1>2
    <3>. HIDE DEF place, T
    <3>. QED  BY <1>4, <3>1 DEF Injection, IsInjective
  <2>2. IsFiniteSet(T) /\ Cardinality(S) = Cardinality(T)
    BY <1>1
  <2>. HIDE DEF place, T
  <2>3. place \in Surjection(S, T)
    BY <2>1, <2>2, FS_Injection
  <2>. QED  BY <2>3 DEF Surjection, T
<1>6. ASSUME NEW i \in 1 .. n
      PROVE  InOrder(S, Before)[i] \in S /\ place[InOrder(S, Before)[i]] = i
  <2>1. InOrder(S, Before)[i] = CHOOSE x \in S : Cardinality({y \in S : <<y, x>> \in Before}) = i - 1
    BY DEF InOrder
  <2>2. \E x \in S : Cardinality({y \in S : <<y, x>> \in Before}) = i - 1
    <3>1. PICK x \in S : place[x] = i
      BY <1>5
    <3>2. Cardinality(Ahead(S, Before, x)) = i - 1
      BY <1>1, <3>1, FewerAhead
    <3>. QED  BY <3>2 DEF Ahead
  <2>3. /\ InOrder(S, Before)[i] \in S
        /\ Cardinality({y \in S : <<y, InOrder(S, Before)[i]>> \in Before}) = i - 1
    BY <2>1, <2>2
  <2>. QED  BY <1>1, <2>3 DEF Ahead
<1>. DEFINE row(i) == CHOOSE x \in S : Cardinality({y \in S : <<y, x>> \in Before}) = i - 1
<1>7. InOrder(S, Before) = [i \in 1 .. n |-> row(i)]
  BY DEF InOrder
<1>8. InOrder(S, Before) \in [1 .. n -> S]
  <2>. HIDE DEF row, n
  <2>1. \A i \in 1 .. n : row(i) \in S
    BY <1>6, <1>7
  <2>. QED  BY <1>7, <2>1
<1>. HIDE DEF row
<1>9. ASSUME NEW i \in 1 .. n, NEW j \in 1 .. n, i < j
      PROVE  <<InOrder(S, Before)[i], InOrder(S, Before)[j]>> \in Before
  <2>. DEFINE x == InOrder(S, Before)[i]
              y == InOrder(S, Before)[j]
  <2>1. x \in S /\ y \in S /\ place[x] = i /\ place[y] = j
    BY <1>6
  <2>2. x # y /\ ~(<<y, x>> \in Before)
    <3>. HIDE DEF x, y, place
    <3>1. i # j /\ ~(j < i)
      BY <1>1, <1>9
    <3>. QED  BY <1>3, <2>1, <3>1
  <2>. HIDE DEF x, y
  <2>3. <<x, y>> \in Before
    BY <2>1, <2>2 DEF Orders
  <2>. QED  BY <2>3 DEF x, y
<1>10. ASSUME NEW x \in S PROVE \E i \in 1 .. n : InOrder(S, Before)[i] = x
  <2>1. place[x] \in 1 .. n
    BY <1>2
  <2>2. InOrder(S, Before)[place[x]] \in S /\ place[InOrder(S, Before)[place[x]]] = place[x]
    BY <1>6, <2>1
  <2>. HIDE DEF place
  <2>. QED  BY <1>4, <2>1, <2>2
<1>. QED  BY <1>1, <1>8, <1>9, <1>10

LEMMA LeastOfTwo ==
  ASSUME NEW a \in Int, NEW b \in Int
  PROVE  Min({a, b}) = IF a =< b THEN a ELSE b
<1>1. \E m \in {a, b} : \A x \in {a, b} : m =< x
  BY Z3
<1>2. Min({a, b}) \in {a, b} /\ \A x \in {a, b} : Min({a, b}) =< x
  BY <1>1 DEF Min
<1>. QED  BY <1>2

LEMMA LimitedIs ==
  ASSUME NEW T, NEW s \in Seq(T), NEW n \in Nat
  PROVE  LET k == IF n =< Len(s) THEN n ELSE Len(s)
         IN  /\ k \in Nat /\ k =< Len(s) /\ k =< n
             /\ Limited(s, n) \in Seq(T) /\ Len(Limited(s, n)) = k /\ DOMAIN Limited(s, n) = 1 .. k
             /\ \A i \in 1 .. k : i \in 1 .. Len(s) /\ Limited(s, n)[i] = s[i]
<1>. DEFINE k == IF n =< Len(s) THEN n ELSE Len(s)
<1>1. Len(s) \in Nat /\ k \in Nat /\ k =< Len(s) /\ k =< n /\ Min({n, Len(s)}) = k
  BY LeastOfTwo, LenProperties
<1>2. Limited(s, n) = SubSeq(s, 1, k)
  BY <1>1 DEF Limited
<1>. HIDE DEF k
<1>3. \A i \in 1 .. k : i \in 1 .. Len(s)
  BY <1>1
<1>4. /\ SubSeq(s, 1, k) \in Seq(T)
      /\ Len(SubSeq(s, 1, k)) = k
      /\ \A i \in 1 .. k : SubSeq(s, 1, k)[i] = s[i]
  BY <1>1, <1>3
<1>5. DOMAIN SubSeq(s, 1, k) = 1 .. k
  BY <1>4
<1>. QED  BY <1>1, <1>2, <1>3, <1>4, <1>5 DEF k

\* What a sequence holds, counted.
LEMMA HeldOnce ==
  ASSUME NEW T, NEW s \in Seq(T), IsInjective(s)
  PROVE  IsFiniteSet(Range(s)) /\ Cardinality(Range(s)) = Len(s) /\ Range(s) \subseteq T
<1>1. Len(s) \in Nat /\ DOMAIN s = 1 .. Len(s) /\ s \in [1 .. Len(s) -> T]
  BY LenProperties
<1>. DEFINE D == 1 .. Len(s)
<1>2. s \in Surjection(D, Range(s)) /\ s \in Injection(D, Range(s))
  <2>1. s \in [D -> Range(s)] /\ DOMAIN s = D
    BY <1>1 DEF Range
  <2>. HIDE DEF D
  <2>. QED  BY <2>1 DEF Surjection, Injection, IsInjective, Range
<1>3. IsFiniteSet(D) /\ Cardinality(D) = Len(s)
  BY <1>1, FS_Interval
<1>. HIDE DEF D
<1>4. IsFiniteSet(Range(s)) /\ (Cardinality(Range(s)) = Cardinality(D) <=> s \in Injection(D, Range(s)))
  BY <1>2, <1>3, FS_Surjection
<1>. QED  BY <1>1, <1>2, <1>3, <1>4 DEF Range

\* k is the subsequence of s at these places, all those where s is in T.
Keeps(k, s, T, at) ==
  /\ at \in [1 .. Len(k) -> 1 .. Len(s)]
  /\ \A i \in 1 .. Len(k) : k[i] = s[at[i]] /\ s[at[i]] \in T
  /\ \A i, j \in 1 .. Len(k) : i < j => at[i] < at[j]
  /\ \A i \in 1 .. Len(s) : s[i] \in T => \E j \in 1 .. Len(k) : at[j] = i

\* A comprehension goes through the sequence in its order and leaves nothing out.
LEMMA KeptIs ==
  ASSUME NEW U, NEW s \in Seq(U), NEW T
  PROVE  /\ Kept(s, T) \in Seq(U \cap T) /\ Len(Kept(s, T)) \in Nat /\ Len(Kept(s, T)) =< Len(s)
         /\ DOMAIN Kept(s, T) = 1 .. Len(Kept(s, T))
         /\ \E at : Keeps(Kept(s, T), s, T, at)
<1>. DEFINE places == {i \in DOMAIN s : s[i] \in T}
            Before == {pair \in places \X places : pair[1] < pair[2]}
            at == InOrder(places, Before)
            n == Cardinality(places)
<1>1. Len(s) \in Nat /\ DOMAIN s = 1 .. Len(s)
  BY LenProperties
<1>2. places \subseteq 1 .. Len(s) /\ \A i \in places : i \in Nat /\ s[i] \in U \cap T
  BY <1>1
<1>3. IsFiniteSet(places) /\ n =< Len(s)
  <2>. DEFINE D == 1 .. Len(s)
  <2>1. IsFiniteSet(D) /\ Cardinality(D) = Len(s) /\ places \in SUBSET D
    BY <1>1, <1>2, FS_Interval
  <2>. HIDE DEF D, places
  <2>. QED  BY <2>1, FS_Subset
<1>4. Orders(Before, places)
  <2>1. \A x, y \in places : <<x, y>> \in Before <=> x < y
    OBVIOUS
  <2>. HIDE DEF Before, places
  <2>. QED  BY <1>2, <2>1 DEF Orders
<1>. HIDE DEF places
<1>5. /\ n \in Nat /\ at \in [1 .. n -> places]
      /\ \A i, j \in 1 .. n : i < j => <<at[i], at[j]>> \in Before
      /\ \A x \in places : \E i \in 1 .. n : at[i] = x
  <2>. HIDE DEF Before
  <2>. QED  BY <1>3, <1>4, InOrderIs
<1>6. \A i, j \in 1 .. n : i < j => at[i] < at[j]
  <2>. HIDE DEF at, n
  <2>. QED  BY <1>5
<1>7. Kept(s, T) = [i \in 1 .. n |-> s[at[i]]]
  <2>1. Kept(s, T) = [i \in DOMAIN at |-> s[at[i]]]
    BY DEF Kept, places
  <2>2. DOMAIN at = 1 .. n
    BY <1>5
  <2>. QED  BY <2>1, <2>2
<1>. HIDE DEF at, n, Before
<1>8. \A i \in 1 .. n : s[at[i]] \in U \cap T /\ at[i] \in 1 .. Len(s)
  BY <1>2, <1>5
<1>9. Kept(s, T) \in Seq(U \cap T) /\ Len(Kept(s, T)) = n
  BY <1>5, <1>7, <1>8, IsASeq
<1>10. \A i \in 1 .. n : Kept(s, T)[i] = s[at[i]]
  BY <1>7
<1>11. at \in [1 .. n -> 1 .. Len(s)]
  BY <1>5, <1>8
<1>12. \A i \in 1 .. Len(s) : s[i] \in T => \E j \in 1 .. n : at[j] = i
  BY <1>1, <1>5 DEF places
<1>13. DOMAIN Kept(s, T) = 1 .. n
  BY <1>7
<1>14. /\ \A i \in 1 .. n : Kept(s, T)[i] = s[at[i]] /\ s[at[i]] \in T
       /\ \A i, j \in 1 .. n : i < j => at[i] < at[j]
       /\ \A i \in 1 .. Len(s) : s[i] \in T => \E j \in 1 .. n : at[j] = i
  BY <1>6, <1>8, <1>10, <1>12
<1>15. Keeps(Kept(s, T), s, T, at)
  BY <1>9, <1>11, <1>14 DEF Keeps
<1>. QED  BY <1>3, <1>5, <1>9, <1>13, <1>15

\* Of a sequence that names nothing twice a comprehension names nothing twice.
LEMMA KeptOnce ==
  ASSUME NEW U, NEW s \in Seq(U), IsInjective(s), NEW T
  PROVE  /\ Kept(s, T) \in Seq(U \cap T) /\ IsInjective(Kept(s, T)) /\ Range(Kept(s, T)) = Range(s) \cap T
         /\ Len(Kept(s, T)) = Cardinality(Range(s) \cap T) /\ IsFiniteSet(Range(s) \cap T)
<1>. DEFINE k == Kept(s, T)
<1>1. /\ k \in Seq(U \cap T) /\ Len(k) \in Nat /\ DOMAIN k = 1 .. Len(k) /\ DOMAIN s = 1 .. Len(s)
      /\ Len(s) \in Nat
  BY KeptIs, LenProperties
<1>2. PICK at : Keeps(k, s, T, at)
  BY KeptIs
<1>. HIDE DEF k
<1>3. IsInjective(k)
  <2>1. ASSUME NEW i \in 1 .. Len(k), NEW j \in 1 .. Len(k), k[i] = k[j], i < j PROVE FALSE
    <3>1. at[i] \in 1 .. Len(s) /\ at[j] \in 1 .. Len(s) /\ at[i] < at[j]
      BY <1>2, <2>1 DEF Keeps
    <3>2. s[at[i]] = s[at[j]]
      BY <1>2, <2>1 DEF Keeps
    <3>. QED  BY <1>1, <3>1, <3>2 DEF IsInjective
  <2>. QED  BY <1>1, <2>1 DEF IsInjective
<1>4. Range(k) = Range(s) \cap T
  <2>1. ASSUME NEW x \in Range(k) PROVE x \in Range(s) \cap T
    BY <1>1, <1>2, <2>1 DEF Range, Keeps
  <2>2. ASSUME NEW x \in Range(s) \cap T PROVE x \in Range(k)
    <3>1. PICK i \in 1 .. Len(s) : s[i] = x /\ s[i] \in T
      BY <1>1, <2>2 DEF Range
    <3>2. PICK j \in 1 .. Len(k) : at[j] = i
      BY <1>2, <3>1 DEF Keeps
    <3>3. k[j] = x
      BY <1>2, <3>1, <3>2 DEF Keeps
    <3>. QED  BY <1>1, <3>3 DEF Range
  <2>. QED  BY <2>1, <2>2
<1>5. Cardinality(Range(k)) = Len(k) /\ IsFiniteSet(Range(k))
  BY <1>1, <1>3, HeldOnce
<1>. QED  BY <1>1, <1>3, <1>4, <1>5 DEF k

\* The orders of the listing and of the search are these.
LEMMA SameCardinality == \A S : List!Cardinality(S) = Cardinality(S) /\ Find!Cardinality(S) = Cardinality(S)
BY DEF List!Cardinality, Find!Cardinality, Cardinality

LEMMA SameHeld ==
  \A s : /\ List!Range(s) = Range(s) /\ Find!Range(s) = Range(s)
         /\ (List!IsInjective(s) <=> IsInjective(s)) /\ (Find!IsInjective(s) <=> IsInjective(s))
BY DEF List!Range, Find!Range, Range, List!IsInjective, Find!IsInjective, IsInjective

LEMMA SameBounds ==
  \A S : /\ List!Min(S) = Min(S) /\ Find!Min(S) = Min(S)
         /\ List!Max(S) = Max(S) /\ Find!Max(S) = Max(S)
BY DEF List!Min, Find!Min, Min, List!Max, Find!Max, Max

LEMMA SameOrder == \A S, R : List!InOrder(S, R) = InOrder(S, R) /\ Find!InOrder(S, R) = InOrder(S, R)
<1>. TAKE S, R
<1>. DEFINE row(i) == CHOOSE x \in S : Cardinality({y \in S : <<y, x>> \in R}) = i - 1
            listRow(i) == CHOOSE x \in S : List!Cardinality({y \in S : <<y, x>> \in R}) = i - 1
            findRow(i) == CHOOSE x \in S : Find!Cardinality({y \in S : <<y, x>> \in R}) = i - 1
            n == Cardinality(S)
<1>1. \A i : listRow(i) = row(i) /\ findRow(i) = row(i)
  <2>1. \A x : List!Cardinality({y \in S : <<y, x>> \in R}) = Cardinality({y \in S : <<y, x>> \in R})
               /\ Find!Cardinality({y \in S : <<y, x>> \in R}) = Cardinality({y \in S : <<y, x>> \in R})
    BY SameCardinality, Zenon
  <2>. QED  BY <2>1
<1>2. List!Cardinality(S) = n /\ Find!Cardinality(S) = n
  BY SameCardinality
<1>3. InOrder(S, R) = [i \in 1 .. n |-> row(i)]
  BY DEF InOrder
<1>4. List!InOrder(S, R) = [i \in 1 .. List!Cardinality(S) |-> listRow(i)]
  BY Zenon DEF List!InOrder
<1>5. Find!InOrder(S, R) = [i \in 1 .. Find!Cardinality(S) |-> findRow(i)]
  BY Zenon DEF Find!InOrder
<1>. HIDE DEF row, listRow, findRow, n
<1>6. [i \in 1 .. n |-> listRow(i)] = [i \in 1 .. n |-> row(i)]
  BY <1>1, Zenon
<1>7. [i \in 1 .. n |-> findRow(i)] = [i \in 1 .. n |-> row(i)]
  BY <1>1, Zenon
<1>. QED  BY <1>2, <1>3, <1>4, <1>5, <1>6, <1>7

LEMMA SameLimit == \A s, n : List!Limited(s, n) = Limited(s, n)
BY SameBounds, Zenon DEF List!Limited, Limited

LEMMA SameKept == \A s, T : List!Kept(s, T) = Kept(s, T) /\ Find!Kept(s, T) = Kept(s, T)
<1>. TAKE s, T
<1>. DEFINE places == {i \in DOMAIN s : s[i] \in T}
            Before == {pair \in places \X places : pair[1] < pair[2]}
            at == InOrder(places, Before)
            kept(q) == [i \in DOMAIN q |-> s[q[i]]]
<1>1. Kept(s, T) = kept(at)
  BY Zenon DEF Kept
<1>2. List!Kept(s, T) = kept(List!InOrder(places, Before))
  BY Zenon DEF List!Kept
<1>3. Find!Kept(s, T) = kept(Find!InOrder(places, Before))
  BY Zenon DEF Find!Kept
<1>. HIDE DEF places, Before, kept
<1>4. List!InOrder(places, Before) = at /\ Find!InOrder(places, Before) = at
  BY SameOrder
<1>. QED  BY <1>1, <1>2, <1>3, <1>4

\* The sequence names a at one place at most.
Once(s, a) == \A i, j \in DOMAIN s : s[i] = a /\ s[j] = a => i = j

\* A page after what was shown.
LEMMA Appended ==
  ASSUME NEW T, NEW s \in Seq(T), NEW t \in Seq(T)
  PROVE  /\ s \o t \in Seq(T) /\ Range(s \o t) = Range(s) \cup Range(t)
         /\ DOMAIN (s \o t) = 1 .. Len(s) + Len(t) /\ Len(s) \in Nat /\ Len(t) \in Nat
         /\ \A i \in 1 .. Len(s) + Len(t) :
              (s \o t)[i] = IF i =< Len(s) THEN s[i] ELSE t[i - Len(s)]
         /\ \A a : Once(s, a) /\ Once(t, a) /\ ~(a \in Range(s) /\ a \in Range(t)) => Once(s \o t, a)
<1>1. Len(s) \in Nat /\ Len(t) \in Nat /\ DOMAIN s = 1 .. Len(s) /\ DOMAIN t = 1 .. Len(t)
  BY LenProperties
<1>. DEFINE r == s \o t
<1>2. /\ r \in Seq(T) /\ DOMAIN r = 1 .. Len(s) + Len(t)
      /\ \A i \in 1 .. Len(s) + Len(t) : r[i] = IF i =< Len(s) THEN s[i] ELSE t[i - Len(s)]
  BY <1>1
<1>. HIDE DEF r
<1>3. \A i \in 1 .. Len(s) : i \in DOMAIN r /\ r[i] = s[i]
  BY <1>1, <1>2
<1>4. \A j \in 1 .. Len(t) : Len(s) + j \in DOMAIN r /\ r[Len(s) + j] = t[j]
  BY <1>1, <1>2
<1>5. \A i \in DOMAIN r : i \in 1 .. Len(s) \/ (i - Len(s) \in 1 .. Len(t) /\ ~(i =< Len(s)) /\ r[i] = t[i - Len(s)])
  BY <1>1, <1>2
<1>6. Range(r) = Range(s) \cup Range(t)
  <2>1. ASSUME NEW x \in Range(r) PROVE x \in Range(s) \cup Range(t)
    <3>1. PICK i \in DOMAIN r : r[i] = x
      BY DEF Range
    <3>2. CASE i \in 1 .. Len(s)
      BY <1>1, <1>3, <3>1, <3>2 DEF Range
    <3>3. CASE i - Len(s) \in 1 .. Len(t) /\ r[i] = t[i - Len(s)]
      BY <1>1, <3>1, <3>3 DEF Range
    <3>. QED  BY <1>5, <3>2, <3>3
  <2>2. ASSUME NEW x \in Range(s) \cup Range(t) PROVE x \in Range(r)
    BY <1>1, <1>3, <1>4 DEF Range
  <2>. QED  BY <2>1, <2>2
<1>7. ASSUME NEW a, Once(s, a), Once(t, a), ~(a \in Range(s) /\ a \in Range(t)),
             NEW i \in DOMAIN r, NEW j \in DOMAIN r, r[i] = a, r[j] = a
      PROVE  i = j
  <2>1. CASE i \in 1 .. Len(s) /\ j \in 1 .. Len(s)
    BY <1>1, <1>3, <1>7, <2>1 DEF Once
  <2>2. CASE i \in 1 .. Len(s) /\ ~(j \in 1 .. Len(s))
    <3>1. a \in Range(s)
      BY <1>1, <1>3, <1>7, <2>2 DEF Range
    <3>2. a \in Range(t)
      BY <1>1, <1>5, <1>7, <2>2 DEF Range
    <3>. QED  BY <1>7, <3>1, <3>2
  <2>3. CASE ~(i \in 1 .. Len(s)) /\ j \in 1 .. Len(s)
    <3>1. a \in Range(s)
      BY <1>1, <1>3, <1>7, <2>3 DEF Range
    <3>2. a \in Range(t)
      BY <1>1, <1>5, <1>7, <2>3 DEF Range
    <3>. QED  BY <1>7, <3>1, <3>2
  <2>4. CASE ~(i \in 1 .. Len(s)) /\ ~(j \in 1 .. Len(s))
    <3>1. i - Len(s) = j - Len(s)
      BY <1>1, <1>5, <1>7, <2>4 DEF Once
    <3>. QED  BY <1>1, <1>2, <3>1
  <2>. QED  BY <2>1, <2>2, <2>3, <2>4
<1>8. \A a : Once(s, a) /\ Once(t, a) /\ ~(a \in Range(s) /\ a \in Range(t)) => Once(r, a)
  BY <1>7 DEF Once
<1>. QED  BY <1>1, <1>2, <1>6, <1>8 DEF r

\* How often a sequence names what it names once at most.
LEMMA Counted ==
  ASSUME NEW T, NEW s \in Seq(T), NEW a, Once(s, a)
  PROVE  Cardinality({i \in DOMAIN s : s[i] = a}) = IF a \in Range(s) THEN 1 ELSE 0
<1>1. CASE a \in Range(s)
  <2>1. PICK i \in DOMAIN s : s[i] = a
    BY <1>1 DEF Range
  <2>2. {j \in DOMAIN s : s[j] = a} = {i}
    BY <2>1 DEF Once
  <2>. QED  BY <1>1, <2>2, FS_Singleton
<1>2. CASE ~(a \in Range(s))
  <2>1. {j \in DOMAIN s : s[j] = a} = {}
    BY <1>2 DEF Range
  <2>. QED  BY <1>2, <2>1, FS_EmptySet
<1>. QED  BY <1>1, <1>2

\* Rows in order, as a sequence: every row once.
LEMMA OrderIs ==
  ASSUME NEW S, IsFiniteSet(S), NEW Before, Orders(Before, S)
  PROVE  /\ Cardinality(S) \in Nat /\ InOrder(S, Before) \in Seq(S)
         /\ Len(InOrder(S, Before)) = Cardinality(S) /\ DOMAIN InOrder(S, Before) = 1 .. Cardinality(S)
         /\ IsInjective(InOrder(S, Before)) /\ Range(InOrder(S, Before)) = S
         /\ \A i, j \in 1 .. Cardinality(S) :
              i < j <=> <<InOrder(S, Before)[i], InOrder(S, Before)[j]>> \in Before
<1>. DEFINE s == InOrder(S, Before)
            n == Cardinality(S)
<1>1. /\ n \in Nat /\ s \in [1 .. n -> S]
      /\ \A i, j \in 1 .. n : i < j => <<s[i], s[j]>> \in Before
      /\ \A x \in S : \E i \in 1 .. n : s[i] = x
  BY InOrderIs
<1>. HIDE DEF s, n
<1>2. s \in Seq(S) /\ Len(s) = n /\ DOMAIN s = 1 .. n
  <2>1. s \in Seq(S)
    BY <1>1
  <2>. QED  BY <1>1, <2>1, LenProperties
<1>3. \A x, y \in S : ~(<<x, y>> \in Before /\ <<y, x>> \in Before) /\ ~(<<x, x>> \in Before)
  BY DEF Orders
<1>4. \A i, j \in 1 .. n : i < j <=> <<s[i], s[j]>> \in Before
  <2>1. ASSUME NEW i \in 1 .. n, NEW j \in 1 .. n, <<s[i], s[j]>> \in Before PROVE i < j
    <3>1. s[i] \in S /\ s[j] \in S
      BY <1>1
    <3>2. ~(j < i) /\ j # i
      BY <1>1, <1>3, <2>1, <3>1
    <3>. QED  BY <1>1, <3>2
  <2>. QED  BY <1>1, <2>1
<1>5. IsInjective(s)
  <2>1. ASSUME NEW i \in 1 .. n, NEW j \in 1 .. n, s[i] = s[j] PROVE i = j
    <3>1. s[i] \in S /\ ~(i < j) /\ ~(j < i)
      BY <1>1, <1>3, <1>4, <2>1
    <3>. QED  BY <1>1, <3>1
  <2>. QED  BY <1>2, <2>1 DEF IsInjective
<1>6. Range(s) = S
  BY <1>1, <1>2 DEF Range
<1>. QED  BY <1>1, <1>2, <1>4, <1>5, <1>6 DEF s, n

\* A page, of a query for one row more: it holds everything, or all up to its last row.
LEMMA PageIs ==
  ASSUME NEW S, IsFiniteSet(S), NEW Before, Orders(Before, S), NEW k \in Nat \ {0},
         NEW rows, rows = Limited(InOrder(S, Before), k + 1), NEW page, page = Limited(rows, k)
  PROVE  /\ page \in Seq(S) /\ (\A a : Once(page, a)) /\ Len(rows) \in Nat
         /\ ~(Len(rows) > k) => Range(page) = S
         /\ Len(rows) > k =>
              /\ Len(page) = k /\ page[k] \in S
              /\ \A a \in S : a \in Range(page) <=> (a = page[k] \/ <<a, page[k]>> \in Before)
<1>. DEFINE s == InOrder(S, Before)
            n == Cardinality(S)
<1>1. /\ n \in Nat /\ s \in Seq(S) /\ Len(s) = n /\ DOMAIN s = 1 .. n /\ IsInjective(s) /\ Range(s) = S
      /\ \A i, j \in 1 .. n : i < j <=> <<s[i], s[j]>> \in Before
  BY OrderIs
<1>. DEFINE m == IF k + 1 =< Len(s) THEN k + 1 ELSE Len(s)
            l == IF k =< m THEN k ELSE m
<1>2. /\ m \in Nat /\ m =< Len(s) /\ rows \in Seq(S) /\ Len(rows) = m
      /\ \A i \in 1 .. m : i \in 1 .. Len(s) /\ rows[i] = s[i]
  <2>1. rows = Limited(s, k + 1) /\ k + 1 \in Nat
    OBVIOUS
  <2>. HIDE DEF s
  <2>. QED  BY <1>1, <2>1, LimitedIs
<1>3. /\ l \in Nat /\ l =< m /\ page \in Seq(S) /\ Len(page) = l /\ DOMAIN page = 1 .. l
      /\ \A i \in 1 .. l : i \in 1 .. m /\ page[i] = rows[i]
  <2>. HIDE DEF m, s
  <2>. QED  BY <1>2, LimitedIs
<1>. HIDE DEF s, n
<1>4. \A i \in 1 .. l : i \in 1 .. n /\ page[i] = s[i]
  BY <1>1, <1>2, <1>3
<1>5. \A a : Once(page, a)
  BY <1>1, <1>3, <1>4 DEF Once, IsInjective
<1>6. ASSUME ~(m > k) PROVE Range(page) = S
  <2>1. l = n
    BY <1>1, <1>2, <1>3, <1>6
  <2>2. \A i \in 1 .. n : page[i] = s[i]
    BY <1>4, <2>1
  <2>. QED  BY <1>1, <1>3, <2>1, <2>2 DEF Range
<1>7. ASSUME m > k
      PROVE  /\ l = k /\ page[k] \in S
             /\ \A a \in S : a \in Range(page) <=> (a = page[k] \/ <<a, page[k]>> \in Before)
  <2>1. l = k /\ k \in 1 .. l /\ k \in 1 .. n
    BY <1>2, <1>3, <1>4, <1>7
  <2>2. page[k] = s[k] /\ page[k] \in S
    BY <1>1, <1>4, <2>1
  <2>3. ASSUME NEW a \in S PROVE a \in Range(page) <=> (a = page[k] \/ <<a, page[k]>> \in Before)
    <3>1. PICK j \in 1 .. n : s[j] = a
      BY <1>1 DEF Range
    <3>2. a \in Range(page) <=> j \in 1 .. l
      <4>1. ASSUME a \in Range(page) PROVE j \in 1 .. l
        <5>1. PICK i \in 1 .. l : page[i] = a
          BY <1>3, <4>1 DEF Range
        <5>2. i \in 1 .. n /\ s[i] = s[j]
          BY <1>4, <3>1, <5>1
        <5>. QED  BY <1>1, <5>1, <5>2 DEF IsInjective
      <4>2. ASSUME j \in 1 .. l PROVE a \in Range(page)
        BY <1>3, <1>4, <3>1, <4>2 DEF Range
      <4>. QED  BY <4>1, <4>2
    <3>3. a = page[k] <=> j = k
      BY <1>1, <2>1, <2>2, <3>1 DEF IsInjective
    <3>4. <<a, page[k]>> \in Before <=> j < k
      BY <1>1, <2>1, <2>2, <3>1
    <3>. QED  BY <1>1, <2>1, <3>1, <3>2, <3>3, <3>4
  <2>. QED  BY <2>1, <2>2, <2>3
<1>. QED  BY <1>2, <1>3, <1>5, <1>6, <1>7
-----------------------------------------------------------------------------
\* The listing

CardRows == card \in [Products -> Cards \cup {None}]

Cursors == [sort : List!Sorts, id : Products, price : Nat \cup {None}]

Walks == [query : Queries, sort : List!Sorts, cursor : Cursors \cup {None}, shown : Seq(Products), open : BOOLEAN]

\* The cursor holds what its sort goes by.
CursorInv ==
  walk.cursor # None =>
    /\ walk.cursor.sort = walk.sort
    /\ walk.sort \in List!PRICE_SORTS => walk.cursor.price \in Nat

\* The walk is past the place of p.
Passed(p) == ~walk.open \/ (walk.cursor # None /\ ~List!KeysetPredicate(walk.cursor, p))

\* Of the cards nobody touched, those wanted are shown up to where the walk is, once each.
ShownSoFar ==
  \A p \in Products \ touched :
    Once(walk.shown, p) /\ (p \in Range(walk.shown) <=> List!Wanted(p, walk.query) /\ Passed(p))

\* Newest first the walk only goes down.
NewestDown ==
  walk.sort = "newest" =>
    /\ \A a : Once(walk.shown, a)
    /\ walk.open => IF walk.cursor = None THEN walk.shown = <<>>
                    ELSE \A i \in DOMAIN walk.shown : walk.shown[i] >= walk.cursor.id

ListingInv == CardRows /\ walk \in Walks /\ CursorInv /\ ShownSoFar /\ NewestDown

LEMMA ImageIs ==
  ASSUME NEW S, IsFiniteSet(S), NEW f
  PROVE  IsFiniteSet({f[x] : x \in S})
<1>. DEFINE T == {f[x] : x \in S}
            g == [x \in S |-> f[x]]
<1>1. g \in Surjection(S, T)
  BY DEF Surjection
<1>. HIDE DEF g, T
<1>2. IsFiniteSet(T)
  BY <1>1, FS_Surjection
<1>. QED  BY <1>2 DEF T

\* What the counting of attributes says of the values.
LEMMA FacetsMean ==
  ASSUME NEW p, NEW vs
  PROVE  List!HasFacets(p, vs) <=>
           /\ vs # {} => vs \cap DOMAIN AttributeOf # {}
           /\ \A v \in vs \cap DOMAIN AttributeOf :
                \E w \in ValuesOf[p] \cap (vs \cap DOMAIN AttributeOf) : AttributeOf[w] = AttributeOf[v]
<1>. DEFINE known == vs \cap DOMAIN AttributeOf
            hit == ValuesOf[p] \cap known
            chosen == {AttributeOf[v] : v \in known}
            met == {AttributeOf[v] : v \in hit}
<1>1. IsFiniteSet(known) /\ hit \subseteq known
  BY VariantsAssumption, FS_Subset
<1>2. IsFiniteSet(chosen) /\ met \subseteq chosen
  <2>. HIDE DEF known, hit
  <2>. QED  BY <1>1, ImageIs
<1>3. List!HasFacets(p, vs) <=> vs = {} \/ (hit # {} /\ Cardinality(met) = Cardinality(chosen))
  BY SameCardinality, Zenon DEF List!HasFacets
<1>4. Cardinality(met) = Cardinality(chosen) <=> met = chosen
  <2>. HIDE DEF met, chosen
  <2>. QED  BY <1>2, FS_Subset
<1>5. met = chosen <=> \A v \in known : \E w \in hit : AttributeOf[w] = AttributeOf[v]
  <2>. HIDE DEF known, hit
  <2>1. ASSUME met = chosen, NEW v \in known PROVE \E w \in hit : AttributeOf[w] = AttributeOf[v]
    <3>1. AttributeOf[v] \in met
      BY <2>1
    <3>. QED  BY <3>1
  <2>2. ASSUME \A v \in known : \E w \in hit : AttributeOf[w] = AttributeOf[v] PROVE met = chosen
    BY <1>1, <2>2
  <2>. QED  BY <2>1, <2>2
<1>6. vs = {} => known = {}
  OBVIOUS
<1>. HIDE DEF met, chosen
<1>. QED  BY <1>1, <1>3, <1>4, <1>5, <1>6

\* The conditions of the query are the promise.
LEMMA WantedIs ==
  ASSUME NEW p, NEW q
  PROVE  List!Matches(p, q) <=> List!Wanted(p, q)
<1>. DEFINE known == {v \in q.values : v \in DOMAIN AttributeOf}
<1>1. q.values \cap DOMAIN AttributeOf = known
  OBVIOUS
<1>2. \A v : (\E w \in ValuesOf[p] \cap known : AttributeOf[w] = AttributeOf[v])
             <=> (\E w \in known \cap ValuesOf[p] : AttributeOf[w] = AttributeOf[v])
  OBVIOUS
<1>3. List!HasFacets(p, q.values) <=>
        /\ q.values # {} => known # {}
        /\ \A v \in known : \E w \in known \cap ValuesOf[p] : AttributeOf[w] = AttributeOf[v]
  BY <1>1, <1>2, FacetsMean
<1>4. q.category \in card[p].cats \cup {None} <=> (q.category # None => q.category \in card[p].cats)
  OBVIOUS
<1>5. /\ (q.min = None \/ card[p].price >= q.min) <=> (q.min # None => card[p].price >= q.min)
      /\ (q.max = None \/ card[p].price =< q.max) <=> (q.max # None => card[p].price =< q.max)
  OBVIOUS
<1>6. List!Wanted(p, q) <=>
        /\ card[p] # None
        /\ q.category \in card[p].cats \cup {None}
        /\ (q.sale => card[p].sale) /\ (q.featured => card[p].featured)
        /\ (q.min = None \/ card[p].price >= q.min) /\ (q.max = None \/ card[p].price =< q.max)
        /\ q.values # {} => known # {}
        /\ \A v \in known : \E w \in known \cap ValuesOf[p] : AttributeOf[w] = AttributeOf[v]
  BY DEF List!Wanted
<1>. HIDE DEF known
<1>. QED  BY <1>3, <1>4, <1>5, <1>6 DEF List!Matches

LEMMA PriceIs ==
  ASSUME CardRows, NEW p \in Products, card[p] # None
  PROVE  card[p] \in Cards /\ card[p].price \in Nat /\ p \in Nat
BY ListingAssumption DEF CardRows

\* Every sort is an order of the cards there are.
LEMMA SortOrders ==
  ASSUME CardRows, NEW sort \in List!Sorts, NEW S \in SUBSET Products, \A p \in S : card[p] # None
  PROVE  /\ Orders({pair \in S \X S : List!Precedes(sort, pair[1], pair[2])}, S) /\ IsFiniteSet(S)
         /\ \A a, b \in S : <<a, b>> \in {pair \in S \X S : List!Precedes(sort, pair[1], pair[2])}
                              <=> List!Precedes(sort, a, b)
<1>. DEFINE R == {pair \in S \X S : List!Precedes(sort, pair[1], pair[2])}
<1>1. IsFiniteSet(S)
  BY ListingAssumption, FS_Subset
<1>2. \A a, b \in S : <<a, b>> \in R <=> List!Precedes(sort, a, b)
  OBVIOUS
<1>. HIDE DEF R
<1>3. \A a \in S : card[a].price \in Nat /\ a \in Nat
  BY PriceIs
<1>4. Orders(R, S)
  <2>1. CASE sort = "price_asc"
    BY <1>2, <1>3, <2>1 DEF Orders, List!Precedes
  <2>2. CASE sort = "price_desc"
    BY <1>2, <1>3, <2>2 DEF Orders, List!Precedes
  <2>3. CASE sort = "newest"
    BY <1>2, <1>3, <2>3 DEF Orders, List!Precedes
  <2>. QED  BY <2>1, <2>2, <2>3 DEF List!Sorts, List!PRICE_SORTS
<1>. QED  BY <1>1, <1>2, <1>4 DEF R

\* The cursor made of a card stands where the card stands.
LEMMA CursorStands ==
  ASSUME CardRows, NEW sort \in List!Sorts, NEW l \in Products, card[l] # None
  PROVE  /\ List!EncodeCursor(sort, l) \in Cursors
         /\ List!EncodeCursor(sort, l).sort = sort /\ List!EncodeCursor(sort, l).id = l
         /\ sort \in List!PRICE_SORTS => List!EncodeCursor(sort, l).price \in Nat
         /\ \A a \in Products : card[a] # None =>
              (List!KeysetPredicate(List!EncodeCursor(sort, l), a) <=> List!Precedes(sort, l, a))
<1>. DEFINE c == List!EncodeCursor(sort, l)
<1>1. c = [sort |-> sort, id |-> l, price |-> IF sort \in List!PRICE_SORTS THEN card[l].price ELSE None]
  BY DEF List!EncodeCursor
<1>2. c \in Cursors /\ c.sort = sort /\ c.id = l /\ (sort \in List!PRICE_SORTS => c.price = card[l].price)
  BY <1>1, PriceIs DEF Cursors
<1>. HIDE DEF c
<1>3. ASSUME NEW a \in Products, card[a] # None
      PROVE  List!KeysetPredicate(c, a) <=> List!Precedes(sort, l, a)
  <2>1. card[a].price \in Nat /\ a \in Nat /\ card[l].price \in Nat /\ l \in Nat
    BY <1>3, PriceIs
  <2>2. CASE sort = "price_asc"
    BY <1>2, <2>1, <2>2 DEF List!KeysetPredicate, List!Precedes, List!PRICE_SORTS
  <2>3. CASE sort = "price_desc"
    BY <1>2, <2>1, <2>3 DEF List!KeysetPredicate, List!Precedes, List!PRICE_SORTS
  <2>4. CASE sort = "newest"
    BY <1>2, <2>1, <2>4 DEF List!KeysetPredicate, List!Precedes
  <2>. QED  BY <2>2, <2>3, <2>4 DEF List!Sorts, List!PRICE_SORTS
<1>. QED  BY <1>2, <1>3, PriceIs DEF c

\* What comes after a card that comes after the cursor comes after the cursor.
LEMMA FurtherOn ==
  ASSUME CardRows, NEW c \in Cursors, c.sort \in List!PRICE_SORTS => c.price \in Nat,
         NEW l \in Products, card[l] # None, NEW a \in Products, card[a] # None,
         List!KeysetPredicate(c, l), List!Precedes(c.sort, l, a)
  PROVE  List!KeysetPredicate(c, a)
<1>1. card[a].price \in Nat /\ a \in Nat /\ card[l].price \in Nat /\ l \in Nat
  BY PriceIs
<1>2. c.id \in Nat /\ c.sort \in List!Sorts
  BY ListingAssumption DEF Cursors
<1>3. CASE c.sort = "price_asc"
  BY <1>1, <1>2, <1>3 DEF List!KeysetPredicate, List!Precedes, List!PRICE_SORTS
<1>4. CASE c.sort = "price_desc"
  BY <1>1, <1>2, <1>4 DEF List!KeysetPredicate, List!Precedes, List!PRICE_SORTS
<1>5. CASE c.sort = "newest"
  BY <1>1, <1>2, <1>5 DEF List!KeysetPredicate, List!Precedes
<1>. QED  BY <1>2, <1>3, <1>4, <1>5 DEF List!Sorts, List!PRICE_SORTS

LEMMA ListingInit == List!Init => ListingInv
<1>. SUFFICES ASSUME List!Init PROVE ListingInv
  OBVIOUS
<1>1. PICK q \in Queries, sort \in List!Sorts : walk = List!NewWalk(q, sort)
  BY DEF List!Init
<1>2. walk = [query |-> q, sort |-> sort, cursor |-> None, shown |-> <<>>, open |-> TRUE]
  BY <1>1 DEF List!NewWalk
<1>3. /\ walk \in Walks /\ walk.cursor = None /\ walk.shown = <<>> /\ walk.open
  BY <1>2 DEF Walks
<1>4. DOMAIN walk.shown = {} /\ Range(walk.shown) = {}
  BY <1>3 DEF Range
<1>5. CardRows
  BY DEF List!Init, CardRows
<1>. QED  BY <1>3, <1>4, <1>5 DEF ListingInv, CursorInv, ShownSoFar, NewestDown, Once, Passed

LEMMA ResortKeeps ==
  ASSUME ListingInv, NEW sort \in List!Sorts, List!Resort(sort)
  PROVE  ListingInv'
<1>1. walk' = [query |-> walk.query, sort |-> sort, cursor |-> None, shown |-> <<>>, open |-> TRUE]
  BY DEF List!Resort, List!NewWalk
<1>2. /\ walk' \in Walks /\ walk'.cursor = None /\ walk'.shown = <<>> /\ walk'.open
  BY <1>1 DEF Walks, ListingInv
<1>3. DOMAIN walk'.shown = {} /\ Range(walk'.shown) = {}
  BY <1>2 DEF Range
<1>4. CardRows'
  BY DEF List!Resort, ListingInv, CardRows
<1>. QED  BY <1>2, <1>3, <1>4 DEF ListingInv, CursorInv, ShownSoFar, NewestDown, Once, Passed

\* A card rebuilt is touched; the places of the others do not change.
LEMMA RebuildKeeps ==
  ASSUME ListingInv, NEW p \in Products, NEW c \in Cards \cup {None}, List!Rebuild(p, c)
  PROVE  ListingInv'
<1>1. /\ card' = [card EXCEPT ![p] = c] /\ touched' = touched \cup {p} /\ walk' = walk
  BY DEF List!Rebuild
<1>2. CardRows'
  BY <1>1 DEF ListingInv, CardRows
<1>3. \A a \in Products \ touched' : a \in Products \ touched /\ card'[a] = card[a]
  BY <1>1 DEF ListingInv, CardRows
<1>4. ShownSoFar'
  BY <1>1, <1>3 DEF ListingInv, ShownSoFar, List!Wanted, Passed, List!KeysetPredicate
<1>. QED  BY <1>1, <1>2, <1>4 DEF ListingInv, Walks, CursorInv, NewestDown, Cursors

\* A page: what is found from the cursor on, up to the last card shown.
PageFacts(found, page, more) ==
  /\ \A p \in Products : p \in found <=>
       /\ List!Wanted(p, walk.query)
       /\ walk.cursor # None => List!KeysetPredicate(walk.cursor, p)
  /\ page \in Seq(found) /\ \A a : Once(page, a)
  /\ ~more => Range(page) = found
  /\ more => /\ Len(page) \in DOMAIN page /\ page[Len(page)] \in found
             /\ \A a \in found :
                  a \in Range(page) <=> a = page[Len(page)] \/ List!Precedes(walk.sort, a, page[Len(page)])

LEMMA PageTurns ==
  ASSUME ListingInv, List!ListPage
  PROVE  \E found \in SUBSET Products, page \in Seq(Products), more \in BOOLEAN :
           /\ PageFacts(found, page, more) /\ walk.open
           /\ walk' = [walk EXCEPT !.shown = walk.shown \o page, !.open = more,
                         !.cursor = IF more THEN List!EncodeCursor(walk.sort, page[Len(page)]) ELSE None]
           /\ UNCHANGED <<card, touched, rebuilds>>
<1>. DEFINE found == {p \in Products : /\ List!Matches(p, walk.query)
                                       /\ walk.cursor # None => List!KeysetPredicate(walk.cursor, p)}
            R == {pair \in found \X found : List!Precedes(walk.sort, pair[1], pair[2])}
            cards == Limited(InOrder(found, R), PageSize + 1)
            page == Limited(cards, PageSize)
            more == Len(cards) > PageSize
<1>1. List!ListCards(walk.query, walk.sort, walk.cursor, PageSize + 1) = cards
  BY SameLimit, SameOrder, Zenon DEF List!ListCards
<1>2. /\ walk.open /\ UNCHANGED <<card, touched, rebuilds>>
      /\ walk' = [walk EXCEPT !.shown = walk.shown \o page, !.open = more,
                    !.cursor = IF more THEN List!EncodeCursor(walk.sort, page[Len(page)]) ELSE None]
  BY <1>1, SameLimit DEF List!ListPage
<1>3. \A p \in found : card[p] # None
  BY DEF List!Matches
<1>4. walk.sort \in List!Sorts /\ CardRows /\ found \in SUBSET Products
  BY DEF ListingInv, Walks
<1>5. /\ Orders(R, found) /\ IsFiniteSet(found)
      /\ \A a, b \in found : <<a, b>> \in R <=> List!Precedes(walk.sort, a, b)
  <2>. HIDE DEF found
  <2>. QED  BY <1>3, <1>4, SortOrders
<1>6. \A p \in Products : p \in found <=>
        /\ List!Wanted(p, walk.query)
        /\ walk.cursor # None => List!KeysetPredicate(walk.cursor, p)
  BY WantedIs
<1>. HIDE DEF found
<1>. HIDE DEF R
<1>7. PageSize \in Nat \ {0}
  BY ListingAssumption
<1>8. /\ page \in Seq(found) /\ (\A a : Once(page, a)) /\ Len(cards) \in Nat
      /\ ~(Len(cards) > PageSize) => Range(page) = found
      /\ Len(cards) > PageSize =>
           /\ Len(page) = PageSize /\ page[PageSize] \in found
           /\ \A a \in found : a \in Range(page) <=> (a = page[PageSize] \/ <<a, page[PageSize]>> \in R)
  BY <1>5, <1>7, PageIs
<1>. HIDE DEF page
<1>9. more => Len(page) \in DOMAIN page
  BY <1>7, <1>8, LenProperties
<1>10. PageFacts(found, page, more) /\ more \in BOOLEAN /\ page \in Seq(Products)
  <2>1. more => /\ page[Len(page)] \in found
                /\ \A a \in found :
                     a \in Range(page) <=> a = page[Len(page)] \/ List!Precedes(walk.sort, a, page[Len(page)])
    BY <1>5, <1>8
  <2>2. page \in Seq(Products)
    BY <1>4, <1>8
  <2>3. more \in BOOLEAN
    OBVIOUS
  <2>. HIDE DEF cards
  <2>. QED  BY <1>6, <1>8, <1>9, <2>1, <2>2, <2>3 DEF PageFacts
<1>. HIDE DEF more
<1>. QED  BY <1>2, <1>4, <1>10

LEMMA PageKeeps ==
  ASSUME ListingInv, List!ListPage
  PROVE  ListingInv'
<1>1. PICK found \in SUBSET Products, page \in Seq(Products), more \in BOOLEAN :
        /\ PageFacts(found, page, more) /\ walk.open
        /\ walk' = [walk EXCEPT !.shown = walk.shown \o page, !.open = more,
                      !.cursor = IF more THEN List!EncodeCursor(walk.sort, page[Len(page)]) ELSE None]
        /\ UNCHANGED <<card, touched, rebuilds>>
  BY PageTurns
<1>. DEFINE shown == walk.shown
            cursor == walk.cursor
            last == page[Len(page)]
            next == List!EncodeCursor(walk.sort, last)
<1>2. /\ CardRows /\ walk \in Walks /\ walk.sort \in List!Sorts /\ walk.query \in Queries
      /\ shown \in Seq(Products) /\ cursor \in Cursors \cup {None}
      /\ cursor # None => /\ cursor \in Cursors /\ cursor.sort = walk.sort
                          /\ walk.sort \in List!PRICE_SORTS => cursor.price \in Nat
  BY DEF ListingInv, Walks, CursorInv
<1>3. /\ page \in Seq(found) /\ page \in Seq(Products) /\ (\A a : Once(page, a)) /\ Range(page) \subseteq found
  <2>1. page \in Seq(found) /\ \A a : Once(page, a)
    BY <1>1 DEF PageFacts
  <2>2. DOMAIN page = 1 .. Len(page) /\ page \in [1 .. Len(page) -> found]
    BY <2>1, LenProperties
  <2>3. page \in Seq(Products)
    BY <2>1
  <2>. QED  BY <2>1, <2>2, <2>3 DEF Range
<1>4. \A p \in found : p \in Products /\ card[p] # None /\ List!Wanted(p, walk.query)
                       /\ (cursor # None => List!KeysetPredicate(cursor, p))
  BY <1>1 DEF PageFacts, List!Wanted
<1>5. more => /\ last \in found /\ Len(page) \in DOMAIN page
              /\ \A a \in found : a \in Range(page) <=> a = last \/ List!Precedes(walk.sort, a, last)
  BY <1>1 DEF PageFacts
<1>6. /\ walk'.shown = shown \o page /\ walk'.open = more /\ walk'.cursor = IF more THEN next ELSE None
      /\ walk'.sort = walk.sort /\ walk'.query = walk.query
      /\ walk' = [query |-> walk.query, sort |-> walk.sort, cursor |-> IF more THEN next ELSE None,
                  shown |-> shown \o page, open |-> more]
  <2>. HIDE DEF next
  <2>. QED  BY <1>1, <1>2 DEF Walks, next
<1>7. more => /\ next \in Cursors /\ next.sort = walk.sort /\ next.id = last /\ next # None
              /\ walk.sort \in List!PRICE_SORTS => next.price \in Nat
              /\ \A a \in Products : card[a] # None =>
                   (List!KeysetPredicate(next, a) <=> List!Precedes(walk.sort, last, a))
  <2>1. more => last \in Products /\ card[last] # None
    BY <1>4, <1>5
  <2>2. None \notin Cursors
    BY ListingAssumption DEF Cursors
  <2>. QED  BY <1>2, <2>1, <2>2, CursorStands
<1>. HIDE DEF next
<1>8. /\ shown \o page \in Seq(Products) /\ Range(shown \o page) = Range(shown) \cup Range(page)
      /\ DOMAIN (shown \o page) = 1 .. Len(shown) + Len(page) /\ Len(shown) \in Nat /\ Len(page) \in Nat
      /\ \A i \in 1 .. Len(shown) + Len(page) :
           (shown \o page)[i] = IF i =< Len(shown) THEN shown[i] ELSE page[i - Len(shown)]
      /\ \A a : Once(shown, a) /\ Once(page, a) /\ ~(a \in Range(shown) /\ a \in Range(page)) => Once(shown \o page, a)
  BY <1>2, <1>3, Appended
<1>9. CardRows' /\ walk' \in Walks /\ CursorInv'
  <2>1. CardRows'
    BY <1>1, <1>2 DEF CardRows
  <2>2. walk' \in Walks
    BY <1>2, <1>6, <1>7, <1>8 DEF Walks
  <2>. QED  BY <1>6, <1>7, <2>1, <2>2 DEF CursorInv
<1>10. \A a, b \in Products : card[a] # None /\ card[b] # None =>
         /\ ~(List!Precedes(walk.sort, a, b) /\ List!Precedes(walk.sort, b, a))
         /\ ~List!Precedes(walk.sort, a, a)
         /\ a = b \/ List!Precedes(walk.sort, a, b) \/ List!Precedes(walk.sort, b, a)
  <2>. DEFINE S == {p \in Products : card[p] # None}
              R == {pair \in S \X S : List!Precedes(walk.sort, pair[1], pair[2])}
  <2>1. S \in SUBSET Products /\ \A p \in S : card[p] # None
    OBVIOUS
  <2>. HIDE DEF S
  <2>2. Orders(R, S) /\ \A a, b \in S : <<a, b>> \in R <=> List!Precedes(walk.sort, a, b)
    BY <1>2, <2>1, SortOrders
  <2>. HIDE DEF R
  <2>3. \A a, b \in S : /\ ~(<<a, b>> \in R /\ <<b, a>> \in R) /\ <<a, a>> \notin R
                        /\ a = b \/ <<a, b>> \in R \/ <<b, a>> \in R
    BY <2>2 DEF Orders
  <2>4. ASSUME NEW a \in S, NEW b \in S
        PROVE  /\ ~(List!Precedes(walk.sort, a, b) /\ List!Precedes(walk.sort, b, a))
               /\ ~List!Precedes(walk.sort, a, a)
               /\ a = b \/ List!Precedes(walk.sort, a, b) \/ List!Precedes(walk.sort, b, a)
    BY <2>2, <2>3, Zenon
  <2>. QED  BY <2>4 DEF S
<1>11. ASSUME NEW p \in Products \ touched
       PROVE  Once(shown \o page, p) /\ (p \in Range(shown \o page) <=> List!Wanted(p, walk.query) /\ Passed(p)')
  <2>1. Once(shown, p) /\ (p \in Range(shown) <=> List!Wanted(p, walk.query) /\ Passed(p))
    BY DEF ListingInv, ShownSoFar
  <2>2. p \in found <=> List!Wanted(p, walk.query) /\ ~Passed(p)
    BY <1>1 DEF PageFacts, Passed
  <2>3. Once(shown \o page, p)
    BY <1>3, <1>8, <2>1, <2>2
  <2>4. Passed(p)' <=> ~more \/ ~List!KeysetPredicate(next, p)
    BY <1>1, <1>6, <1>7 DEF Passed, List!KeysetPredicate
  <2>5. CASE ~List!Wanted(p, walk.query)
    BY <1>3, <1>8, <2>1, <2>2, <2>3, <2>5
  <2>6. CASE List!Wanted(p, walk.query) /\ ~more
    <3>1. Range(page) = found
      BY <1>1, <2>6 DEF PageFacts
    <3>. QED  BY <1>8, <2>1, <2>2, <2>3, <2>4, <2>6, <3>1
  <2>7. CASE List!Wanted(p, walk.query) /\ more
    <3>1. card[p] # None /\ last \in Products /\ card[last] # None /\ last \in found
      BY <1>4, <1>5, <2>7 DEF List!Wanted
    <3>2. Passed(p)' <=> ~List!Precedes(walk.sort, last, p)
      BY <1>7, <2>4, <2>7, <3>1
    <3>3. p \in found => (p \in Range(page) <=> ~List!Precedes(walk.sort, last, p))
      BY <1>5, <1>10, <2>7, <3>1
    <3>4. Passed(p) => ~List!Precedes(walk.sort, last, p)
      <4>1. ASSUME Passed(p), List!Precedes(walk.sort, last, p) PROVE FALSE
        <5>1. cursor # None /\ ~List!KeysetPredicate(cursor, p)
          BY <1>1, <4>1 DEF Passed
        <5>2. List!KeysetPredicate(cursor, last)
          BY <1>4, <3>1, <5>1
        <5>3. List!KeysetPredicate(cursor, p)
          BY <1>2, <3>1, <4>1, <5>1, <5>2, FurtherOn
        <5>. QED  BY <5>1, <5>3
      <4>. QED  BY <4>1
    <3>. QED  BY <1>3, <1>8, <2>1, <2>2, <2>3, <2>7, <3>2, <3>3, <3>4
  <2>. QED  BY <2>5, <2>6, <2>7
<1>12. ShownSoFar'
  <2>1. \A p : List!Wanted(p, walk.query)' <=> List!Wanted(p, walk.query)
    BY <1>1, <1>6 DEF List!Wanted
  <2>. QED  BY <1>1, <1>6, <1>11, <2>1 DEF ShownSoFar
<1>13. NewestDown'
  <2>. SUFFICES ASSUME walk.sort = "newest"
                PROVE  /\ \A a : Once(shown \o page, a)
                       /\ more => \A i \in DOMAIN (shown \o page) : (shown \o page)[i] >= next.id
    BY <1>6, <1>7 DEF NewestDown
  <2>1. /\ \A a : Once(shown, a)
        /\ cursor = None => shown = <<>>
        /\ cursor # None => \A i \in DOMAIN shown : shown[i] >= cursor.id
    BY <1>1 DEF ListingInv, NewestDown
  <2>2. \A a, b : List!Precedes(walk.sort, a, b) <=> a > b
    BY DEF List!Precedes
  <2>3. cursor # None => \A a : List!KeysetPredicate(cursor, a) <=> a < cursor.id
    BY <1>2 DEF List!KeysetPredicate
  <2>4. \A a \in Products : a \in Nat
    BY ListingAssumption
  <2>5. cursor # None => cursor.id \in Nat
    BY <1>2, <2>4 DEF Cursors
  <2>6. ASSUME NEW a, a \in Range(shown), a \in Range(page) PROVE FALSE
    <3>1. PICK i \in DOMAIN shown : shown[i] = a
      BY <2>6 DEF Range
    <3>2. cursor # None /\ a >= cursor.id
      BY <2>1, <3>1
    <3>3. a < cursor.id /\ a \in Nat
      BY <1>3, <1>4, <2>3, <2>4, <2>6, <3>2
    <3>. QED  BY <2>5, <3>2, <3>3
  <2>7. ASSUME more, NEW i \in DOMAIN (shown \o page) PROVE (shown \o page)[i] >= next.id
    <3>1. next.id = last /\ last \in found /\ last \in Nat
      BY <1>4, <1>5, <1>7, <2>4, <2>7
    <3>2. CASE i =< Len(shown)
      <4>1. i \in DOMAIN shown /\ (shown \o page)[i] = shown[i] /\ shown[i] \in Nat
        <5>1. i \in 1 .. Len(shown)
          BY <1>8, <2>7, <3>2
        <5>. QED  BY <1>2, <1>8, <2>4, <2>7, <3>2, <5>1, LenProperties
      <4>2. cursor # None /\ shown[i] >= cursor.id
        BY <2>1, <4>1
      <4>3. last < cursor.id
        BY <1>4, <2>3, <3>1, <4>2
      <4>. QED  BY <2>5, <3>1, <4>1, <4>2, <4>3
    <3>3. CASE ~(i =< Len(shown))
      <4>. DEFINE a == page[i - Len(shown)]
      <4>1. i - Len(shown) \in 1 .. Len(page) /\ (shown \o page)[i] = a
        BY <1>8, <2>7, <3>3
      <4>2. a \in Range(page) /\ a \in found
        BY <1>3, <4>1, LenProperties DEF Range
      <4>. HIDE DEF a
      <4>3. a = last \/ a > last
        BY <1>5, <2>2, <2>7, <4>2
      <4>4. a \in Nat
        BY <1>4, <2>4, <4>2
      <4>. QED  BY <3>1, <4>1, <4>3, <4>4
    <3>. QED  BY <3>2, <3>3
  <2>. QED  BY <1>3, <1>8, <2>1, <2>6, <2>7
<1>. QED  BY <1>9, <1>12, <1>13 DEF ListingInv

LEMMA ShownOnce ==
  ASSUME ListingInv
  PROVE  List!UntouchedShownOnce
<1>1. walk.shown \in Seq(Products)
  BY DEF ListingInv, Walks
<1>2. ASSUME ~walk.open, NEW p \in Products \ touched
      PROVE  List!Cardinality({i \in DOMAIN walk.shown : walk.shown[i] = p})
               = IF List!Wanted(p, walk.query) THEN 1 ELSE 0
  <2>1. Once(walk.shown, p) /\ (p \in Range(walk.shown) <=> List!Wanted(p, walk.query))
    BY <1>2 DEF ListingInv, ShownSoFar, Passed
  <2>. QED  BY <1>1, <2>1, Counted, SameCardinality
<1>3. walk.sort = "newest" => List!IsInjective(walk.shown)
  BY SameHeld DEF ListingInv, NewestDown, Once, IsInjective
<1>. QED  BY <1>2, <1>3 DEF List!UntouchedShownOnce

\* The first of a sequence that names nothing twice.
LEMMA LimitedOnce ==
  ASSUME NEW T, NEW s \in Seq(T), IsInjective(s), NEW n \in Nat
  PROVE  /\ Limited(s, n) \in Seq(T) /\ IsInjective(Limited(s, n)) /\ Range(Limited(s, n)) \subseteq Range(s)
         /\ Len(s) \in Nat /\ Len(Limited(s, n)) = IF n =< Len(s) THEN n ELSE Len(s)
         /\ Len(s) =< n => Range(Limited(s, n)) = Range(s)
<1>. DEFINE k == IF n =< Len(s) THEN n ELSE Len(s)
            t == Limited(s, n)
<1>1. /\ k \in Nat /\ k =< Len(s) /\ t \in Seq(T) /\ Len(t) = k /\ DOMAIN t = 1 .. k
      /\ \A i \in 1 .. k : i \in 1 .. Len(s) /\ t[i] = s[i]
  BY LimitedIs
<1>2. Len(s) \in Nat /\ DOMAIN s = 1 .. Len(s)
  BY LenProperties
<1>3. Len(s) =< n => k = Len(s)
  <2>1. \A m \in Nat : m =< n => (IF n =< m THEN n ELSE m) = m
    OBVIOUS
  <2>. QED  BY <1>2, <2>1
<1>. HIDE DEF t
<1>4. IsInjective(t)
  <2>. HIDE DEF k
  <2>. QED  BY <1>1, <1>2 DEF IsInjective
<1>5. Range(t) \subseteq Range(s)
  <2>. HIDE DEF k
  <2>. QED  BY <1>1, <1>2 DEF Range
<1>6. Len(s) =< n => Range(t) = Range(s)
  <2>. HIDE DEF k
  <2>. QED  BY <1>1, <1>2, <1>3 DEF Range
<1>. QED  BY <1>1, <1>2, <1>4, <1>5, <1>6 DEF t

\* The siblings of a product, the first of them.
LEMMA SiblingsAre ==
  ASSUME CardRows, NEW seed, NEW n \in Nat,
         NEW S, S = {p \in Products \ {seed} : List!Buyable(p) /\ card[p].home = card[seed].home}
  PROVE  /\ List!Siblings(seed, n) \in Seq(Products) /\ IsInjective(List!Siblings(seed, n))
         /\ IsFiniteSet(S) /\ Cardinality(S) \in Nat
         /\ Range(List!Siblings(seed, n)) \subseteq S
         /\ Len(List!Siblings(seed, n)) = IF n =< Cardinality(S) THEN n ELSE Cardinality(S)
         /\ Cardinality(S) =< n => Range(List!Siblings(seed, n)) = S
<1>. DEFINE R == {pair \in S \X S : pair[1] > pair[2]}
            s == InOrder(S, R)
<1>1. IsFiniteSet(S) /\ S \subseteq Products
  BY ListingAssumption, FS_Subset
<1>2. Orders(R, S)
  <2>1. \A a, b \in S : <<a, b>> \in R <=> a > b
    OBVIOUS
  <2>2. \A a \in S : a \in Nat
    BY <1>1, ListingAssumption
  <2>. HIDE DEF R
  <2>. QED  BY <2>1, <2>2 DEF Orders
<1>3. List!Siblings(seed, n) = Limited(s, n)
  BY SameLimit, SameOrder, Zenon DEF List!Siblings
<1>. HIDE DEF R
<1>4. /\ Cardinality(S) \in Nat /\ s \in Seq(S) /\ Len(s) = Cardinality(S) /\ IsInjective(s) /\ Range(s) = S
  BY <1>1, <1>2, OrderIs
<1>5. s \in Seq(Products)
  BY <1>1, <1>4
<1>. HIDE DEF s
<1>. QED  BY <1>1, <1>3, <1>4, <1>5, LimitedOnce

\* The rail: what is picked of the ranking, filled up with siblings.
LEMMA RailFull ==
  ASSUME CardRows, NEW seed \in Products, NEW S \in SUBSET Products, NEW ranked \in List!Arrangements(S)
  PROVE  LET rail == List!RelatedElastic(seed, ranked)
             offered == {p \in Products \ {seed} :
                           List!Buyable(p) /\ (p \in Range(List!Fetched(ranked)) \/ card[p].home = card[seed].home)}
         IN  IsInjective(rail) /\ Range(rail) \subseteq offered /\ Len(rail) = Min({Limit, Cardinality(offered)})
<1>. DEFINE fetched == List!Fetched(ranked)
            B == {p \in Products \ {seed} : List!Buyable(p)}
            kept == Kept(fetched, B)
            picked == Limited(kept, Limit)
            near == {p \in Products \ {seed} : List!Buyable(p) /\ card[p].home = card[seed].home}
            more == Limit + Len(picked) + 1
            sibs == List!Siblings(seed, more)
            fresh == Kept(sibs, Products \ Range(picked))
            top == Limited(fresh, Limit - Len(picked))
            rail == picked \o top
            offered == {p \in Products \ {seed} :
                          List!Buyable(p) /\ (p \in Range(List!Fetched(ranked)) \/ card[p].home = card[seed].home)}
<1>1. ranked \in Seq(Products) /\ IsInjective(ranked)
  <2>1. Cardinality(S) \in Nat
    BY ListingAssumption, FS_Subset, FS_CardinalityType
  <2>2. ranked \in [1 .. Cardinality(S) -> S] /\ IsInjective(ranked)
    BY SameHeld, SameCardinality DEF List!Arrangements
  <2>. QED  BY <2>1, <2>2
<1>2. fetched \in Seq(Products) /\ IsInjective(fetched)
  <2>. DEFINE m == Min({Limit * Factor, MaxCandidates})
  <2>1. m \in Nat
    <3>1. Limit * Factor \in Nat /\ MaxCandidates \in Nat
      BY ListingAssumption
    <3>. QED  BY <3>1, LeastOfTwo
  <2>2. fetched = Limited(ranked, m)
    BY SameLimit, SameBounds DEF List!Fetched
  <2>. HIDE DEF m, fetched
  <2>. QED  BY <1>1, <2>1, <2>2, LimitedOnce
<1>3. /\ List!Picked(seed, fetched) = picked
      /\ List!TopUp(seed, picked) = top
      /\ List!RelatedElastic(seed, ranked) = rail
  <2>1. List!Picked(seed, fetched) = picked
    BY SameLimit, SameKept, Zenon DEF List!Picked
  <2>2. List!TopUp(seed, picked) = top
    BY SameLimit, SameKept, SameHeld, Zenon DEF List!TopUp
  <2>3. List!RelatedElastic(seed, ranked)
          = List!Picked(seed, fetched) \o List!TopUp(seed, List!Picked(seed, fetched))
    BY Zenon DEF List!RelatedElastic
  <2>. QED  BY <2>1, <2>2, <2>3
<1>4. /\ offered = (Range(fetched) \cap B) \cup near /\ near \subseteq Products /\ B \subseteq Products
  <2>1. Range(fetched) \subseteq Products
    BY <1>2, LenProperties DEF Range
  <2>. QED  BY <2>1
<1>. HIDE DEF fetched, B
<1>5. /\ kept \in Seq(Products) /\ IsInjective(kept) /\ Range(kept) = Range(fetched) \cap B
  <2>1. kept \in Seq(Products \cap B) /\ IsInjective(kept) /\ Range(kept) = Range(fetched) \cap B
    BY <1>2, KeptOnce
  <2>. HIDE DEF kept
  <2>. QED  BY <2>1
<1>. HIDE DEF kept
<1>6. Limit \in Nat
  BY ListingAssumption
<1>7. /\ picked \in Seq(Products) /\ IsInjective(picked) /\ Range(picked) \subseteq Range(fetched) \cap B
      /\ Len(picked) \in Nat /\ Len(picked) =< Limit
      /\ Len(picked) < Limit => Range(picked) = Range(fetched) \cap B
  <2>1. /\ picked \in Seq(Products) /\ IsInjective(picked) /\ Range(picked) \subseteq Range(kept)
        /\ Len(kept) \in Nat /\ Len(picked) = IF Limit =< Len(kept) THEN Limit ELSE Len(kept)
        /\ Len(kept) =< Limit => Range(picked) = Range(kept)
    BY <1>5, <1>6, LimitedOnce
  <2>. HIDE DEF picked
  <2>. QED  BY <1>5, <1>6, <2>1
<1>. HIDE DEF picked
<1>8. /\ sibs \in Seq(Products) /\ IsInjective(sibs) /\ IsFiniteSet(near) /\ Cardinality(near) \in Nat
      /\ Range(sibs) \subseteq near /\ more \in Nat
      /\ Len(sibs) = IF more =< Cardinality(near) THEN more ELSE Cardinality(near)
      /\ Cardinality(near) =< more => Range(sibs) = near
  <2>1. more \in Nat
    BY <1>6, <1>7
  <2>2. near = {p \in Products \ {seed} : List!Buyable(p) /\ card[p].home = card[seed].home}
    OBVIOUS
  <2>. HIDE DEF more, near, fresh, top, rail, offered
  <2>3. List!Siblings(seed, more) \in Seq(Products) /\ IsInjective(List!Siblings(seed, more))
    BY <2>1, <2>2, SiblingsAre
  <2>4. IsFiniteSet(near) /\ Cardinality(near) \in Nat /\ Range(List!Siblings(seed, more)) \subseteq near
    BY <2>1, <2>2, SiblingsAre
  <2>5. Len(List!Siblings(seed, more)) = IF more =< Cardinality(near) THEN more ELSE Cardinality(near)
    BY <2>1, <2>2, SiblingsAre
  <2>6. Cardinality(near) =< more => Range(List!Siblings(seed, more)) = near
    BY <2>1, <2>2, SiblingsAre
  <2>. QED  BY <2>1, <2>3, <2>4, <2>5, <2>6
<1>. HIDE DEF sibs, near
<1>9. /\ fresh \in Seq(Products) /\ IsInjective(fresh) /\ Range(fresh) = Range(sibs) \ Range(picked)
      /\ Len(fresh) = Cardinality(Range(sibs) \ Range(picked)) /\ Len(fresh) \in Nat
  <2>. DEFINE T == Products \ Range(picked)
  <2>1. /\ fresh \in Seq(Products \cap T) /\ IsInjective(fresh) /\ Range(fresh) = Range(sibs) \cap T
        /\ Len(fresh) = Cardinality(Range(sibs) \cap T)
    <3>. HIDE DEF T
    <3>1. fresh = Kept(sibs, T)
      BY DEF T
    <3>. HIDE DEF fresh
    <3>. QED  BY <1>8, <3>1, KeptOnce
  <2>2. Range(sibs) \subseteq Products
    BY <1>4, <1>8
  <2>3. Range(sibs) \cap T = Range(sibs) \ Range(picked)
    BY <2>2
  <2>4. fresh \in Seq(Products)
    <3>. HIDE DEF fresh
    <3>. QED  BY <2>1
  <2>. HIDE DEF fresh, T
  <2>. QED  BY <2>1, <2>3, <2>4, LenProperties
<1>. HIDE DEF fresh
<1>10. /\ top \in Seq(Products) /\ IsInjective(top) /\ Range(top) \subseteq Range(fresh)
       /\ Len(top) = IF Limit - Len(picked) =< Len(fresh) THEN Limit - Len(picked) ELSE Len(fresh)
       /\ Len(fresh) =< Limit - Len(picked) => Range(top) = Range(fresh)
  <2>1. Limit - Len(picked) \in Nat
    BY <1>6, <1>7
  <2>. QED  BY <1>9, <2>1, LimitedOnce
<1>. HIDE DEF top
<1>11. /\ rail \in Seq(Products) /\ Range(rail) = Range(picked) \cup Range(top)
       /\ Len(rail) = Len(picked) + Len(top) /\ IsInjective(rail)
  <2>1. /\ rail \in Seq(Products) /\ Range(rail) = Range(picked) \cup Range(top)
        /\ DOMAIN rail = 1 .. Len(picked) + Len(top) /\ Len(picked) \in Nat /\ Len(top) \in Nat
        /\ \A a : Once(picked, a) /\ Once(top, a) /\ ~(a \in Range(picked) /\ a \in Range(top)) => Once(rail, a)
    <3>1. picked \in Seq(Products) /\ top \in Seq(Products)
      BY <1>7, <1>10
    <3>. QED  BY <3>1, Appended
  <2>2. \A a : Once(picked, a) /\ Once(top, a) /\ ~(a \in Range(picked) /\ a \in Range(top))
    BY <1>7, <1>9, <1>10 DEF Once, IsInjective
  <2>. HIDE DEF rail
  <2>3. IsInjective(rail)
    BY <2>1, <2>2 DEF IsInjective, Once
  <2>4. Len(rail) = Len(picked) + Len(top)
    BY <2>1, LenProperties
  <2>. QED  BY <2>1, <2>3, <2>4
<1>. HIDE DEF rail, offered
<1>12. Range(rail) \subseteq offered
  BY <1>4, <1>7, <1>8, <1>9, <1>10, <1>11
<1>13. /\ IsFiniteSet(offered) /\ Cardinality(offered) \in Nat
       /\ IsFiniteSet(Range(rail)) /\ Cardinality(Range(rail)) = Len(rail)
       /\ Len(rail) =< Cardinality(offered)
  <2>1. offered \subseteq Products
    BY <1>4
  <2>2. IsFiniteSet(offered) /\ Cardinality(offered) \in Nat
    BY <2>1, ListingAssumption, FS_Subset, FS_CardinalityType
  <2>3. IsFiniteSet(Range(rail)) /\ Cardinality(Range(rail)) = Len(rail)
    BY <1>11, HeldOnce
  <2>. QED  BY <1>12, <2>2, <2>3, FS_Subset
<1>14. Len(rail) = Limit \/ (Len(rail) =< Limit /\ Range(rail) = offered)
  <2>1. CASE Len(picked) = Limit
    <3>1. Len(top) = 0
      BY <1>6, <1>9, <1>10, <2>1
    <3>. QED  BY <1>6, <1>11, <2>1, <3>1
  <2>2. CASE Len(picked) < Limit /\ Cardinality(near) =< more
    <3>1. Range(sibs) = near /\ Range(picked) = Range(fetched) \cap B
      BY <1>7, <1>8, <2>2
    <3>2. CASE Len(fresh) =< Limit - Len(picked)
      <4>1. Range(top) = near \ Range(picked)
        BY <1>9, <1>10, <3>1, <3>2
      <4>2. Range(rail) = offered
        BY <1>4, <1>11, <3>1, <4>1
      <4>3. Len(rail) =< Limit
        BY <1>6, <1>7, <1>9, <1>10, <1>11, <3>2
      <4>. QED  BY <4>2, <4>3
    <3>3. CASE ~(Len(fresh) =< Limit - Len(picked))
      BY <1>6, <1>7, <1>9, <1>10, <1>11, <3>3
    <3>. QED  BY <3>2, <3>3
  <2>3. CASE ~(Cardinality(near) =< more)
    <3>1. Len(sibs) = more
      BY <1>8, <2>3
    <3>2. /\ IsFiniteSet(Range(sibs)) /\ Cardinality(Range(sibs)) = more
          /\ IsFiniteSet(Range(picked)) /\ Cardinality(Range(picked)) = Len(picked)
      BY <1>7, <1>8, <3>1, HeldOnce
    <3>3. Len(fresh) = more - Cardinality(Range(sibs) \cap Range(picked))
      BY <1>9, <3>2, FS_Difference
    <3>4. /\ Cardinality(Range(sibs) \cap Range(picked)) =< Len(picked)
          /\ Cardinality(Range(sibs) \cap Range(picked)) \in Nat
      <4>. DEFINE T == Range(sibs) \cap Range(picked)
      <4>1. T \in SUBSET Range(picked)
        OBVIOUS
      <4>. HIDE DEF T
      <4>. QED  BY <3>2, <4>1, FS_Subset, FS_CardinalityType DEF T
    <3>5. Limit - Len(picked) =< Len(fresh)
      BY <1>6, <1>7, <3>3, <3>4
    <3>. QED  BY <1>6, <1>7, <1>10, <1>11, <3>5
  <2>4. Len(picked) = Limit \/ Len(picked) < Limit
    BY <1>6, <1>7
  <2>. QED  BY <2>1, <2>2, <2>3, <2>4
<1>15. Len(rail) = Min({Limit, Cardinality(offered)})
  <2>1. Min({Limit, Cardinality(offered)}) = IF Limit =< Cardinality(offered) THEN Limit ELSE Cardinality(offered)
    BY <1>6, <1>13, LeastOfTwo
  <2>2. Len(rail) = Limit \/ (Len(rail) =< Limit /\ Len(rail) = Cardinality(offered))
    BY <1>13, <1>14
  <2>. QED  BY <1>6, <1>13, <2>1, <2>2
<1>. QED  BY <1>3, <1>11, <1>12, <1>15 DEF offered

LEMMA RailSound == CardRows => List!RailIsFull
<1>. SUFFICES ASSUME CardRows, NEW seed \in {p \in Products : card[p] # None},
                     NEW ranked \in {None} \cup UNION {List!Arrangements(S) : S \in SUBSET Products}
              PROVE  LET rail == List!RelatedProducts(seed, ranked)
                         fetched == IF ranked = None THEN {} ELSE List!Range(List!Fetched(ranked))
                         offered == {p \in Products \ {seed} :
                                       List!Buyable(p) /\ (p \in fetched \/ card[p].home = card[seed].home)}
                     IN  /\ List!IsInjective(rail)
                         /\ List!Range(rail) \subseteq offered
                         /\ Len(rail) = List!Min({Limit, List!Cardinality(offered)})
  BY Zenon DEF List!RailIsFull
<1>. DEFINE fetched == IF ranked = None THEN {} ELSE List!Range(List!Fetched(ranked))
            offered == {p \in Products \ {seed} :
                          List!Buyable(p) /\ (p \in fetched \/ card[p].home = card[seed].home)}
<1>1. CASE ranked = None
  <2>1. List!RelatedProducts(seed, ranked) = List!Siblings(seed, Limit)
    BY <1>1 DEF List!RelatedProducts
  <2>2. offered = {p \in Products \ {seed} : List!Buyable(p) /\ card[p].home = card[seed].home}
    BY <1>1
  <2>. HIDE DEF offered
  <2>3. Limit \in Nat
    BY ListingAssumption
  <2>4. /\ IsInjective(List!Siblings(seed, Limit)) /\ Cardinality(offered) \in Nat
        /\ Range(List!Siblings(seed, Limit)) \subseteq offered
        /\ Len(List!Siblings(seed, Limit)) = IF Limit =< Cardinality(offered) THEN Limit ELSE Cardinality(offered)
    BY <2>2, <2>3, SiblingsAre
  <2>5. Len(List!Siblings(seed, Limit)) = Min({Limit, Cardinality(offered)})
    BY <2>3, <2>4, LeastOfTwo
  <2>. QED  BY <2>1, <2>4, <2>5, SameHeld, SameBounds, SameCardinality DEF offered
<1>2. CASE ranked # None
  <2>1. PICK S \in SUBSET Products : ranked \in List!Arrangements(S)
    BY <1>2
  <2>2. List!RelatedProducts(seed, ranked) = List!RelatedElastic(seed, ranked)
    BY <1>2 DEF List!RelatedProducts
  <2>3. fetched = Range(List!Fetched(ranked))
    BY <1>2, SameHeld
  <2>4. offered = {p \in Products \ {seed} :
                     List!Buyable(p) /\ (p \in Range(List!Fetched(ranked)) \/ card[p].home = card[seed].home)}
    BY <2>3
  <2>. HIDE DEF offered
  <2>5. /\ IsInjective(List!RelatedElastic(seed, ranked)) /\ Range(List!RelatedElastic(seed, ranked)) \subseteq offered
        /\ Len(List!RelatedElastic(seed, ranked)) = Min({Limit, Cardinality(offered)})
    BY <2>1, <2>4, RailFull
  <2>. QED  BY <2>2, <2>5, SameHeld, SameBounds, SameCardinality DEF offered
<1>. QED  BY <1>1, <1>2

\* Lowest and highest of finitely many numbers.
LEMMA BoundsAre ==
  ASSUME NEW S \in SUBSET Nat, IsFiniteSet(S), S # {}
  PROVE  /\ List!Min(S) \in S /\ List!Max(S) \in S
         /\ \A x \in S : List!Min(S) =< x /\ x =< List!Max(S)
<1>1. \E m \in S : \A x \in S : m =< x
  BY LeastOf
<1>2. \E m \in S : \A x \in S : m >= x
  <2>1. S \in SUBSET Int
    OBVIOUS
  <2>. QED  BY <2>1, GreatestOf
<1>3. Min(S) \in S /\ \A x \in S : Min(S) =< x
  BY <1>1 DEF Min
<1>4. Max(S) \in S /\ \A x \in S : Max(S) >= x
  BY <1>2 DEF Max
<1>. QED  BY <1>3, <1>4, SameBounds

Chosen(c, lo, hi, vs) ==
  [category |-> c, min |-> lo, max |-> hi, sale |-> FALSE, featured |-> FALSE, values |-> vs]

\* What a choice in a category's filters lists.
LEMMA ChoiceLists ==
  ASSUME NEW c, c # None, NEW lo, NEW hi, NEW vs, NEW p \in Products
  PROVE  List!Matches(p, Chosen(c, lo, hi, vs)) <=>
           /\ p \in List!Subtree(c) /\ List!HasFacets(p, vs)
           /\ lo # None => card[p].price >= lo
           /\ hi # None => card[p].price =< hi
BY DEF List!Matches, Chosen, List!Subtree

LEMMA OneValue ==
  ASSUME NEW p, NEW v \in DOMAIN AttributeOf
  PROVE  List!HasFacets(p, {v}) <=> v \in ValuesOf[p]
<1>1. {v} \cap DOMAIN AttributeOf = {v}
  OBVIOUS
<1>2. List!HasFacets(p, {v}) <=>
        /\ {v} # {} => {v} # {}
        /\ \A w \in {v} : \E u \in ValuesOf[p] \cap {v} : AttributeOf[u] = AttributeOf[w]
  BY <1>1, FacetsMean
<1>. QED  BY <1>2

LEMMA FacetsSound == CardRows => List!FacetsPredict
<1>. SUFFICES ASSUME CardRows, NEW c \in UNION {card[p].cats : p \in {p \in Products : card[p] # None}}
              PROVE  LET page(lo, hi, vs) == {p \in Products : List!Matches(p, Chosen(c, lo, hi, vs))}
                         facets == List!Facets(c)
                         offered == UNION {facets[a] : a \in DOMAIN facets}
                     IN  /\ \A f \in offered : List!Cardinality(page(None, None, {f.value})) = f.count
                         /\ \A v \in DOMAIN AttributeOf \ {f.value : f \in offered} : page(None, None, {v}) = {}
                         /\ page(List!PriceBounds(c).min, List!PriceBounds(c).max, {}) = page(None, None, {})
  BY Zenon DEF List!FacetsPredict, Chosen
<1>. DEFINE page(lo, hi, vs) == {p \in Products : List!Matches(p, Chosen(c, lo, hi, vs))}
            facets == List!Facets(c)
            offered == UNION {facets[a] : a \in DOMAIN facets}
            sold == {v \in DOMAIN AttributeOf : List!FacetCount(c, v) > 0}
            count(v) == List!FacetCount(c, v)
<1>1. PICK seller \in Products : card[seller] # None /\ c \in card[seller].cats
  OBVIOUS
<1>2. c # None /\ seller \in List!Subtree(c)
  BY <1>1, PriceIs, ListingAssumption DEF List!Subtree
<1>3. List!Subtree(c) \subseteq Products /\ IsFiniteSet(List!Subtree(c))
  <2>1. List!Subtree(c) \subseteq Products
    BY DEF List!Subtree
  <2>. QED  BY <2>1, ListingAssumption, FS_Subset
<1>4. ASSUME NEW v \in DOMAIN AttributeOf
      PROVE  page(None, None, {v}) = {p \in List!Subtree(c) : v \in ValuesOf[p]}
  <2>1. \A p \in Products : List!Matches(p, Chosen(c, None, None, {v})) <=> p \in List!Subtree(c) /\ v \in ValuesOf[p]
    BY <1>2, ChoiceLists, OneValue
  <2>. QED  BY <1>3, <2>1
<1>5. \A v \in DOMAIN AttributeOf : count(v) = Cardinality({p \in List!Subtree(c) : v \in ValuesOf[p]})
  BY SameCardinality DEF List!FacetCount
<1>6. facets = [a \in {AttributeOf[v] : v \in sold} |->
                 {[value |-> v, count |-> count(v)] : v \in {w \in sold : AttributeOf[w] = a}}]
  BY Zenon DEF List!Facets
<1>. HIDE DEF facets
<1>7. \A f \in offered : \E v \in sold : f = [value |-> v, count |-> count(v)]
  <2>. HIDE DEF sold, count
  <2>1. ASSUME NEW f \in offered PROVE \E v \in sold : f = [value |-> v, count |-> count(v)]
    <3>1. PICK a \in DOMAIN facets : f \in facets[a]
      OBVIOUS
    <3>2. f \in {[value |-> v, count |-> count(v)] : v \in {w \in sold : AttributeOf[w] = a}}
      BY <1>6, <3>1
    <3>. QED  BY <3>2
  <2>. QED  BY <2>1
<1>8. \A v \in sold : \E f \in offered : f.value = v
  <2>. HIDE DEF sold, count
  <2>1. ASSUME NEW v \in sold PROVE \E f \in offered : f.value = v
    <3>. DEFINE f == [value |-> v, count |-> count(v)]
    <3>1. AttributeOf[v] \in DOMAIN facets
      BY <1>6
    <3>2. facets[AttributeOf[v]] = {[value |-> u, count |-> count(u)] : u \in {w \in sold : AttributeOf[w] = AttributeOf[v]}}
      BY <1>6
    <3>3. f \in facets[AttributeOf[v]]
      BY <3>2
    <3>4. f \in offered /\ f.value = v
      BY <3>1, <3>3
    <3>. QED  BY <3>4
  <2>. QED  BY <2>1
<1>. HIDE DEF offered
<1>9. ASSUME NEW f \in offered PROVE List!Cardinality(page(None, None, {f.value})) = f.count
  <2>1. PICK v \in sold : f = [value |-> v, count |-> count(v)]
    BY <1>7
  <2>2. v \in DOMAIN AttributeOf /\ f.value = v /\ f.count = count(v)
    BY <2>1
  <2>. HIDE DEF page, count
  <2>. QED  BY <1>4, <1>5, <2>2, SameCardinality
<1>10. ASSUME NEW v \in DOMAIN AttributeOf \ {f.value : f \in offered} PROVE page(None, None, {v}) = {}
  <2>. DEFINE S == {p \in List!Subtree(c) : v \in ValuesOf[p]}
  <2>1. v \notin sold
    <3>. HIDE DEF sold
    <3>. QED  BY <1>8
  <2>2. ~(count(v) > 0)
    BY <2>1
  <2>3. IsFiniteSet(S) /\ Cardinality(S) \in Nat /\ count(v) = Cardinality(S)
    BY <1>3, <1>5, FS_Subset, FS_CardinalityType
  <2>4. S = {}
    <3>. HIDE DEF S, count
    <3>1. Cardinality(S) = 0
      BY <2>2, <2>3
    <3>. QED  BY <2>3, <3>1, FS_EmptySet
  <2>. HIDE DEF page
  <2>. QED  BY <1>4, <2>4
<1>11. page(List!PriceBounds(c).min, List!PriceBounds(c).max, {}) = page(None, None, {})
  <2>. DEFINE S == List!Subtree(c)
              lows == {card[p].price : p \in S}
              high == [p \in S |-> IF card[p].top = None THEN card[p].price ELSE card[p].top]
              highs == {IF card[p].top = None THEN card[p].price ELSE card[p].top : p \in S}
  <2>1. \A p \in S : /\ p \in Products /\ card[p] # None
                     /\ card[p].price \in Nat /\ high[p] \in Nat /\ card[p].price =< high[p]
    <3>1. ASSUME NEW p \in S
          PROVE  /\ p \in Products /\ card[p] # None
                 /\ card[p].price \in Nat /\ high[p] \in Nat /\ card[p].price =< high[p]
      <4>1. p \in Products /\ card[p] # None
        BY DEF List!Subtree
      <4>2. card[p] \in Cards /\ card[p].price \in Nat
        BY <4>1, PriceIs
      <4>3. high[p] = IF card[p].top = None THEN card[p].price ELSE card[p].top
        OBVIOUS
      <4>. HIDE DEF high
      <4>. QED  BY <4>1, <4>2, <4>3, ListingAssumption
    <3>. QED  BY <3>1
  <2>2. highs = {high[p] : p \in S}
    OBVIOUS
  <2>3. lows = {[q \in S |-> card[q].price][p] : p \in S}
    OBVIOUS
  <2>4. IsFiniteSet(lows) /\ lows # {} /\ lows \in SUBSET Nat
    <3>1. IsFiniteSet({[q \in S |-> card[q].price][p] : p \in S})
      <4>. DEFINE g == [q \in S |-> card[q].price]
      <4>. HIDE DEF g, S
      <4>1. IsFiniteSet({g[p] : p \in S})
        BY <1>3, ImageIs DEF S
      <4>. QED  BY <4>1 DEF g
    <3>2. IsFiniteSet(lows)
      <4>. HIDE DEF lows
      <4>. QED  BY <2>3, <3>1
    <3>. HIDE DEF high
    <3>. QED  BY <1>2, <2>1, <3>2
  <2>5. IsFiniteSet(highs) /\ highs # {} /\ highs \in SUBSET Nat
    <3>. HIDE DEF high
    <3>1. IsFiniteSet({high[p] : p \in S})
      BY <1>3, ImageIs
    <3>2. {high[p] : p \in S} # {} /\ {high[p] : p \in S} \in SUBSET Nat
      BY <1>2, <2>1
    <3>. HIDE DEF highs
    <3>. QED  BY <2>2, <3>1, <3>2
  <2>6. List!PriceBounds(c) = [min |-> List!Min(lows), max |-> List!Max(highs)]
    BY <1>2, Zenon DEF List!PriceBounds
  <2>7. \A p \in S : List!Min(lows) =< card[p].price
    <3>1. \A p \in S : card[p].price \in lows
      OBVIOUS
    <3>. HIDE DEF lows
    <3>. QED  BY <2>4, <3>1, BoundsAre
  <2>8. \A p \in S : card[p].price =< List!Max(highs) /\ List!Max(highs) \in Nat
    <3>. HIDE DEF high
    <3>1. \A p \in S : high[p] \in {high[q] : q \in S}
      OBVIOUS
    <3>. HIDE DEF highs
    <3>2. \A x \in highs : x =< List!Max(highs) /\ List!Max(highs) \in Nat
      BY <2>5, BoundsAre
    <3>3. \A p \in S : high[p] =< List!Max(highs) /\ List!Max(highs) \in Nat
      BY <2>2, <3>1, <3>2
    <3>. QED  BY <2>1, <3>3
  <2>9. List!Min(lows) \in Nat
    <3>. HIDE DEF lows
    <3>. QED  BY <2>4, BoundsAre
  <2>10. List!PriceBounds(c).min = List!Min(lows) /\ List!PriceBounds(c).max = List!Max(highs)
    <3>. HIDE DEF lows, highs
    <3>. QED  BY <2>6
  <2>. HIDE DEF lows, highs, high
  <2>11. \A p \in Products : List!Matches(p, Chosen(c, List!PriceBounds(c).min, List!PriceBounds(c).max, {}))
                               <=> List!Matches(p, Chosen(c, None, None, {}))
    <3>1. ASSUME NEW p \in Products
          PROVE  List!Matches(p, Chosen(c, List!PriceBounds(c).min, List!PriceBounds(c).max, {}))
                   <=> List!Matches(p, Chosen(c, None, None, {}))
      <4>1. List!Matches(p, Chosen(c, None, None, {})) <=> p \in S /\ List!HasFacets(p, {})
        BY <1>2, ChoiceLists
      <4>2. List!Matches(p, Chosen(c, List!Min(lows), List!Max(highs), {})) <=>
              /\ p \in S /\ List!HasFacets(p, {})
              /\ List!Min(lows) # None => card[p].price >= List!Min(lows)
              /\ List!Max(highs) # None => card[p].price =< List!Max(highs)
        BY <1>2, ChoiceLists
      <4>3. p \in S => card[p].price >= List!Min(lows) /\ card[p].price =< List!Max(highs)
        BY <2>1, <2>7, <2>8, <2>9
      <4>. QED  BY <2>10, <4>1, <4>2, <4>3
    <3>. QED  BY <3>1
  <2>. QED  BY <2>11
<1>. QED  BY <1>9, <1>10, <1>11, Zenon DEF offered, facets

LEMMA ListingAlways == Spec => [](part = "listing" => ListingInv)
<1>. DEFINE Inv == part = "listing" => ListingInv
<1>1. Init => Inv
  BY ListingInit DEF Init
<1>2. Inv /\ [Next]_vars => Inv'
  <2>. SUFFICES ASSUME Inv, [Next]_vars, part = "listing" PROVE ListingInv'
    BY PartStep
  <2>1. CASE ListingStep
    BY <2>1, PageKeeps, ResortKeeps, RebuildKeeps DEF ListingStep
  <2>2. CASE UNCHANGED listing
    BY <2>2 DEF listing, ListingInv, CardRows, CursorInv, ShownSoFar, NewestDown, Passed,
                List!Wanted, List!KeysetPredicate
  <2>. QED  BY <2>1, <2>2, PartStep
<1>. QED  BY <1>1, <1>2, PTL DEF Spec

\* A card nobody touched is shown once if it is wanted, else never, newest first no card twice;
\* the rail of related products is as full as can be, and the facets of a category count what
\* its page lists (list_cards, related_products, facets).
THEOREM ListingStaysComplete == Spec => []ListingTellsAll
<1>1. (part = "listing" => ListingInv) => ListingTellsAll
  BY ShownOnce, RailSound, FacetsSound DEF ListingTellsAll, ListingInv
<1>. QED  BY <1>1, ListingAlways, PTL
-----------------------------------------------------------------------------
\* Search

\* The ranking whose pages the hunt turns.
Ranking == IF hunt.backend = "postgres" THEN Find!SearchProductIds ELSE Find!Kept(EsRanking, indexed)

\* How many of the ranking were on the pages before this one.
Behind(page) == (page - 1) * ResultPage

Hunts ==
  [page : Nat \ {0}, hits : Seq(Goods) \cup {None}, total : Nat,
   backend : {None, "elastic", "postgres"}, shown : Seq(Goods), open : BOOLEAN]

\* Of the ranking turned so far exactly what is sold is shown, once each, the first one first.
HuntShown ==
  /\ \A p \in Goods :
       /\ Once(hunt.shown, p)
       /\ p \in Range(hunt.shown) <=>
            p \in onSale /\ \E i \in DOMAIN Ranking : i =< Behind(hunt.page) /\ Ranking[i] = p
  /\ hunt.backend = "postgres" /\ hunt.page > 1 /\ Ranking # <<>> =>
       hunt.shown # <<>> /\ hunt.shown[1] = Ranking[1]

HuntInv ==
  steady =>
    /\ onSale \in SUBSET Goods /\ indexed \in SUBSET Goods /\ hunt \in Hunts
    /\ hunt.page = 1 => hunt.shown = <<>> /\ hunt.open
    /\ hunt.backend = None => hunt.page = 1 /\ hunt.hits = None
    /\ hunt.backend # None =>
         /\ hunt.total = Len(Ranking)
         /\ hunt.hits # None => hunt.hits = Find!PageOf(Ranking, hunt.page)
         /\ HuntShown
         /\ IF hunt.open THEN Behind(hunt.page) =< Len(Ranking) ELSE Len(Ranking) =< Behind(hunt.page)

LEMMA PagesAre ==
  ASSUME NEW page \in Nat \ {0}
  PROVE  /\ Behind(page) \in Nat /\ page * ResultPage = Behind(page) + ResultPage
         /\ Behind(page + 1) = Behind(page) + ResultPage
         /\ ResultPage \in Nat \ {0} /\ Behind(1) = 0
<1>1. ResultPage \in Nat \ {0}
  BY SearchAssumption
<1>2. \A n \in Nat, r \in Nat : n * r \in Nat /\ (n + 1) * r = n * r + r
  OBVIOUS
<1>3. page - 1 \in Nat /\ (page - 1) + 1 = page /\ (page + 1) - 1 = page
  OBVIOUS
<1>4. (page - 1) * ResultPage \in Nat /\ ((page - 1) + 1) * ResultPage = (page - 1) * ResultPage + ResultPage
  BY <1>1, <1>2, <1>3
<1>5. page * ResultPage = (page - 1) * ResultPage + ResultPage
  BY <1>3, <1>4
<1>6. (1 - 1) * ResultPage = 0
  BY <1>1
<1>. QED  BY <1>1, <1>3, <1>4, <1>5, <1>6 DEF Behind

\* The rank of a product: its text's, or the code's where it is the greater.
LEMMA RankIs ==
  ASSUME NEW p \in Goods
  PROVE  /\ Find!RankOf(p) \in Nat /\ (Find!RankOf(p) > 0 <=> TsRank[p] > 0 \/ p \in CodeHits)
         /\ Find!RankOf(p) >= Find!CodeMatchRank <=> p \in CodeHits
<1>. DEFINE code == IF p \in CodeHits THEN Find!CodeMatchRank ELSE 0
<1>1. /\ TsRank[p] \in Nat /\ TsRank[p] < Find!CodeMatchRank /\ Find!CodeMatchRank \in Nat
      /\ Find!CodeMatchRank > 0
  BY SearchAssumption DEF Find!CodeMatchRank
<1>2. code \in Nat
  BY <1>1
<1>3. Find!RankOf(p) = Max({TsRank[p], code})
  BY SameBounds DEF Find!RankOf
<1>4. \E m \in {TsRank[p], code} : \A x \in {TsRank[p], code} : m >= x
  <2>. HIDE DEF code
  <2>1. TsRank[p] >= code \/ code >= TsRank[p]
    BY <1>1, <1>2
  <2>2. TsRank[p] >= TsRank[p] /\ code >= code
    BY <1>1, <1>2
  <2>. QED  BY <2>1, <2>2
<1>5. Max({TsRank[p], code}) \in {TsRank[p], code} /\ \A x \in {TsRank[p], code} : Max({TsRank[p], code}) >= x
  <2>. HIDE DEF code
  <2>. QED  BY <1>4 DEF Max
<1>6. Find!RankOf(p) \in Nat /\ Find!RankOf(p) >= TsRank[p] /\ Find!RankOf(p) >= code
      /\ (Find!RankOf(p) = TsRank[p] \/ Find!RankOf(p) = code)
  <2>. HIDE DEF code
  <2>. QED  BY <1>1, <1>2, <1>3, <1>5
<1>. HIDE DEF code
<1>7. (p \in CodeHits => code = Find!CodeMatchRank) /\ (p \notin CodeHits => code = 0)
  BY DEF code
<1>. QED  BY <1>1, <1>2, <1>6, <1>7

\* The database's ranking: every product on sale that matches once, a code match first.
LEMMA PostgresRanks ==
  ASSUME onSale \in SUBSET Goods
  PROVE  /\ Find!SearchProductIds \in Seq(Goods) /\ IsInjective(Find!SearchProductIds)
         /\ Range(Find!SearchProductIds) = {p \in onSale : TsRank[p] > 0 \/ p \in CodeHits}
         /\ Range(Find!SearchProductIds) \cap CodeHits # {} => Find!SearchProductIds[1] \in CodeHits
<1>. DEFINE found == {p \in onSale : Find!RankOf(p) > 0}
            Better(a, b) == Find!RankOf(a) > Find!RankOf(b) \/ (Find!RankOf(a) = Find!RankOf(b) /\ a < b)
            R == {pair \in found \X found : Better(pair[1], pair[2])}
            s == InOrder(found, R)
<1>1. Find!SearchProductIds = s
  BY SameOrder, Zenon DEF Find!SearchProductIds
<1>2. found = {p \in onSale : TsRank[p] > 0 \/ p \in CodeHits}
  BY RankIs
<1>3. found \subseteq Goods /\ IsFiniteSet(found) /\ \A p \in found : p \in Goods /\ p \in Nat /\ Find!RankOf(p) \in Nat
  <2>1. found \subseteq Goods
    OBVIOUS
  <2>. HIDE DEF found
  <2>. QED  BY <2>1, SearchAssumption, RankIs, FS_Subset
<1>4. \A a, b \in found : <<a, b>> \in R <=> Better(a, b)
  OBVIOUS
<1>. HIDE DEF found
<1>. HIDE DEF R
<1>5. Orders(R, found)
  BY <1>3, <1>4 DEF Orders
<1>. HIDE DEF Better
<1>6. /\ Cardinality(found) \in Nat /\ s \in Seq(found)
      /\ Len(s) = Cardinality(found) /\ DOMAIN s = 1 .. Cardinality(found)
      /\ IsInjective(s) /\ Range(s) = found
      /\ \A i, j \in 1 .. Cardinality(found) : i < j <=> <<s[i], s[j]>> \in R
  BY <1>3, <1>5, OrderIs
<1>7. s \in Seq(Goods)
  BY <1>3, <1>6
<1>. HIDE DEF s
<1>8. ASSUME found \cap CodeHits # {} PROVE s[1] \in CodeHits
  <2>1. PICK x \in found : x \in CodeHits
    BY <1>8
  <2>2. PICK j \in 1 .. Cardinality(found) : s[j] = x
    BY <1>6, <2>1 DEF Range
  <2>3. 1 \in 1 .. Cardinality(found) /\ s[1] \in found
    BY <1>6, <2>2 DEF Range
  <2>4. CASE j = 1
    BY <2>1, <2>2, <2>4
  <2>5. CASE j # 1
    <3>1. Better(s[1], x)
      <4>1. 1 < j
        BY <1>6, <2>2, <2>5
      <4>2. <<s[1], s[j]>> \in R
        BY <1>6, <2>2, <2>3, <4>1
      <4>. QED  BY <1>4, <2>1, <2>2, <2>3, <4>2
    <3>2. Find!RankOf(s[1]) >= Find!RankOf(x)
      BY <1>3, <2>1, <2>3, <3>1 DEF Better
    <3>3. Find!RankOf(x) >= Find!CodeMatchRank
      BY <1>3, <2>1, RankIs
    <3>4. Find!RankOf(s[1]) >= Find!CodeMatchRank
      BY <1>3, <2>1, <2>3, <3>2, <3>3 DEF Find!CodeMatchRank
    <3>. QED  BY <1>3, <2>3, <3>4, RankIs
  <2>. QED  BY <2>4, <2>5
<1>. QED  BY <1>1, <1>2, <1>6, <1>7, <1>8

\* The engine's ranking: what the index holds, in its order.
LEMMA IndexRanks ==
  /\ Find!Kept(EsRanking, indexed) \in Seq(Goods) /\ IsInjective(Find!Kept(EsRanking, indexed))
  /\ Range(Find!Kept(EsRanking, indexed)) = Range(EsRanking) \cap indexed
<1>1. EsRanking \in Seq(Goods) /\ IsInjective(EsRanking)
  <2>1. EsRanking \in Seq(Goods) /\ Find!IsInjective(EsRanking)
    BY SearchAssumption
  <2>. QED  BY <2>1 DEF Find!IsInjective, IsInjective
<1>2. /\ Kept(EsRanking, indexed) \in Seq(Goods \cap indexed) /\ IsInjective(Kept(EsRanking, indexed))
      /\ Range(Kept(EsRanking, indexed)) = Range(EsRanking) \cap indexed
  BY <1>1, KeptOnce
<1>3. Kept(EsRanking, indexed) \in Seq(Goods)
  BY <1>2
<1>. QED  BY <1>2, <1>3, SameKept

LEMMA RankingIs ==
  ASSUME onSale \in SUBSET Goods
  PROVE  Ranking \in Seq(Goods) /\ IsInjective(Ranking) /\ Len(Ranking) \in Nat /\ DOMAIN Ranking = 1 .. Len(Ranking)
<1>1. Ranking \in Seq(Goods) /\ IsInjective(Ranking)
  <2>1. Ranking = Find!SearchProductIds \/ Ranking = Find!Kept(EsRanking, indexed)
    BY DEF Ranking
  <2>2. Find!SearchProductIds \in Seq(Goods) /\ IsInjective(Find!SearchProductIds)
    BY PostgresRanks
  <2>3. CASE Ranking = Find!SearchProductIds
    BY <2>2, <2>3
  <2>4. CASE Ranking = Find!Kept(EsRanking, indexed)
    BY <2>4, IndexRanks
  <2>. QED  BY <2>1, <2>3, <2>4
<1>. QED  BY <1>1, LenProperties

\* A page of a ranking.
LEMMA PageOfIs ==
  ASSUME NEW s \in Seq(Goods), NEW page \in Nat \ {0}, Behind(page) =< Len(s)
  PROVE  LET l == IF ResultPage =< Len(s) - Behind(page) THEN ResultPage ELSE Len(s) - Behind(page)
         IN  /\ Find!PageOf(s, page) \in Seq(Goods) /\ Len(Find!PageOf(s, page)) = l /\ l \in Nat
             /\ \A i \in 1 .. l : /\ Behind(page) + i \in 1 .. Len(s)
                                  /\ Find!PageOf(s, page)[i] = s[Behind(page) + i]
<1>. DEFINE a == Behind(page)
            l == IF ResultPage =< Len(s) - a THEN ResultPage ELSE Len(s) - a
            t == Find!PageOf(s, page)
<1>1. a \in Nat /\ Len(s) \in Nat /\ ResultPage \in Nat /\ page * ResultPage = a + ResultPage /\ a =< Len(s)
  BY PagesAre, LenProperties
<1>2. Min({page * ResultPage, Len(s)}) = a + l
  <2>1. page * ResultPage \in Int
    BY <1>1
  <2>2. Min({page * ResultPage, Len(s)}) = IF page * ResultPage =< Len(s) THEN page * ResultPage ELSE Len(s)
    BY <1>1, <2>1, LeastOfTwo
  <2>. HIDE DEF a
  <2>. QED  BY <1>1, <2>2
<1>3. t = SubSeq(s, a + 1, a + l)
  BY <1>2, SameBounds, Zenon DEF Find!PageOf, Behind
<1>4. l \in Nat /\ a + l =< Len(s)
  <2>. HIDE DEF a
  <2>. QED  BY <1>1
<1>. HIDE DEF a, l
<1>5. /\ SubSeq(s, a + 1, a + l) \in Seq(Goods) /\ Len(SubSeq(s, a + 1, a + l)) = l
      /\ \A i \in 1 .. l : SubSeq(s, a + 1, a + l)[i] = s[a + i]
  <2>1. \A i \in 1 .. l : a + i \in 1 .. Len(s) /\ s[a + i] \in Goods
    BY <1>1, <1>4, LenProperties
  <2>2. a + 1 \in Nat /\ a + l \in Nat /\ 1 =< a + 1 /\ (a + 1 =< a + l <=> l > 0)
    BY <1>1, <1>4
  <2>3. Len(SubSeq(s, a + 1, a + l)) = l
    BY <1>1, <1>4, <2>2
  <2>. QED  BY <1>1, <1>4, <2>1, <2>2, <2>3
<1>6. \A i \in 1 .. l : a + i \in 1 .. Len(s)
  BY <1>1, <1>4
<1>. QED  BY <1>3, <1>4, <1>5, <1>6 DEF a, l

LEMMA HuntInit == Find!Init => HuntInv
<1>. SUFFICES ASSUME Find!Init PROVE HuntInv
  OBVIOUS
<1>1. hunt = [page |-> 1, hits |-> None, total |-> 0, backend |-> None, shown |-> <<>>, open |-> TRUE]
  BY DEF Find!Init
<1>2. hunt \in Hunts /\ hunt.page = 1 /\ hunt.backend = None /\ hunt.hits = None /\ hunt.shown = <<>> /\ hunt.open
  BY <1>1 DEF Hunts
<1>3. onSale \in SUBSET Goods /\ indexed \in SUBSET Goods
  BY DEF Find!Init
<1>. QED  BY <1>2, <1>3 DEF HuntInv

\* What the ranking request answers, from either backend.
LEMMA RankAnswers ==
  ASSUME HuntInv, steady, Find!Rank
  PROVE  \E backend \in {"elastic", "postgres"} :
           /\ hunt' = [hunt EXCEPT !.hits = Find!PageOf(Ranking', hunt.page), !.total = Len(Ranking'),
                                   !.backend = backend]
           /\ steady' => hunt.backend \in {None, backend}
           /\ hunt'.backend = backend
           /\ Ranking' = Find!SearchProductIds \/ Ranking' = Find!Kept(EsRanking, indexed)
           /\ hunt.open /\ hunt.hits = None /\ UNCHANGED <<onSale, indexed, engine, flips>>
<1>. DEFINE es == Find!EsSearch(hunt.page)
            answer == IF es # None THEN es ELSE Find!PostgresSearch(hunt.page)
            kept == Find!Kept(EsRanking, indexed)
<1>1. /\ hunt.open /\ hunt.hits = None /\ UNCHANGED <<onSale, indexed, engine, flips>>
      /\ hunt' = [hunt EXCEPT !.hits = answer.hits, !.total = answer.total, !.backend = answer.backend]
      /\ steady' => hunt.backend \in {None, answer.backend}
  BY Zenon DEF Find!Rank
<1>2. hunt \in Hunts
  BY DEF HuntInv
<1>3. Find!Kept(EsRanking, indexed)' = kept /\ Find!SearchProductIds' = Find!SearchProductIds
  <2>1. onSale' = onSale /\ indexed' = indexed
    BY <1>1
  <2>2. Find!Kept(EsRanking, indexed)' = kept
    BY <2>1, SameKept
  <2>3. Find!SearchProductIds' = Find!SearchProductIds
    BY <2>1 DEF Find!SearchProductIds
  <2>. QED  BY <2>2, <2>3
<1>4. CASE es # None
  <2>1. es = [hits |-> Find!PageOf(kept, hunt.page), total |-> Len(kept), backend |-> "elastic"]
    BY <1>4, Zenon DEF Find!EsSearch
  <2>. HIDE DEF es, kept
  <2>2. /\ answer.hits = Find!PageOf(kept, hunt.page) /\ answer.total = Len(kept)
        /\ answer.backend = "elastic"
    BY <1>4, <2>1
  <2>. HIDE DEF answer
  <2>3. hunt'.backend = "elastic"
    BY <1>1, <1>2, <2>2 DEF Hunts
  <2>4. Ranking' = kept
    BY <1>3, <2>3 DEF Ranking
  <2>. QED  BY <1>1, <2>2, <2>3, <2>4 DEF kept
<1>5. CASE es = None
  <2>1. answer = [hits |-> Find!PageOf(Find!SearchProductIds, hunt.page),
                  total |-> Len(Find!SearchProductIds), backend |-> "postgres"]
    BY <1>5 DEF Find!PostgresSearch
  <2>. HIDE DEF answer, kept, es
  <2>2. /\ answer.hits = Find!PageOf(Find!SearchProductIds, hunt.page)
        /\ answer.total = Len(Find!SearchProductIds) /\ answer.backend = "postgres"
    BY <2>1
  <2>3. hunt'.backend = "postgres"
    BY <1>1, <1>2, <2>2 DEF Hunts
  <2>4. Ranking' = Find!SearchProductIds
    BY <1>3, <2>3 DEF Ranking
  <2>. QED  BY <1>1, <2>2, <2>3, <2>4
<1>. QED  BY <1>4, <1>5

LEMMA SameRanking ==
  ASSUME UNCHANGED <<onSale, indexed>>, hunt'.backend = hunt.backend
  PROVE  Ranking' = Ranking
<1>1. Find!Kept(EsRanking, indexed)' = Find!Kept(EsRanking, indexed)
  BY SameKept
<1>2. Find!SearchProductIds' = Find!SearchProductIds
  BY DEF Find!SearchProductIds
<1>. QED  BY <1>1, <1>2 DEF Ranking

LEMMA RankKeeps ==
  ASSUME HuntInv, Find!Rank
  PROVE  HuntInv'
<1>. SUFFICES ASSUME steady, steady' PROVE HuntInv'
  BY DEF Find!Rank, HuntInv
<1>1. PICK backend \in {"elastic", "postgres"} :
        /\ hunt' = [hunt EXCEPT !.hits = Find!PageOf(Ranking', hunt.page), !.total = Len(Ranking'),
                                !.backend = backend]
        /\ steady' => hunt.backend \in {None, backend}
        /\ hunt'.backend = backend
        /\ Ranking' = Find!SearchProductIds \/ Ranking' = Find!Kept(EsRanking, indexed)
        /\ hunt.open /\ hunt.hits = None /\ UNCHANGED <<onSale, indexed, engine, flips>>
  BY RankAnswers
<1>2. /\ onSale \in SUBSET Goods /\ indexed \in SUBSET Goods /\ hunt \in Hunts
      /\ hunt.page = 1 => hunt.shown = <<>> /\ hunt.open
      /\ hunt.backend = None => hunt.page = 1
  BY DEF HuntInv
<1>3. hunt.page \in Nat \ {0} /\ backend # None
  BY <1>2, SearchAssumption DEF Hunts
<1>4. /\ Ranking' \in Seq(Goods) /\ Len(Ranking') \in Nat /\ DOMAIN Ranking' = 1 .. Len(Ranking')
  <2>1. Ranking' \in Seq(Goods)
    BY <1>1, <1>2, PostgresRanks, IndexRanks
  <2>. QED  BY <2>1, LenProperties
<1>5. Behind(hunt.page) =< Len(Ranking')
  <2>1. CASE hunt.backend = None
    <3>1. hunt.page = 1 /\ Behind(1) = 0
      BY <1>2, <2>1, PagesAre
    <3>. QED  BY <1>4, <3>1
  <2>2. CASE hunt.backend = backend
    <3>1. Ranking' = Ranking
      BY <1>1, <2>2, SameRanking
    <3>. QED  BY <1>1, <1>3, <2>2, <3>1 DEF HuntInv
  <2>. QED  BY <1>1, <2>1, <2>2
<1>. DEFINE hits == Find!PageOf(Ranking', hunt.page)
<1>6. hits \in Seq(Goods)
  BY <1>3, <1>4, <1>5, PageOfIs
<1>7. /\ hunt'.page = hunt.page /\ hunt'.hits = hits /\ hunt'.total = Len(Ranking') /\ hunt'.backend = backend
      /\ hunt'.shown = hunt.shown /\ hunt'.open = hunt.open /\ hunt' \in Hunts
  <2>. HIDE DEF hits
  <2>1. hunt' = [hunt EXCEPT !.hits = hits, !.total = Len(Ranking'), !.backend = backend]
    BY <1>1 DEF hits
  <2>. QED  BY <1>2, <1>4, <1>6, <2>1 DEF Hunts
<1>8. hunt'.hits = Find!PageOf(Ranking, hunt.page)'
  <2>1. Find!PageOf(Ranking, hunt.page)' = Find!PageOf(Ranking', hunt'.page)
    BY DEF Find!PageOf
  <2>. QED  BY <1>7, <2>1
<1>9. HuntShown'
  <2>1. CASE hunt.backend = None
    <3>1. hunt'.page = 1 /\ hunt'.shown = <<>>
      BY <1>2, <1>7, <2>1
    <3>2. DOMAIN hunt'.shown = {} /\ Range(hunt'.shown) = {}
      BY <3>1 DEF Range
    <3>3. \A i \in DOMAIN Ranking' : ~(i =< Behind(hunt'.page))
      BY <1>4, <3>1, PagesAre
    <3>. QED  BY <3>1, <3>2, <3>3 DEF HuntShown, Once
  <2>2. CASE hunt.backend = backend
    <3>1. Ranking' = Ranking
      BY <1>1, <2>2, SameRanking
    <3>2. HuntShown
      BY <1>3, <2>2 DEF HuntInv
    <3>. QED  BY <1>1, <1>7, <2>2, <3>1, <3>2 DEF HuntShown, Behind
  <2>. QED  BY <1>1, <2>1, <2>2
<1>. QED  BY <1>1, <1>2, <1>3, <1>5, <1>7, <1>8, <1>9 DEF HuntInv, Behind

\* The first of what is kept of a sequence is the first of the sequence, where that is kept.
LEMMA KeptFirst ==
  ASSUME NEW U, NEW s \in Seq(U), s # <<>>, NEW T, s[1] \in T
  PROVE  Len(Kept(s, T)) >= 1 /\ Kept(s, T)[1] = s[1]
<1>. DEFINE k == Kept(s, T)
<1>1. k \in Seq(U \cap T) /\ Len(k) \in Nat /\ 1 \in 1 .. Len(s)
  BY KeptIs, LenProperties, EmptySeq
<1>2. PICK at : Keeps(k, s, T, at)
  BY KeptIs
<1>. HIDE DEF k
<1>3. PICK j \in 1 .. Len(k) : at[j] = 1
  BY <1>1, <1>2 DEF Keeps
<1>4. j = 1
  <2>1. 1 \in 1 .. Len(k) /\ at[1] \in 1 .. Len(s)
    BY <1>1, <1>2, <1>3 DEF Keeps
  <2>2. ~(1 < j)
    BY <1>2, <1>3, <2>1 DEF Keeps
  <2>. QED  BY <1>1, <1>3, <2>2
<1>5. k[1] = s[1]
  BY <1>2, <1>3, <1>4 DEF Keeps
<1>. QED  BY <1>1, <1>3, <1>4, <1>5 DEF k

LEMMA ShowKeeps ==
  ASSUME HuntInv, Find!Show
  PROVE  HuntInv'
<1>. SUFFICES ASSUME steady PROVE HuntInv'
  BY DEF Find!Show, HuntInv
<1>. DEFINE P == hunt.page
            a == Behind(P)
            hits == hunt.hits
            cards == Kept(hits, onSale)
            l == IF ResultPage =< Len(Ranking) - a THEN ResultPage ELSE Len(Ranking) - a
<1>1. /\ hunt.open /\ hits # None /\ UNCHANGED <<onSale, indexed, engine, steady, flips>>
      /\ hunt' = [hunt EXCEPT !.shown = hunt.shown \o cards, !.hits = None, !.page = hunt.page + 1,
                              !.open = hunt.page * ResultPage < hunt.total]
  BY SameKept DEF Find!Show, Find!LoadCards
<1>2. /\ onSale \in SUBSET Goods /\ indexed \in SUBSET Goods /\ hunt \in Hunts /\ hunt.backend # None
      /\ P = 1 => hunt.shown = <<>>
      /\ hunt.total = Len(Ranking) /\ hits = Find!PageOf(Ranking, P) /\ HuntShown /\ a =< Len(Ranking)
  BY <1>1 DEF HuntInv
<1>3. /\ P \in Nat \ {0} /\ hunt.shown \in Seq(Goods)
  BY <1>2 DEF Hunts
<1>4. /\ a \in Nat /\ P * ResultPage = a + ResultPage /\ Behind(P + 1) = a + ResultPage /\ ResultPage \in Nat \ {0}
      /\ P = 1 => a = 0
  BY <1>3, PagesAre
<1>5. /\ Ranking \in Seq(Goods) /\ IsInjective(Ranking) /\ Len(Ranking) \in Nat /\ DOMAIN Ranking = 1 .. Len(Ranking)
  BY <1>2, RankingIs
<1>6. /\ hits \in Seq(Goods) /\ Len(hits) = l /\ l \in Nat /\ DOMAIN hits = 1 .. l
      /\ \A i \in 1 .. l : a + i \in 1 .. Len(Ranking) /\ hits[i] = Ranking[a + i]
  <2>1. /\ Find!PageOf(Ranking, P) \in Seq(Goods) /\ Len(Find!PageOf(Ranking, P)) = l /\ l \in Nat
        /\ \A i \in 1 .. l : a + i \in 1 .. Len(Ranking) /\ Find!PageOf(Ranking, P)[i] = Ranking[a + i]
    BY <1>2, <1>3, <1>5, PageOfIs
  <2>. HIDE DEF l, a, P, hits
  <2>. QED  BY <1>2, <2>1, LenProperties
<1>. HIDE DEF hits
<1>7. \A i \in 1 .. Len(Ranking) : a < i /\ i =< a + ResultPage <=> i - a \in 1 .. l
  <2>. HIDE DEF a
  <2>. QED  BY <1>2, <1>4, <1>5
<1>. HIDE DEF l
<1>8. IsInjective(hits)
  <2>1. ASSUME NEW i \in 1 .. l, NEW j \in 1 .. l, hits[i] = hits[j] PROVE i = j
    <3>1. a + i = a + j
      BY <1>5, <1>6, <2>1 DEF IsInjective
    <3>. HIDE DEF a
    <3>. QED  BY <1>4, <1>6, <3>1
  <2>. QED  BY <1>6, <2>1 DEF IsInjective
<1>9. /\ cards \in Seq(Goods) /\ IsInjective(cards) /\ Range(cards) = Range(hits) \cap onSale
  <2>1. cards \in Seq(Goods \cap onSale) /\ IsInjective(cards) /\ Range(cards) = Range(hits) \cap onSale
    BY <1>6, <1>8, KeptOnce
  <2>. HIDE DEF cards
  <2>. QED  BY <2>1
<1>. HIDE DEF cards
<1>10. /\ hunt.shown \o cards \in Seq(Goods) /\ Range(hunt.shown \o cards) = Range(hunt.shown) \cup Range(cards)
       /\ DOMAIN (hunt.shown \o cards) = 1 .. Len(hunt.shown) + Len(cards)
       /\ Len(hunt.shown) \in Nat /\ Len(cards) \in Nat
       /\ \A i \in 1 .. Len(hunt.shown) + Len(cards) :
            (hunt.shown \o cards)[i] = IF i =< Len(hunt.shown) THEN hunt.shown[i] ELSE cards[i - Len(hunt.shown)]
       /\ \A p : Once(hunt.shown, p) /\ Once(cards, p) /\ ~(p \in Range(hunt.shown) /\ p \in Range(cards))
                   => Once(hunt.shown \o cards, p)
  BY <1>3, <1>9, Appended
<1>11. /\ hunt'.page = P + 1 /\ hunt'.hits = None /\ hunt'.backend = hunt.backend /\ hunt'.total = hunt.total
       /\ hunt'.shown = hunt.shown \o cards /\ hunt' \in Hunts
       /\ hunt'.open <=> P * ResultPage < hunt.total
  <2>. DEFINE more == hunt.page * ResultPage < hunt.total
  <2>1. more \in BOOLEAN
    OBVIOUS
  <2>2. hunt' = [hunt EXCEPT !.shown = hunt.shown \o cards, !.hits = None, !.page = hunt.page + 1, !.open = more]
    BY <1>1
  <2>. HIDE DEF more
  <2>3. hunt' = [page |-> hunt.page + 1, hits |-> None, total |-> hunt.total, backend |-> hunt.backend,
                 shown |-> hunt.shown \o cards, open |-> more]
    BY <1>2, <2>2 DEF Hunts
  <2>4. hunt.page + 1 \in Nat \ {0} /\ hunt.total \in Nat /\ hunt.backend \in {None, "elastic", "postgres"}
    BY <1>2, <1>3 DEF Hunts
  <2>5. hunt' \in Hunts
    BY <1>10, <2>1, <2>3, <2>4 DEF Hunts
  <2>. QED  BY <2>3, <2>5 DEF more
<1>12. Ranking' = Ranking
  BY <1>1, <1>11, SameRanking
<1>13. ASSUME NEW p \in Goods
       PROVE  /\ Once(hunt.shown \o cards, p)
              /\ p \in Range(hunt.shown \o cards) <=>
                   p \in onSale /\ \E i \in DOMAIN Ranking : i =< Behind(P + 1) /\ Ranking[i] = p
  <2>1. /\ Once(hunt.shown, p)
        /\ p \in Range(hunt.shown) <=> p \in onSale /\ \E i \in 1 .. Len(Ranking) : i =< a /\ Ranking[i] = p
    BY <1>2, <1>5 DEF HuntShown
  <2>2. p \in Range(hits) <=> \E i \in 1 .. Len(Ranking) : a < i /\ i =< a + ResultPage /\ Ranking[i] = p
    <3>1. ASSUME p \in Range(hits) PROVE \E i \in 1 .. Len(Ranking) : a < i /\ i =< a + ResultPage /\ Ranking[i] = p
      <4>1. PICK j \in 1 .. l : hits[j] = p
        BY <1>6, <3>1 DEF Range
      <4>2. a + j \in 1 .. Len(Ranking) /\ Ranking[a + j] = p /\ (a + j) - a \in 1 .. l
        BY <1>4, <1>6, <4>1
      <4>. QED  BY <1>7, <4>2
    <3>2. ASSUME NEW i \in 1 .. Len(Ranking), a < i, i =< a + ResultPage, Ranking[i] = p PROVE p \in Range(hits)
      <4>1. i - a \in 1 .. l /\ a + (i - a) = i
        BY <1>4, <1>5, <1>7, <3>2
      <4>2. hits[i - a] = p
        BY <1>6, <3>2, <4>1
      <4>. QED  BY <1>6, <4>1, <4>2 DEF Range
    <3>. QED  BY <3>1, <3>2
  <2>3. Once(cards, p)
    BY <1>9 DEF Once, IsInjective
  <2>4. ~(p \in Range(hunt.shown) /\ p \in Range(cards))
    <3>1. ASSUME p \in Range(hunt.shown), p \in Range(cards) PROVE FALSE
      <4>1. PICK i \in 1 .. Len(Ranking) : i =< a /\ Ranking[i] = p
        BY <2>1, <3>1
      <4>2. PICK j \in 1 .. Len(Ranking) : a < j /\ Ranking[j] = p
        BY <1>9, <2>2, <3>1
      <4>3. i = j
        BY <1>5, <4>1, <4>2 DEF IsInjective
      <4>. HIDE DEF a
      <4>. QED  BY <1>4, <1>5, <4>1, <4>2, <4>3
    <3>. QED  BY <3>1
  <2>5. \A i \in 1 .. Len(Ranking) : i =< a + ResultPage <=> (i =< a \/ (a < i /\ i =< a + ResultPage))
    <3>. HIDE DEF a
    <3>. QED  BY <1>4, <1>5
  <2>6. p \in Range(hunt.shown \o cards) <=>
          p \in onSale /\ \E i \in 1 .. Len(Ranking) : i =< a + ResultPage /\ Ranking[i] = p
    <3>. HIDE DEF a
    <3>. QED  BY <1>9, <1>10, <2>1, <2>2, <2>5
  <2>. QED  BY <1>4, <1>5, <1>10, <2>1, <2>3, <2>4, <2>6
<1>14. ASSUME hunt.backend = "postgres", Ranking # <<>>
       PROVE  hunt.shown \o cards # <<>> /\ (hunt.shown \o cards)[1] = Ranking[1]
  <2>1. CASE P = 1
    <3>1. 1 \in 1 .. Len(Ranking) /\ a = 0
      BY <1>4, <1>5, <1>14, <2>1, EmptySeq
    <3>2. 1 - a \in 1 .. l /\ a + 1 = 1
      <4>. HIDE DEF a
      <4>. QED  BY <1>4, <1>7, <3>1
    <3>3. hits[1] = Ranking[1] /\ hits # <<>>
      <4>1. 1 \in 1 .. l
        BY <3>1, <3>2
      <4>2. hits[1] = Ranking[1]
        BY <1>6, <3>2, <4>1
      <4>. QED  BY <1>6, <4>1, <4>2
    <3>4. Ranking[1] \in onSale
      <4>1. Ranking = Find!SearchProductIds
        BY <1>14 DEF Ranking
      <4>2. Range(Ranking) \subseteq onSale
        BY <1>2, <4>1, PostgresRanks
      <4>. QED  BY <1>5, <3>1, <4>2 DEF Range
    <3>5. Len(cards) >= 1 /\ cards[1] = Ranking[1]
      BY <1>6, <3>3, <3>4, KeptFirst DEF cards
    <3>6. Len(hunt.shown) = 0
      BY <1>2, <2>1
    <3>7. 1 \in 1 .. Len(hunt.shown) + Len(cards) /\ ~(1 =< Len(hunt.shown)) /\ 1 - Len(hunt.shown) = 1
      BY <1>10, <3>5, <3>6
    <3>8. (hunt.shown \o cards)[1] = cards[1] /\ DOMAIN (hunt.shown \o cards) # {}
      BY <1>10, <3>7
    <3>. QED  BY <3>5, <3>8
  <2>2. CASE P # 1
    <3>1. P > 1
      BY <1>3, <2>2
    <3>2. hunt.shown # <<>> /\ hunt.shown[1] = Ranking[1]
      BY <1>2, <1>14, <3>1 DEF HuntShown
    <3>3. 1 =< Len(hunt.shown) /\ 1 \in 1 .. Len(hunt.shown) + Len(cards)
      BY <1>3, <1>10, <3>2, EmptySeq
    <3>4. (hunt.shown \o cards)[1] = hunt.shown[1] /\ DOMAIN (hunt.shown \o cards) # {}
      BY <1>10, <3>3
    <3>. QED  BY <3>2, <3>4
  <2>. QED  BY <2>1, <2>2
<1>15. HuntShown'
  BY <1>1, <1>11, <1>12, <1>13, <1>14 DEF HuntShown, Behind
<1>16. IF hunt'.open THEN Behind(P + 1) =< Len(Ranking) ELSE Len(Ranking) =< Behind(P + 1)
  <2>. HIDE DEF a
  <2>. QED  BY <1>2, <1>4, <1>5, <1>11
<1>17. hunt'.page # 1
  BY <1>3, <1>11
<1>. QED  BY <1>1, <1>2, <1>11, <1>12, <1>15, <1>16, <1>17 DEF HuntInv, Behind

\* Any change of the catalogue, the index or the engine ends the undisturbed search.
LEMMA FlipKeeps ==
  ASSUME Find!Flip
  PROVE  HuntInv'
BY DEF Find!Flip, HuntInv

LEMMA ResultsSound ==
  ASSUME HuntInv
  PROVE  Find!ResultsAreComplete
<1>. SUFFICES ASSUME ~hunt.open, steady
              PROVE  LET found == IF hunt.backend = "postgres"
                                  THEN {p \in onSale : TsRank[p] > 0 \/ p \in CodeHits}
                                  ELSE Find!Range(EsRanking) \cap indexed \cap onSale
                         ghosts == IF hunt.backend = "postgres" THEN {}
                                   ELSE Find!Range(EsRanking) \cap (indexed \ onSale)
                     IN  /\ \A p \in Goods : Find!Occurrences(hunt.shown, p) = IF p \in found THEN 1 ELSE 0
                         /\ hunt.total = Find!Cardinality(found) + Find!Cardinality(ghosts)
                         /\ hunt.backend = "postgres" /\ found \cap CodeHits # {} => hunt.shown[1] \in CodeHits
  BY Zenon DEF Find!ResultsAreComplete
<1>. DEFINE found == IF hunt.backend = "postgres"
                     THEN {p \in onSale : TsRank[p] > 0 \/ p \in CodeHits}
                     ELSE Range(EsRanking) \cap indexed \cap onSale
            ghosts == IF hunt.backend = "postgres" THEN {} ELSE Range(EsRanking) \cap (indexed \ onSale)
<1>1. /\ onSale \in SUBSET Goods /\ indexed \in SUBSET Goods /\ hunt \in Hunts
      /\ hunt.page # 1 /\ hunt.backend # None
      /\ hunt.total = Len(Ranking) /\ HuntShown /\ Len(Ranking) =< Behind(hunt.page)
  BY DEF HuntInv
<1>2. /\ Ranking \in Seq(Goods) /\ IsInjective(Ranking) /\ Len(Ranking) \in Nat /\ DOMAIN Ranking = 1 .. Len(Ranking)
  BY <1>1, RankingIs
<1>3. hunt.page \in Nat \ {0} /\ hunt.shown \in Seq(Goods) /\ Behind(hunt.page) \in Nat
  <2>1. hunt.page \in Nat \ {0} /\ hunt.shown \in Seq(Goods)
    BY <1>1 DEF Hunts
  <2>. QED  BY <2>1, PagesAre
<1>4. /\ Range(Ranking) = found \cup ghosts /\ found \subseteq onSale /\ ghosts \cap onSale = {}
      /\ found \subseteq Goods /\ ghosts \subseteq Goods
      /\ hunt.backend = "postgres" /\ found \cap CodeHits # {} => Ranking[1] \in CodeHits
  <2>1. CASE hunt.backend = "postgres"
    <3>1. Ranking = Find!SearchProductIds
      BY <2>1 DEF Ranking
    <3>. QED  BY <1>1, <2>1, <3>1, PostgresRanks
  <2>2. CASE hunt.backend # "postgres"
    <3>1. Ranking = Find!Kept(EsRanking, indexed)
      BY <2>2 DEF Ranking
    <3>2. Range(Ranking) = Range(EsRanking) \cap indexed
      BY <3>1, IndexRanks
    <3>. QED  BY <1>1, <2>2, <3>2
  <2>. QED  BY <2>1, <2>2
<1>5. /\ Find!Range(EsRanking) = Range(EsRanking)
      /\ \A S : Find!Cardinality(S) = Cardinality(S)
  BY SameHeld, SameCardinality
<1>. HIDE DEF found, ghosts
<1>6. ASSUME NEW p \in Goods
      PROVE  Find!Occurrences(hunt.shown, p) = IF p \in found THEN 1 ELSE 0
  <2>1. /\ Once(hunt.shown, p)
        /\ p \in Range(hunt.shown) <=>
             p \in onSale /\ \E i \in 1 .. Len(Ranking) : i =< Behind(hunt.page) /\ Ranking[i] = p
    BY <1>1, <1>2 DEF HuntShown
  <2>2. \A i \in 1 .. Len(Ranking) : i =< Behind(hunt.page)
    BY <1>1, <1>2, <1>3
  <2>3. p \in Range(Ranking) <=> \E i \in 1 .. Len(Ranking) : Ranking[i] = p
    BY <1>2 DEF Range
  <2>4. p \in Range(hunt.shown) <=> p \in found
    BY <1>4, <2>1, <2>2, <2>3
  <2>5. Cardinality({i \in DOMAIN hunt.shown : hunt.shown[i] = p}) = IF p \in Range(hunt.shown) THEN 1 ELSE 0
    BY <1>3, <2>1, Counted
  <2>. QED  BY <1>5, <2>4, <2>5 DEF Find!Occurrences
<1>7. hunt.total = Find!Cardinality(found) + Find!Cardinality(ghosts)
  <2>1. IsFiniteSet(found) /\ IsFiniteSet(ghosts) /\ Cardinality(found) \in Nat /\ Cardinality(ghosts) \in Nat
    BY <1>4, SearchAssumption, FS_Subset, FS_CardinalityType
  <2>2. found \cap ghosts = {}
    BY <1>4
  <2>3. Cardinality(found \cup ghosts) = Cardinality(found) + Cardinality(ghosts)
    <3>1. Cardinality(found \cup ghosts) = Cardinality(found) + Cardinality(ghosts) - Cardinality(found \cap ghosts)
      BY <2>1, FS_Union
    <3>2. Cardinality(found \cap ghosts) = 0
      BY <2>2, FS_EmptySet
    <3>. QED  BY <2>1, <3>1, <3>2
  <2>4. Cardinality(Range(Ranking)) = Len(Ranking)
    BY <1>2, HeldOnce
  <2>. QED  BY <1>1, <1>4, <1>5, <2>3, <2>4
<1>8. ASSUME hunt.backend = "postgres", found \cap CodeHits # {} PROVE hunt.shown[1] \in CodeHits
  <2>1. Ranking[1] \in CodeHits
    BY <1>4, <1>8
  <2>2. Ranking # <<>>
    <3>1. PICK x \in found : TRUE
      BY <1>8
    <3>2. \E i \in DOMAIN Ranking : Ranking[i] = x
      BY <1>4, <3>1 DEF Range
    <3>. QED  BY <3>2
  <2>3. hunt.page > 1
    BY <1>1, <1>3
  <2>. QED  BY <1>1, <1>8, <2>1, <2>2, <2>3 DEF HuntShown
<1>. QED  BY <1>5, <1>6, <1>7, <1>8 DEF found, ghosts

\* An undisturbed search shows each product found and sold once, on either backend, a code
\* match first (search, search_product_ids, load_cards).
THEOREM ResultsStayComplete == Spec => []ResultsAreComplete
<1>. DEFINE Inv == part = "search" => HuntInv
<1>1. Init => Inv
  BY HuntInit DEF Init
<1>2. Inv /\ [Next]_vars => Inv'
  <2>. SUFFICES ASSUME Inv, [Next]_vars, part = "search" PROVE HuntInv'
    BY PartStep
  <2>1. CASE SearchStep
    <3>1. ASSUME NEW p \in Goods, Find!Toggle(p) \/ Find!Sync(p) PROVE HuntInv'
      BY <3>1, FlipKeeps DEF Find!Toggle, Find!Sync
    <3>2. ASSUME NEW state, Find!Outage(state) PROVE HuntInv'
      BY <3>2, FlipKeeps DEF Find!Outage
    <3>. QED  BY <2>1, <3>1, <3>2, RankKeeps, ShowKeeps DEF SearchStep
  <2>2. CASE UNCHANGED search
    <3>1. UNCHANGED <<onSale, indexed, hunt, steady>>
      BY <2>2 DEF search
    <3>2. Ranking' = Ranking
      BY <3>1, SameRanking
    <3>3. Find!PageOf(Ranking, hunt.page)' = Find!PageOf(Ranking, hunt.page)
      BY <3>1, <3>2 DEF Find!PageOf
    <3>. QED  BY <3>1, <3>2, <3>3 DEF HuntInv, HuntShown, Behind
  <2>. QED  BY <2>1, <2>2, PartStep
<1>3. Inv => ResultsAreComplete
  BY ResultsSound DEF ResultsAreComplete
<1>. QED  BY <1>1, <1>2, <1>3, PTL DEF Spec
=============================================================================
