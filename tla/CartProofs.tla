----------------------------- MODULE CartProofs -----------------------------
(***************************************************************************)
(* LinesAreSound of Cart, for any carts, lines and requests.  The database *)
(* would reject a second line for a product of a cart; the argument that   *)
(* it never has to is about locks.  A cart that a request works on is      *)
(* locked (or not committed yet), so that nothing enters it but what the   *)
(* request itself writes; a row that is written is locked until the        *)
(* commit.  A merge enters lines into one cart only, the user's, which is  *)
(* no other merge's guest, and takes the guest's row last, when every line *)
(* of that cart is among the rows it wrote.                                *)
(*                                                                         *)
(* Then AddCounts and MergedOnce: what was read without a lock is still so *)
(* when it is written, by the lock on the cart it was read in, and units   *)
(* are the elements of a finite set.                                       *)
(***************************************************************************)
EXTENDS Cart, FiniteSetTheorems, TLAPS

-----------------------------------------------------------------------------
\* The inductive invariant.

Holding == {"read", "write", "guest", "load", "fold", "commit"}

\* Two rows for the same product of one cart.
Clash(a, b) == a.cart # None /\ a.cart = b.cart /\ a.sku = b.sku

\* A line in a cart has a product, and the cart is there.
RowsInv ==
  /\ TypeOK
  /\ DOMAIN job = Requests /\ DOMAIN seen = Requests /\ DOMAIN pend = Requests
  /\ \A l \in Lines : lines[l].cart # None =>
       lines[l].sku # None /\ cart[lines[l].cart].status \in {"draft", "converted"}

\* The cart a request works on is locked, or new, and nobody else's.
MineInv(r) ==
  /\ mine[r] # None <=> pc[r] \in Holding
  /\ mine[r] = None => ~isNew[r]
  /\ pc[r] # "idle" => job[r] \in Jobs[r]
  /\ mine[r] # None =>
       /\ IF isNew[r] THEN cart[mine[r]].status = "unused"
          ELSE cartLock[mine[r]] = r /\ cart[mine[r]] = [owner |-> job[r].owner, status |-> "draft"]
       /\ \A q \in Requests : q # r => mine[q] # mine[r]

\* The guest's cart a merge read belongs to the token or is deleted; once its own row is
\* locked, every line of it is among those the merge takes away.
GuestInv(r) ==
  /\ guest[r] # None =>
       /\ pc[r] \in {"load", "fold", "commit"} /\ job[r].kind = "merge" /\ guest[r] # mine[r]
       /\ cart[guest[r]].status # "unused"
       /\ cart[guest[r]].status = "deleted" \/ cart[guest[r]].owner = job[r].token
       /\ \A l \in DOMAIN pend[r] : pend[r][l].cart # guest[r]
  /\ pc[r] = "guest" => job[r].kind = "merge"
  /\ pc[r] \in {"load", "fold"} => guest[r] # None
  /\ pc[r] = "commit" /\ guest[r] # None =>
       cartLock[guest[r]] = r /\ LinesIn(guest[r]) \subseteq DOMAIN pend[r]

\* What a request wrote: rows of its own, that stay in their carts, leave them, or enter
\* the cart it works on.
PendInv(r) ==
  /\ DOMAIN pend[r] # {} => pc[r] \in {"fold", "commit"}
  /\ \A q \in Requests : q # r => DOMAIN pend[q] \cap DOMAIN pend[r] = {}
  /\ \A l \in DOMAIN pend[r] :
       /\ l \in Lines /\ pend[r][l] \in LineRow
       /\ pend[r][l].sku # None
       /\ pend[r][l].cart \in {None, mine[r], lines[l].cart}
       /\ lines[l].sku # None =>
            /\ pend[r][l].sku = lines[l].sku
            /\ pend[r][l].cart \in {None, lines[l].cart} \/ job[r].kind = "merge"

\* No two rows are for the same product of a cart, whichever requests commit.
ApartInv ==
  /\ \A l, m \in Lines : l # m => ~Clash(lines[l], lines[m])
  /\ \A r \in Requests : \A l \in DOMAIN pend[r], m \in Lines :
       l # m => IF m \in DOMAIN pend[r] THEN ~Clash(pend[r][l], pend[r][m])
                ELSE ~Clash(pend[r][l], lines[m])
  /\ \A r, q \in Requests : r # q =>
       \A l \in DOMAIN pend[r], m \in DOMAIN pend[q] : ~Clash(pend[r][l], pend[q][m])

\* What a request read is still all there is in the cart it works on.
SeenInv(r) ==
  /\ \A l \in DOMAIN seen[r] :
       /\ l \in Lines /\ seen[r][l] \in LineRow
       /\ seen[r][l].sku # None /\ seen[r][l].sku = lines[l].sku /\ seen[r][l].cart # None
       /\ \A m \in DOMAIN seen[r] : l # m => ~Clash(seen[r][l], seen[r][m])
  /\ pc[r] = "write" /\ job[r].kind # "remove" => LineOf(mine[r], job[r].sku) \subseteq DOMAIN seen[r]
  /\ pc[r] = "fold" =>
       /\ \A m \in LinesIn(mine[r]) : m \in DOMAIN seen[r] /\ seen[r][m].cart = mine[r]
       /\ \A l \in todo[r] : l \in DOMAIN seen[r] /\ seen[r][l].cart = guest[r]
       /\ \A l \in DOMAIN pend[r] : \E g \in DOMAIN seen[r] \ todo[r] :
            seen[r][g].cart = guest[r] /\ lines[l].sku = lines[g].sku
       /\ \A t \in DOMAIN seen[r] : seen[r][t].cart = mine[r] => lines[t].cart # guest[r]

CartInv ==
  /\ RowsInv /\ ApartInv
  /\ \A r \in Requests : MineInv(r) /\ GuestInv(r) /\ PendInv(r) /\ SeenInv(r)

-----------------------------------------------------------------------------
\* A step of another request.
Stays(q) ==
  /\ pc'[q] = pc[q] /\ job'[q] = job[q] /\ mine'[q] = mine[q] /\ isNew'[q] = isNew[q]
  /\ guest'[q] = guest[q] /\ seen'[q] = seen[q] /\ todo'[q] = todo[q] /\ pend'[q] = pend[q]

\* What r does to its own state, and to rows nobody locked, leaves the others alone.
LEMMA OthersKept ==
  ASSUME CartInv, NEW r \in Requests, UNCHANGED rowVars,
         \A q \in Requests : q # r => Stays(q),
         \A c \in Carts : cartLock[c] \in Requests /\ cartLock[c] # r => cartLock'[c] = cartLock[c],
         mine'[r] # None => \A q \in Requests : q # r => mine[q] # mine'[r],
         \A q \in Requests : q # r => DOMAIN pend'[r] \cap DOMAIN pend[q] = {},
         NEW q \in Requests, q # r
  PROVE  MineInv(q)' /\ GuestInv(q)' /\ PendInv(q)' /\ SeenInv(q)'
<1>1. /\ MineInv(q) /\ GuestInv(q) /\ PendInv(q) /\ SeenInv(q) /\ TypeOK
      /\ Stays(q) /\ cart' = cart /\ lines' = lines
  BY DEF CartInv, RowsInv, rowVars
<1>2. \A p \in Requests : p # q => p = r \/ (mine'[p] = mine[p] /\ pend'[p] = pend[p])
  BY DEF Stays
<1>3. \A c \in Carts : cartLock[c] = q => cartLock'[c] = q
  OBVIOUS
<1>4. mine[q] \in Carts \cup {None} /\ guest[q] \in Carts \cup {None}
  BY <1>1 DEF TypeOK
<1>5. MineInv(q)'
  <2>1. \A p \in Requests : mine[q] # None /\ p # q => mine'[p] # mine'[q]
    BY <1>1, <1>2 DEF Stays, MineInv
  <2>. QED  BY <1>1, <1>3, <1>4, <2>1 DEF Stays, MineInv
<1>6. GuestInv(q)'
  BY <1>1, <1>3, <1>4 DEF Stays, GuestInv, LinesIn
<1>7. PendInv(q)'
  <2>1. \A p \in Requests : p # q => DOMAIN pend'[p] \cap DOMAIN pend'[q] = {}
    BY <1>1, <1>2 DEF Stays, PendInv
  <2>. QED  BY <1>1, <2>1 DEF Stays, PendInv
<1>8. SeenInv(q)'
  BY <1>1 DEF Stays, SeenInv, LineOf, LinesIn
<1>. QED  BY <1>5, <1>6, <1>7, <1>8

\* Rows that nobody writes stay apart.
LEMMA ApartKept ==
  ASSUME ApartInv, lines' = lines,
         \A q \in Requests : pend'[q] = pend[q] \/ DOMAIN pend'[q] = {}
  PROVE  ApartInv'
BY DEF ApartInv

\* What the steps of r owe beside its own part of the invariant.
LEMMA RowsKept ==
  ASSUME CartInv, NEW r \in Requests, UNCHANGED rowVars,
         cartLock' \in [Carts -> Requests \cup {None}],
         \E step \in Steps : pc' = [pc EXCEPT ![r] = step],
         job' = job \/ \E j \in Jobs[r] : job' = [job EXCEPT ![r] = j],
         mine' = mine \/ \E c \in Carts \cup {None} : mine' = [mine EXCEPT ![r] = c],
         isNew' = isNew \/ \E b \in BOOLEAN : isNew' = [isNew EXCEPT ![r] = b],
         guest' = guest \/ \E c \in Carts \cup {None} : guest' = [guest EXCEPT ![r] = c],
         seen' = seen \/ \E f : DOMAIN f \subseteq Lines /\ seen' = [seen EXCEPT ![r] = f],
         todo' = todo \/ \E t \in SUBSET Lines : todo' = [todo EXCEPT ![r] = t],
         pend' = pend \/ \E f : DOMAIN f \subseteq Lines /\ pend' = [pend EXCEPT ![r] = f]
  PROVE  RowsInv' /\ \A q \in Requests : q # r => Stays(q)
<1>1. RowsInv /\ TypeOK
  BY DEF CartInv, RowsInv
<1>2. TypeOK'
  <2>1. pc' \in [Requests -> Steps]
    BY <1>1 DEF TypeOK
  <2>2. \A q \in Requests : job'[q] \in Jobs[q] \cup {NoJob}
    BY <1>1 DEF TypeOK, RowsInv
  <2>3. mine' \in [Requests -> Carts \cup {None}] /\ guest' \in [Requests -> Carts \cup {None}]
    BY <1>1 DEF TypeOK
  <2>4. isNew' \in [Requests -> BOOLEAN] /\ todo' \in [Requests -> SUBSET Lines]
    BY <1>1 DEF TypeOK
  <2>5. \A q \in Requests : DOMAIN seen'[q] \subseteq Lines
    BY <1>1 DEF TypeOK, RowsInv
  <2>6. \A q \in Requests : DOMAIN pend'[q] \subseteq Lines
    BY <1>1 DEF TypeOK, RowsInv
  <2>. QED  BY <1>1, <2>1, <2>2, <2>3, <2>4, <2>5, <2>6 DEF TypeOK, rowVars
<1>3. DOMAIN job' = Requests /\ DOMAIN seen' = Requests /\ DOMAIN pend' = Requests
  BY <1>1 DEF RowsInv
<1>4. RowsInv'
  BY <1>1, <1>2, <1>3 DEF RowsInv, rowVars
<1>5. ASSUME NEW q \in Requests, q # r PROVE Stays(q)
  <2>1. pc'[q] = pc[q] /\ job'[q] = job[q] /\ mine'[q] = mine[q] /\ isNew'[q] = isNew[q]
    BY <1>1, <1>5 DEF TypeOK, RowsInv
  <2>2. guest'[q] = guest[q] /\ seen'[q] = seen[q] /\ todo'[q] = todo[q] /\ pend'[q] = pend[q]
    BY <1>1, <1>5 DEF TypeOK, RowsInv
  <2>. QED  BY <2>1, <2>2 DEF Stays
<1>. QED  BY <1>4, <1>5

\* The invariant after a step of r that leaves the rows alone.
LEMMA StepKept ==
  ASSUME CartInv, NEW r \in Requests, UNCHANGED rowVars, RowsInv', ApartInv',
         \A q \in Requests : q # r => Stays(q),
         \A c \in Carts : cartLock[c] \in Requests /\ cartLock[c] # r => cartLock'[c] = cartLock[c],
         mine'[r] # None => \A q \in Requests : q # r => mine[q] # mine'[r],
         \A q \in Requests : q # r => DOMAIN pend'[r] \cap DOMAIN pend[q] = {},
         MineInv(r)', GuestInv(r)', PendInv(r)', SeenInv(r)'
  PROVE  CartInv'
<1>1. ASSUME NEW q \in Requests, q # r PROVE MineInv(q)' /\ GuestInv(q)' /\ PendInv(q)' /\ SeenInv(q)'
  BY <1>1, OthersKept
<1>2. \A q \in Requests : MineInv(q)' /\ GuestInv(q)' /\ PendInv(q)' /\ SeenInv(q)'
  BY <1>1
<1>. QED  BY <1>2 DEF CartInv

\* The same, when r has written nothing new.
LEMMA ReadKept ==
  ASSUME CartInv, NEW r \in Requests, UNCHANGED <<rowVars, pend>>, RowsInv',
         \A q \in Requests : q # r => Stays(q),
         \A c \in Carts : cartLock[c] \in Requests /\ cartLock[c] # r => cartLock'[c] = cartLock[c],
         mine'[r] # None => \A q \in Requests : q # r => mine[q] # mine'[r],
         MineInv(r)', GuestInv(r)', SeenInv(r)',
         DOMAIN pend[r] # {} => pc'[r] \in {"fold", "commit"} /\ mine'[r] = mine[r] /\ job'[r] = job[r]
  PROVE  CartInv'
<1>1. PendInv(r) /\ ApartInv
  BY DEF CartInv
<1>2. ApartInv'
  BY <1>1, ApartKept DEF rowVars
<1>3. \A q \in Requests : q # r => DOMAIN pend'[r] \cap DOMAIN pend[q] = {}
  BY <1>1 DEF PendInv
<1>4. \A q \in Requests : q # r => DOMAIN pend'[q] \cap DOMAIN pend'[r] = {}
  BY <1>1 DEF PendInv
<1>5. PendInv(r)'
  <2>1. CASE DOMAIN pend[r] = {}
    BY <1>4, <2>1 DEF PendInv
  <2>2. CASE DOMAIN pend[r] # {}
    BY <1>1, <1>4, <2>2 DEF PendInv, rowVars
  <2>. QED  BY <2>1, <2>2
<1>. QED  BY <1>2, <1>3, <1>5, StepKept

LEMMA BeginStep ==
  ASSUME CartInv, NEW r \in Requests, NEW j \in Jobs[r], Begin(r, j)
  PROVE  CartInv'
<1>1. /\ pc[r] = "idle" /\ pc' = [pc EXCEPT ![r] = "resolve"] /\ job' = [job EXCEPT ![r] = j]
      /\ UNCHANGED <<rowVars, cartLock, mine, isNew, guest, seen, todo, pend>>
  BY DEF Begin, Goto
<1>2. RowsInv /\ TypeOK /\ MineInv(r) /\ GuestInv(r) /\ SeenInv(r) /\ PendInv(r)
  BY DEF CartInv, RowsInv
<1>3. pc'[r] = "resolve" /\ job'[r] = j
  BY <1>1, <1>2 DEF TypeOK, RowsInv
<1>4. mine[r] = None /\ guest[r] = None /\ DOMAIN pend[r] = {} /\ ~isNew[r]
  BY <1>1, <1>2 DEF MineInv, GuestInv, PendInv, Holding
<1>5. RowsInv' /\ \A q \in Requests : q # r => Stays(q)
  BY <1>1, <1>2, RowsKept DEF TypeOK, Steps
<1>6. MineInv(r)' /\ GuestInv(r)'
  BY <1>1, <1>3, <1>4 DEF MineInv, GuestInv, Holding
<1>7. SeenInv(r)'
  BY <1>1, <1>2, <1>3 DEF SeenInv, rowVars
<1>. QED  BY <1>1, <1>4, <1>5, <1>6, <1>7, ReadKept

\* A request that fails or is aborted leaves nothing behind.
LEMMA FailStep ==
  ASSUME CartInv, NEW r \in Requests, pc[r] # "idle", Fail(r)
  PROVE  CartInv'
<1>1. /\ pc' = [pc EXCEPT ![r] = "failed"]
      /\ cartLock' = [c \in Carts |-> IF cartLock[c] = r THEN None ELSE cartLock[c]]
      /\ mine' = [mine EXCEPT ![r] = None] /\ isNew' = [isNew EXCEPT ![r] = FALSE]
      /\ guest' = [guest EXCEPT ![r] = None] /\ seen' = [seen EXCEPT ![r] = Empty]
      /\ todo' = [todo EXCEPT ![r] = {}] /\ pend' = [pend EXCEPT ![r] = Empty]
      /\ UNCHANGED <<rowVars, job>>
  BY DEF Fail, End, Goto
<1>2. RowsInv /\ TypeOK /\ MineInv(r) /\ ApartInv
  BY DEF CartInv, RowsInv
<1>3. DOMAIN Empty = {}
  BY DEF Empty
<1>. HIDE DEF Empty
<1>4. /\ pc'[r] = "failed" /\ mine'[r] = None /\ guest'[r] = None /\ isNew'[r] = FALSE
      /\ seen'[r] = Empty /\ pend'[r] = Empty
  BY <1>1, <1>2 DEF TypeOK, RowsInv
<1>5. RowsInv' /\ \A q \in Requests : q # r => Stays(q)
  <2>1. cartLock' \in [Carts -> Requests \cup {None}]
    BY <1>1, <1>2 DEF TypeOK
  <2>2. /\ \E c \in Carts \cup {None} : mine' = [mine EXCEPT ![r] = c]
        /\ \E c \in Carts \cup {None} : guest' = [guest EXCEPT ![r] = c]
        /\ \E b \in BOOLEAN : isNew' = [isNew EXCEPT ![r] = b]
        /\ \E t \in SUBSET Lines : todo' = [todo EXCEPT ![r] = t]
    BY <1>1
  <2>3. /\ \E f : DOMAIN f \subseteq Lines /\ seen' = [seen EXCEPT ![r] = f]
        /\ \E f : DOMAIN f \subseteq Lines /\ pend' = [pend EXCEPT ![r] = f]
    BY <1>1, <1>3
  <2>. QED  BY <1>1, <2>1, <2>2, <2>3, RowsKept DEF Steps
<1>6. MineInv(r)' /\ GuestInv(r)'
  BY <1>1, <1>2, <1>4 DEF MineInv, GuestInv, Holding
<1>7. PendInv(r)' /\ SeenInv(r)'
  BY <1>3, <1>4 DEF PendInv, SeenInv
<1>8. ApartInv'
  <2>1. \A q \in Requests : pend'[q] = pend[q] \/ DOMAIN pend'[q] = {}
    BY <1>3, <1>4, <1>5 DEF Stays
  <2>. QED  BY <1>1, <1>2, <2>1, ApartKept DEF rowVars
<1>9. \A c \in Carts : cartLock[c] \in Requests /\ cartLock[c] # r => cartLock'[c] = cartLock[c]
  BY <1>1
<1>. QED  BY <1>1, <1>3, <1>4, <1>5, <1>6, <1>7, <1>8, <1>9, StepKept

\* The owner's cart is found and locked, or a new one taken.
LEMMA ResolveStep ==
  ASSUME CartInv, NEW r \in Requests, Resolve(r), ~Fail(r)
  PROVE  CartInv'
<1>. DEFINE next == CASE job[r].kind = "merge" -> "guest"
                      [] job[r].kind = "remove" -> "write"
                      [] OTHER -> "read"
<1>1. /\ pc[r] = "resolve" /\ pc' = [pc EXCEPT ![r] = next]
      /\ UNCHANGED <<rowVars, job, guest, seen, todo, pend>>
  BY DEF Resolve, Goto
<1>2. \/ next = "guest" /\ job[r].kind = "merge"
      \/ next = "write" /\ job[r].kind = "remove"
      \/ next = "read"
  OBVIOUS
<1>. HIDE DEF next
<1>3. RowsInv /\ TypeOK /\ MineInv(r) /\ GuestInv(r) /\ SeenInv(r) /\ PendInv(r)
  BY DEF CartInv, RowsInv
<1>4. /\ mine[r] = None /\ guest[r] = None /\ DOMAIN pend[r] = {}
      /\ pc'[r] = next /\ next \in Holding /\ job[r] \in Jobs[r]
  BY <1>1, <1>2, <1>3 DEF MineInv, GuestInv, PendInv, Holding, TypeOK
<1>5. PICK c \in Carts :
        /\ mine' = [mine EXCEPT ![r] = c]
        /\ \A q \in Requests : q # r => mine[q] # c
        /\ \/ /\ cart[c] = [owner |-> job[r].owner, status |-> "draft"]
              /\ cartLock[c] = None /\ cartLock' = [cartLock EXCEPT ![c] = r]
              /\ isNew' = isNew /\ isNew[r] = FALSE
           \/ /\ cart[c].status = "unused" /\ UNCHANGED cartLock
              /\ isNew' = [isNew EXCEPT ![r] = TRUE]
  <2>1. CASE Drafts(job[r].owner) # {}
    <3>1. PICK c \in Drafts(job[r].owner) : /\ cartLock' = [cartLock EXCEPT ![c] = r]
                                            /\ mine' = [mine EXCEPT ![r] = c]
      BY <2>1 DEF Resolve
    <3>2. c \in Carts /\ cart[c] = [owner |-> job[r].owner, status |-> "draft"] /\ cartLock[c] = None
      BY DEF Drafts, Resolve
    <3>3. ASSUME NEW q \in Requests, q # r, mine[q] = c PROVE FALSE
      <4>1. MineInv(q) /\ mine[q] # None
        BY <3>2, <3>3, NoneAssumption DEF CartInv
      <4>. QED  BY <3>2, <3>3, <4>1, NoneAssumption DEF MineInv
    <3>4. isNew' = isNew
      BY <2>1 DEF Resolve
    <3>. QED  BY <1>3, <1>4, <3>1, <3>2, <3>3, <3>4 DEF MineInv, TypeOK
  <2>2. CASE Drafts(job[r].owner) = {}
    <3>1. /\ FreeCarts # {} /\ mine' = [mine EXCEPT ![r] = NewCart]
          /\ isNew' = [isNew EXCEPT ![r] = TRUE] /\ UNCHANGED cartLock
      BY <2>2 DEF Resolve
    <3>2. NewCart \in FreeCarts
      BY <3>1 DEF NewCart
    <3>. QED  BY <3>1, <3>2 DEF FreeCarts
  <2>. QED  BY <2>1, <2>2
<1>6. mine'[r] = c /\ c # None
  BY <1>3, <1>5, NoneAssumption DEF TypeOK
<1>7. MineInv(r)'
  <2>1. \A q \in Requests : q # r => mine'[q] # mine'[r]
    BY <1>3, <1>5, <1>6 DEF TypeOK
  <2>2. IF isNew'[r] THEN cart[c].status = "unused"
        ELSE cartLock'[c] = r /\ cart[c] = [owner |-> job[r].owner, status |-> "draft"]
    BY <1>3, <1>5 DEF TypeOK
  <2>. QED  BY <1>1, <1>4, <1>6, <2>1, <2>2 DEF MineInv, rowVars
<1>8. GuestInv(r)'
  BY <1>1, <1>2, <1>4 DEF GuestInv
<1>9. SeenInv(r)'
  BY <1>1, <1>2, <1>3, <1>4 DEF SeenInv, rowVars
<1>10. RowsInv' /\ \A q \in Requests : q # r => Stays(q)
  <2>1. /\ cartLock' \in [Carts -> Requests \cup {None}]
        /\ isNew' = isNew \/ isNew' = [isNew EXCEPT ![r] = TRUE]
    BY <1>3, <1>5 DEF TypeOK
  <2>. QED  BY <1>1, <1>2, <1>5, <2>1, RowsKept DEF Steps
<1>11. \A d \in Carts : cartLock[d] \in Requests /\ cartLock[d] # r => cartLock'[d] = cartLock[d]
  BY <1>3, <1>5, NoneAssumption DEF TypeOK
<1>. QED  BY <1>1, <1>4, <1>5, <1>6, <1>7, <1>8, <1>9, <1>10, <1>11, ReadKept

\* The line is read while nobody else can enter one into the cart.
LEMMA ReadItemStep ==
  ASSUME CartInv, NEW r \in Requests, ReadItem(r), ~Fail(r)
  PROVE  CartInv'
<1>. DEFINE found == LineOf(mine[r], job[r].sku)
<1>1. /\ pc[r] = "read" /\ pc' = [pc EXCEPT ![r] = "write"]
      /\ seen' = [seen EXCEPT ![r] = [l \in found |-> lines[l]]]
      /\ UNCHANGED <<rowVars, cartLock, job, mine, isNew, guest, todo, pend>>
  BY DEF ReadItem, Goto
<1>2. RowsInv /\ TypeOK /\ MineInv(r) /\ GuestInv(r) /\ PendInv(r) /\ ApartInv
  BY DEF CartInv, RowsInv
<1>3. /\ pc'[r] = "write" /\ seen'[r] = [l \in found |-> lines[l]]
      /\ mine[r] # None /\ guest[r] = None /\ DOMAIN pend[r] = {}
  BY <1>1, <1>2 DEF TypeOK, RowsInv, MineInv, GuestInv, PendInv, Holding
<1>4. \A l \in found : l \in Lines /\ lines[l].cart = mine[r] /\ lines[l].sku # None /\ lines[l] \in LineRow
  BY <1>2, <1>3 DEF LineOf, RowsInv, TypeOK
<1>5. RowsInv' /\ \A q \in Requests : q # r => Stays(q)
  <2>1. \E f : DOMAIN f \subseteq Lines /\ seen' = [seen EXCEPT ![r] = f]
    BY <1>1 DEF LineOf
  <2>. QED  BY <1>1, <1>2, <2>1, RowsKept DEF TypeOK, Steps
<1>6. MineInv(r)' /\ GuestInv(r)'
  <2>1. \A q \in Requests : q # r => mine'[q] # mine'[r]
    BY <1>1, <1>2, <1>3 DEF MineInv
  <2>. QED  BY <1>1, <1>2, <1>3, <2>1 DEF MineInv, GuestInv, Holding, rowVars
<1>7. SeenInv(r)'
  <2>1. LineOf(mine[r], job[r].sku)' = found
    BY <1>1 DEF LineOf, rowVars
  <2>. HIDE DEF found
  <2>2. \A l, m \in found : l # m => ~Clash(lines[l], lines[m])
    BY <1>2, <1>4 DEF ApartInv
  <2>. QED  BY <1>1, <1>3, <1>4, <2>1, <2>2 DEF SeenInv, rowVars
<1>. QED  BY <1>1, <1>2, <1>3, <1>5, <1>6, <1>7, ReadKept DEF MineInv

LEMMA ReadGuestStep ==
  ASSUME CartInv, NEW r \in Requests, ReadGuest(r), ~Fail(r)
  PROVE  CartInv'
<1>1. RowsInv /\ TypeOK /\ MineInv(r) /\ GuestInv(r) /\ PendInv(r) /\ SeenInv(r)
  BY DEF CartInv, RowsInv
<1>2. pc[r] = "guest" /\ mine[r] # None /\ guest[r] = None /\ DOMAIN pend[r] = {}
  BY <1>1 DEF ReadGuest, MineInv, GuestInv, PendInv, Holding
<1>3. CASE Drafts(job[r].token) = {}
  <2>1. pc' = [pc EXCEPT ![r] = "commit"] /\ UNCHANGED <<rowVars, cartLock, reqVars>>
    BY <1>3 DEF ReadGuest, Goto
  <2>2. pc'[r] = "commit"
    BY <1>1, <2>1 DEF TypeOK
  <2>3. RowsInv' /\ \A q \in Requests : q # r => Stays(q)
    BY <1>1, <2>1, RowsKept DEF TypeOK, Steps, reqVars
  <2>4. MineInv(r)'
    BY <1>1, <1>2, <2>1, <2>2 DEF MineInv, Holding, rowVars, reqVars
  <2>5. GuestInv(r)' /\ SeenInv(r)'
    BY <1>1, <1>2, <2>1, <2>2 DEF GuestInv, SeenInv, rowVars, reqVars
  <2>. QED  BY <1>1, <1>2, <2>1, <2>2, <2>3, <2>4, <2>5, ReadKept DEF MineInv, reqVars
<1>4. CASE Drafts(job[r].token) # {}
  <2>1. PICK c \in Drafts(job[r].token) :
          /\ guest' = [guest EXCEPT ![r] = c] /\ pc' = [pc EXCEPT ![r] = "load"]
          /\ UNCHANGED <<rowVars, cartLock, job, mine, isNew, seen, todo, pend>>
    BY <1>4 DEF ReadGuest, Goto
  <2>2. /\ c \in Carts /\ c # None /\ cart[c] = [owner |-> job[r].token, status |-> "draft"]
        /\ pc'[r] = "load" /\ guest'[r] = c
    BY <1>1, <2>1, NoneAssumption DEF Drafts, TypeOK
  <2>3. RowsInv' /\ \A q \in Requests : q # r => Stays(q)
    BY <1>1, <2>1, <2>2, RowsKept DEF TypeOK, Steps
  <2>4. MineInv(r)' /\ SeenInv(r)'
    BY <1>1, <1>2, <2>1, <2>2 DEF MineInv, SeenInv, Holding, rowVars
  <2>5. GuestInv(r)'
    <3>1. job[r].kind = "merge" /\ job[r].token # job[r].owner
      BY <1>1, <1>2, TokensAssumption DEF GuestInv, MineInv
    <3>2. c # mine[r]
      BY <1>1, <1>2, <2>2, <3>1 DEF MineInv
    <3>. QED  BY <1>2, <2>1, <2>2, <3>1, <3>2 DEF GuestInv, rowVars
  <2>. QED  BY <1>1, <1>2, <2>1, <2>2, <2>3, <2>4, <2>5, ReadKept DEF MineInv
<1>. QED  BY <1>3, <1>4

\* A merge reads the lines of both carts.
LEMMA LoadLinesStep ==
  ASSUME CartInv, NEW r \in Requests, LoadLines(r)
  PROVE  CartInv'
<1>. DEFINE read == LinesIn(mine[r]) \cup LinesIn(guest[r])
<1>1. /\ pc[r] = "load" /\ pc' = [pc EXCEPT ![r] = "fold"]
      /\ seen' = [seen EXCEPT ![r] = [l \in read |-> lines[l]]]
      /\ todo' = [todo EXCEPT ![r] = LinesIn(guest[r])]
      /\ UNCHANGED <<rowVars, cartLock, job, mine, isNew, guest, pend>>
  BY DEF LoadLines, Goto
<1>2. RowsInv /\ TypeOK /\ MineInv(r) /\ GuestInv(r) /\ PendInv(r) /\ ApartInv
  BY DEF CartInv, RowsInv
<1>3. /\ pc'[r] = "fold" /\ seen'[r] = [l \in read |-> lines[l]] /\ todo'[r] = LinesIn(guest[r])
      /\ mine[r] # None /\ guest[r] # None /\ guest[r] # mine[r] /\ DOMAIN pend[r] = {}
  BY <1>1, <1>2 DEF TypeOK, RowsInv, MineInv, GuestInv, PendInv, Holding
<1>4. \A l \in read : /\ l \in Lines /\ lines[l].cart \in {mine[r], guest[r]} /\ lines[l].cart # None
                      /\ lines[l].sku # None /\ lines[l] \in LineRow
  BY <1>2, <1>3 DEF LinesIn, RowsInv, TypeOK
<1>5. RowsInv' /\ \A q \in Requests : q # r => Stays(q)
  <2>1. \E f : DOMAIN f \subseteq Lines /\ seen' = [seen EXCEPT ![r] = f]
    BY <1>1 DEF LinesIn
  <2>2. LinesIn(guest[r]) \in SUBSET Lines
    BY DEF LinesIn
  <2>. QED  BY <1>1, <1>2, <2>1, <2>2, RowsKept DEF TypeOK, Steps
<1>6. MineInv(r)' /\ GuestInv(r)'
  <2>1. \A q \in Requests : q # r => mine'[q] # mine'[r]
    BY <1>1, <1>2, <1>3 DEF MineInv
  <2>. QED  BY <1>1, <1>2, <1>3, <2>1 DEF MineInv, GuestInv, Holding, rowVars
<1>7. SeenInv(r)'
  <2>1. LinesIn(mine[r])' = LinesIn(mine[r]) /\ LinesIn(guest[r])' = LinesIn(guest[r])
    BY <1>1 DEF LinesIn, rowVars
  <2>2. \A l, m \in read : l # m => ~Clash(lines[l], lines[m])
    BY <1>2, <1>4 DEF ApartInv
  <2>3. /\ \A m \in LinesIn(mine[r]) : m \in read /\ lines[m].cart = mine[r]
        /\ \A l \in LinesIn(guest[r]) : l \in read /\ lines[l].cart = guest[r]
    BY DEF LinesIn
  <2>. HIDE DEF read
  <2>. QED  BY <1>1, <1>3, <1>4, <2>1, <2>2, <2>3 DEF SeenInv, rowVars
<1>. QED  BY <1>1, <1>2, <1>3, <1>5, <1>6, <1>7, ReadKept DEF MineInv

\* The guest's row is locked once every line of it is written.
LEMMA DropGuestStep ==
  ASSUME CartInv, NEW r \in Requests, DropGuest(r), ~Fail(r)
  PROVE  CartInv'
<1>1. /\ pc[r] = "fold" /\ pc' = [pc EXCEPT ![r] = "commit"]
      /\ cartLock[guest[r]] = None /\ cartLock' = [cartLock EXCEPT ![guest[r]] = r]
      /\ LinesIn(guest[r]) \subseteq DOMAIN pend[r]
      /\ UNCHANGED <<rowVars, job, mine, isNew, guest, seen, todo, pend>>
  BY DEF DropGuest, Goto, reqVars
<1>2. RowsInv /\ TypeOK /\ MineInv(r) /\ GuestInv(r) /\ SeenInv(r)
  BY DEF CartInv, RowsInv
<1>3. /\ pc'[r] = "commit" /\ guest[r] \in Carts /\ guest[r] # None /\ mine[r] # None
      /\ cartLock'[guest[r]] = r
  BY <1>1, <1>2 DEF TypeOK, MineInv, GuestInv, Holding
<1>4. \A c \in Carts : cartLock[c] \in Requests => cartLock'[c] = cartLock[c]
  BY <1>1, <1>2, NoneAssumption DEF TypeOK
<1>5. RowsInv' /\ \A q \in Requests : q # r => Stays(q)
  BY <1>1, <1>2, RowsKept DEF TypeOK, Steps
<1>6. MineInv(r)'
  <2>1. \A q \in Requests : q # r => mine'[q] # mine'[r]
    BY <1>1, <1>2, <1>3 DEF MineInv
  <2>2. ~isNew[r] => cartLock'[mine[r]] = r
    BY <1>1, <1>2, <1>3, <1>4 DEF MineInv, TypeOK
  <2>. QED  BY <1>1, <1>2, <1>3, <2>1, <2>2 DEF MineInv, Holding, rowVars
<1>7. GuestInv(r)'
  BY <1>1, <1>2, <1>3 DEF GuestInv, LinesIn, rowVars
<1>8. SeenInv(r)'
  BY <1>1, <1>2, <1>3 DEF SeenInv, rowVars
<1>. QED  BY <1>1, <1>2, <1>3, <1>4, <1>5, <1>6, <1>7, <1>8, ReadKept DEF MineInv

-----------------------------------------------------------------------------
\* A row that a request may write: it leaves its cart, stays in it, or enters the cart
\* the request works on, where nothing is for the same product.
Sound(r, w, l) ==
  /\ w[l] \in LineRow /\ w[l].sku # None
  /\ lines[l].sku # None => w[l].sku = lines[l].sku
  /\ guest[r] # None => w[l].cart # guest[r]
  /\ \/ w[l].cart = None
     \/ w[l].cart = lines[l].cart
     \/ /\ DOMAIN w = {l} /\ w[l].cart = mine[r]
        /\ lines[l].sku # None => job[r].kind = "merge"
        /\ \A m \in Lines : l # m => ~Clash(w[l], lines[m])
        /\ \A m \in DOMAIN pend[r] : ~Clash(w[l], pend[r][m])

\* What r writes stays apart from every row, as it is and as it may become.
LEMMA WrittenApart ==
  ASSUME CartInv, NEW r \in Requests, NEW w, mine[r] # None,
         \A l \in DOMAIN w : l \in Lines /\ Unlocked(l, r) /\ l \notin DOMAIN pend[r] /\ Sound(r, w, l)
  PROVE  \A l \in DOMAIN w, m \in Lines : l # m =>
           /\ IF m \in DOMAIN w THEN ~Clash(w[l], w[m]) ELSE ~Clash(w[l], lines[m])
           /\ m \in DOMAIN pend[r] => ~Clash(w[l], pend[r][m])
           /\ \A q \in Requests : q # r /\ m \in DOMAIN pend[q] => ~Clash(w[l], pend[q][m])
<1>. SUFFICES ASSUME NEW l \in DOMAIN w, NEW m \in Lines, l # m
              PROVE  /\ IF m \in DOMAIN w THEN ~Clash(w[l], w[m]) ELSE ~Clash(w[l], lines[m])
                     /\ m \in DOMAIN pend[r] => ~Clash(w[l], pend[r][m])
                     /\ \A q \in Requests : q # r /\ m \in DOMAIN pend[q] => ~Clash(w[l], pend[q][m])
  OBVIOUS
<1>1. /\ RowsInv /\ ApartInv /\ TypeOK /\ l \in Lines /\ Sound(r, w, l)
      /\ \A q \in Requests : l \notin DOMAIN pend[q]
  BY DEF CartInv, RowsInv, Unlocked
<1>2. CASE w[l].cart = None
  BY <1>2 DEF Clash
<1>3. CASE w[l].cart # None /\ w[l].cart = lines[l].cart
  <2>1. w[l].sku = lines[l].sku
    BY <1>1, <1>3 DEF RowsInv, Sound
  <2>2. \A x : Clash(w[l], x) => Clash(lines[l], x) /\ Clash(x, lines[l])
    BY <1>3, <2>1 DEF Clash
  <2>3. ~Clash(w[l], lines[m])
    BY <1>1, <2>2 DEF ApartInv
  <2>4. \A q \in Requests : m \in DOMAIN pend[q] => ~Clash(w[l], pend[q][m])
    BY <1>1, <2>2 DEF ApartInv
  <2>5. m \in DOMAIN w => ~Clash(w[l], w[m])
    <3>1. CASE m \in DOMAIN w /\ w[m].cart = lines[m].cart /\ w[m].cart # None
      <4>1. w[m].sku = lines[m].sku
        BY <1>1, <3>1 DEF RowsInv, Sound
      <4>. QED  BY <2>3, <3>1, <4>1 DEF Clash
    <3>2. CASE m \in DOMAIN w /\ w[m].cart = None
      BY <1>3, <3>2 DEF Clash
    <3>3. m \in DOMAIN w => Sound(r, w, m) /\ DOMAIN w # {m}
      OBVIOUS
    <3>. QED  BY <3>1, <3>2, <3>3 DEF Sound
  <2>. QED  BY <2>3, <2>4, <2>5
<1>4. CASE w[l].cart # None /\ w[l].cart # lines[l].cart
  <2>1. /\ DOMAIN w = {l} /\ w[l].cart = mine[r]
        /\ \A x \in Lines : l # x => ~Clash(w[l], lines[x])
        /\ \A x \in DOMAIN pend[r] : ~Clash(w[l], pend[r][x])
    BY <1>1, <1>4 DEF Sound
  <2>2. ASSUME NEW q \in Requests, q # r, m \in DOMAIN pend[q], Clash(w[l], pend[q][m])
        PROVE  FALSE
    <3>1. PendInv(q) /\ MineInv(r)
      BY DEF CartInv
    <3>2. lines[m].cart = mine[r]
      BY <2>1, <2>2, <3>1 DEF PendInv, MineInv, Clash
    <3>3. lines[m].sku # None /\ pend[q][m].sku = lines[m].sku
      BY <1>1, <2>2, <3>1, <3>2 DEF RowsInv, PendInv
    <3>. QED  BY <2>1, <2>2, <3>2, <3>3 DEF Clash
  <2>. QED  BY <2>1, <2>2
<1>. QED  BY <1>2, <1>3, <1>4

\* The invariant after a write.
LEMMA WriteKept ==
  ASSUME CartInv, NEW r \in Requests, NEW w, Wrote(r, w), mine[r] # None,
         UNCHANGED <<rowVars, cartLock, job, mine, isNew, guest, seen>>,
         \/ pc[r] = "write" /\ pc' = [pc EXCEPT ![r] = "commit"] /\ todo' = todo
         \/ /\ pc[r] = "fold" /\ pc' = pc
            /\ \E t \in todo[r] : todo' = [todo EXCEPT ![r] = todo[r] \ {t}]
            /\ \A l \in DOMAIN w : \E g \in DOMAIN seen[r] \ todo'[r] :
                 seen[r][g].cart = guest[r] /\ lines[l].sku = lines[g].sku,
         \A l \in DOMAIN w : l \in Lines /\ Unlocked(l, r) /\ l \notin DOMAIN pend[r] /\ Sound(r, w, l)
  PROVE  CartInv'
<1>1. RowsInv /\ ApartInv /\ TypeOK /\ MineInv(r) /\ GuestInv(r) /\ PendInv(r) /\ SeenInv(r)
  BY DEF CartInv, RowsInv
<1>. DEFINE new == Over(w, pend[r])
<1>2. pend' = [pend EXCEPT ![r] = new] /\ pend'[r] = new
  BY <1>1 DEF Wrote, RowsInv
<1>3. /\ DOMAIN new = DOMAIN w \cup DOMAIN pend[r]
      /\ \A l \in DOMAIN new : new[l] = IF l \in DOMAIN w THEN w[l] ELSE pend[r][l]
  BY DEF Over
<1>. HIDE DEF new
<1>4. pc'[r] \in {"fold", "commit"} /\ (pc'[r] = "fold" <=> pc[r] = "fold")
  BY <1>1 DEF TypeOK
<1>5. RowsInv' /\ \A q \in Requests : q # r => Stays(q)
  <2>1. \E f : DOMAIN f \subseteq Lines /\ pend' = [pend EXCEPT ![r] = f]
    BY <1>1, <1>2, <1>3 DEF TypeOK
  <2>2. todo' = todo \/ \E t \in SUBSET Lines : todo' = [todo EXCEPT ![r] = t]
    BY <1>1 DEF TypeOK
  <2>3. \E step \in Steps : pc' = [pc EXCEPT ![r] = step]
    BY <1>1 DEF TypeOK, Steps
  <2>. QED  BY <1>1, <2>1, <2>2, <2>3, RowsKept DEF TypeOK, Steps
<1>6. \A q \in Requests : q # r => pend'[q] = pend[q]
  BY <1>5 DEF Stays
<1>7. ApartInv'
  <2>1. \A l \in DOMAIN w, m \in Lines : l # m =>
           /\ IF m \in DOMAIN w THEN ~Clash(w[l], w[m]) ELSE ~Clash(w[l], lines[m])
           /\ m \in DOMAIN pend[r] => ~Clash(w[l], pend[r][m])
           /\ \A q \in Requests : q # r /\ m \in DOMAIN pend[q] => ~Clash(w[l], pend[q][m])
    BY WrittenApart
  <2>2. \A x, y : Clash(x, y) <=> Clash(y, x)
    BY DEF Clash
  <2>3. ASSUME NEW l \in DOMAIN new, NEW m \in Lines, l # m
        PROVE  IF m \in DOMAIN new THEN ~Clash(new[l], new[m]) ELSE ~Clash(new[l], lines[m])
    <3>1. CASE l \in DOMAIN w
      BY <1>3, <2>1, <2>3, <3>1
    <3>2. CASE l \notin DOMAIN w /\ m \in DOMAIN w
      <4>1. l \in Lines /\ l \in DOMAIN pend[r]
        BY <1>1, <1>3, <2>3, <3>2 DEF TypeOK
      <4>. QED  BY <1>3, <2>1, <2>2, <2>3, <3>2, <4>1
    <3>3. CASE l \notin DOMAIN w /\ m \notin DOMAIN w
      BY <1>1, <1>3, <2>3, <3>3 DEF ApartInv
    <3>. QED  BY <3>1, <3>2, <3>3
  <2>4. ASSUME NEW q \in Requests, q # r, NEW l \in DOMAIN new, NEW m \in DOMAIN pend[q]
        PROVE  ~Clash(new[l], pend[q][m])
    <3>1. m \in Lines /\ m \notin DOMAIN w
      BY <1>1, <2>4 DEF TypeOK, Unlocked
    <3>. QED  BY <1>1, <1>3, <2>1, <2>4, <3>1 DEF ApartInv
  <2>5. lines' = lines
    BY DEF rowVars
  <2>. QED  BY <1>1, <1>2, <1>6, <2>2, <2>3, <2>4, <2>5 DEF ApartInv
<1>8. \A q \in Requests : q # r => DOMAIN pend'[r] \cap DOMAIN pend[q] = {}
  BY <1>1, <1>2, <1>3 DEF PendInv, Unlocked
<1>9. MineInv(r)'
  <2>1. \A q \in Requests : q # r => mine'[q] # mine'[r]
    BY <1>1 DEF MineInv
  <2>. QED  BY <1>1, <1>4, <2>1 DEF MineInv, Holding, rowVars
<1>10. GuestInv(r)'
  <2>1. guest[r] # None => pc[r] = "fold" /\ \A l \in DOMAIN new : new[l].cart # guest[r]
    BY <1>1, <1>3 DEF GuestInv, Sound
  <2>. QED  BY <1>1, <1>2, <1>4, <2>1 DEF GuestInv, rowVars
<1>11. PendInv(r)'
  <2>1. ASSUME NEW l \in DOMAIN new
        PROVE  /\ l \in Lines /\ new[l] \in LineRow
               /\ new[l].sku # None
               /\ new[l].cart \in {None, mine[r], lines[l].cart}
               /\ lines[l].sku # None =>
                    /\ new[l].sku = lines[l].sku
                    /\ new[l].cart \in {None, lines[l].cart} \/ job[r].kind = "merge"
    <3>1. CASE l \in DOMAIN w
      BY <1>3, <3>1 DEF Sound
    <3>2. CASE l \notin DOMAIN w
      BY <1>1, <1>3, <3>2 DEF PendInv
    <3>. QED  BY <3>1, <3>2
  <2>2. \A q \in Requests : q # r => DOMAIN pend'[q] \cap DOMAIN pend'[r] = {}
    BY <1>6, <1>8
  <2>. QED  BY <1>2, <1>4, <2>1, <2>2 DEF PendInv, rowVars
<1>12. SeenInv(r)'
  <2>1. CASE pc[r] = "write"
    BY <1>1, <1>4, <2>1 DEF SeenInv, rowVars
  <2>2. CASE pc[r] = "fold"
    <3>1. todo'[r] \subseteq todo[r]
      BY <1>1, <2>2 DEF TypeOK
    <3>2. \A l \in DOMAIN new : \E g \in DOMAIN seen[r] \ todo'[r] :
            seen[r][g].cart = guest[r] /\ lines[l].sku = lines[g].sku
      BY <1>1, <1>3, <2>2, <3>1 DEF SeenInv
    <3>. QED  BY <1>1, <1>2, <1>4, <2>2, <3>1, <3>2 DEF SeenInv, LinesIn, rowVars
  <2>. QED  BY <2>1, <2>2
<1>. QED  BY <1>1, <1>5, <1>7, <1>8, <1>9, <1>10, <1>11, <1>12, StepKept DEF MineInv

LEMMA InsertItemStep ==
  ASSUME CartInv, NEW r \in Requests, InsertItem(r)
  PROVE  CartInv'
<1>. DEFINE l == NewLine
            w == [m \in {l} |-> [cart |-> mine[r], sku |-> job[r].sku, qty |-> job[r].n]]
<1>1. RowsInv /\ TypeOK /\ MineInv(r) /\ GuestInv(r) /\ PendInv(r) /\ SeenInv(r)
  BY DEF CartInv, RowsInv
<1>2. /\ pc[r] = "write" /\ pc' = [pc EXCEPT ![r] = "commit"] /\ Wrote(r, w) /\ job[r].kind = "add"
      /\ DOMAIN seen[r] = {} /\ FreeLines # {}
      /\ UNCHANGED <<rowVars, cartLock, job, mine, isNew, guest, seen, todo>>
  BY DEF InsertItem, Goto
<1>3. l \in Lines /\ lines[l] = Free /\ \A q \in Requests : l \notin DOMAIN pend[q]
  BY <1>2 DEF NewLine, FreeLines
<1>. HIDE DEF l
<1>4. /\ mine[r] \in Carts /\ mine[r] # None /\ guest[r] = None /\ DOMAIN pend[r] = {}
      /\ job[r] \in Jobs[r] /\ job[r].sku \in Skus /\ job[r].sku # None /\ job[r].n \in Nat
  BY <1>1, <1>2, JobsAssumption, NoneAssumption DEF TypeOK, MineInv, GuestInv, PendInv, Holding
<1>5. DOMAIN w = {l} /\ w[l] = [cart |-> mine[r], sku |-> job[r].sku, qty |-> job[r].n]
  OBVIOUS
<1>. HIDE DEF w
<1>6. \A m \in Lines : ~Clash(w[l], lines[m])
  BY <1>1, <1>2, <1>4, <1>5 DEF SeenInv, LineOf, Clash
<1>7. Sound(r, w, l)
  BY <1>3, <1>4, <1>5, <1>6 DEF Sound, LineRow, Free
<1>. QED  BY <1>1, <1>2, <1>3, <1>4, <1>5, <1>7, WriteKept DEF Unlocked

\* The quantity is written on the row as it was read.
LEMMA UpdateItemStep ==
  ASSUME CartInv, NEW r \in Requests, UpdateItem(r), ~Fail(r)
  PROVE  CartInv'
<1>1. RowsInv /\ TypeOK /\ MineInv(r) /\ GuestInv(r) /\ PendInv(r) /\ SeenInv(r)
  BY DEF CartInv, RowsInv
<1>2. PICK l \in DOMAIN seen[r] :
        /\ Unlocked(l, r)
        /\ Wrote(r, [m \in {l} |-> [lines[l] EXCEPT !.qty = NewQty(r, l)]])
  BY DEF UpdateItem
<1>. DEFINE w == [m \in {l} |-> [lines[l] EXCEPT !.qty = NewQty(r, l)]]
<1>3. /\ pc[r] = "write" /\ pc' = [pc EXCEPT ![r] = "commit"]
      /\ UNCHANGED <<rowVars, cartLock, job, mine, isNew, guest, seen, todo>>
  BY DEF UpdateItem, Goto
<1>4. /\ mine[r] # None /\ guest[r] = None /\ DOMAIN pend[r] = {}
      /\ job[r] \in Jobs[r] /\ job[r].n \in Nat
  BY <1>1, <1>3, JobsAssumption DEF MineInv, GuestInv, PendInv, Holding
<1>5. l \in Lines /\ lines[l] \in LineRow /\ lines[l].sku # None /\ seen[r][l].qty \in Nat
  BY <1>1 DEF SeenInv, TypeOK, LineRow
<1>6. NewQty(r, l) \in Nat
  BY <1>4, <1>5 DEF NewQty
<1>7. DOMAIN w = {l} /\ w[l] = [lines[l] EXCEPT !.qty = NewQty(r, l)]
  OBVIOUS
<1>8. w[l] \in LineRow /\ w[l].cart = lines[l].cart /\ w[l].sku = lines[l].sku
  BY <1>5, <1>6, <1>7 DEF LineRow
<1>. HIDE DEF w
<1>9. Sound(r, w, l)
  BY <1>4, <1>5, <1>8 DEF Sound
<1>. QED  BY <1>2, <1>3, <1>4, <1>5, <1>7, <1>9, WriteKept DEF w

LEMMA RemoveItemStep ==
  ASSUME CartInv, NEW r \in Requests, RemoveItem(r), ~Fail(r)
  PROVE  CartInv'
<1>. DEFINE found == LineOf(mine[r], job[r].sku)
            w == [l \in found |-> Deleted(l)]
<1>1. RowsInv /\ TypeOK /\ MineInv(r) /\ GuestInv(r) /\ PendInv(r)
  BY DEF CartInv, RowsInv
<1>2. /\ pc[r] = "write" /\ pc' = [pc EXCEPT ![r] = "commit"] /\ Wrote(r, w)
      /\ \A l \in found : Unlocked(l, r)
      /\ UNCHANGED <<rowVars, cartLock, job, mine, isNew, guest, seen, todo>>
  BY DEF RemoveItem, Goto
<1>3. mine[r] # None /\ guest[r] = None /\ DOMAIN pend[r] = {}
  BY <1>1, <1>2 DEF MineInv, GuestInv, PendInv, Holding
<1>4. \A l \in found : l \in Lines /\ lines[l].cart = mine[r]
  BY DEF LineOf
<1>5. DOMAIN w = found /\ \A l \in found : w[l] = Deleted(l)
  OBVIOUS
<1>. HIDE DEF w, found
<1>6. ASSUME NEW l \in found PROVE Sound(r, w, l)
  <2>1. lines[l] \in LineRow /\ lines[l].sku # None
    BY <1>1, <1>3, <1>4 DEF TypeOK, RowsInv
  <2>2. Deleted(l) \in LineRow
    BY <2>1 DEF Deleted, LineRow
  <2>. QED  BY <1>3, <1>5, <2>1, <2>2 DEF Sound, Deleted
<1>. QED  BY <1>1, <1>2, <1>3, <1>4, <1>5, <1>6, WriteKept

\* A line of the guest is added to the user's or moved, where the user has none.
LEMMA FoldLineStep ==
  ASSUME CartInv, NEW r \in Requests, NEW l \in Lines, FoldLine(r, l), ~Fail(r)
  PROVE  CartInv'
<1>1. RowsInv /\ ApartInv /\ TypeOK /\ MineInv(r) /\ GuestInv(r) /\ PendInv(r) /\ SeenInv(r)
  BY DEF CartInv, RowsInv
<1>. DEFINE target == Target(r, l)
            doomed == LineOf(guest[r], seen[r][l].sku)
<1>2. /\ pc[r] = "fold" /\ pc' = pc /\ l \in todo[r]
      /\ todo' = [todo EXCEPT ![r] = todo[r] \ {l}]
      /\ UNCHANGED <<rowVars, cartLock, job, mine, isNew, guest, seen>>
  BY DEF FoldLine
<1>3. /\ mine[r] \in Carts /\ mine[r] # None /\ guest[r] # None /\ guest[r] # mine[r]
      /\ job[r].kind = "merge" /\ todo'[r] = todo[r] \ {l}
      /\ l \in DOMAIN seen[r] \ todo'[r] /\ seen[r][l].cart = guest[r] /\ seen[r][l].sku = lines[l].sku
  BY <1>1, <1>2 DEF MineInv, GuestInv, SeenInv, Holding, TypeOK
\* No other line of the guest's that was read is for the same thing.
<1>4. \A g \in DOMAIN seen[r] : g # l /\ seen[r][g].cart = guest[r] => lines[g].sku # lines[l].sku
  BY <1>1, <1>3 DEF SeenInv, Clash
<1>5. \A m \in DOMAIN pend[r] : lines[m].sku # lines[l].sku
  BY <1>1, <1>2, <1>3, <1>4 DEF SeenInv
<1>6. CASE target = {}
  <2>. DEFINE w == [m \in {l} |-> [lines[l] EXCEPT !.cart = mine[r]]]
  <2>1. Wrote(r, w) /\ Unlocked(l, r) /\ lines[l].cart # None
    BY <1>6 DEF FoldLine
  <2>2. DOMAIN w = {l} /\ w[l] = [lines[l] EXCEPT !.cart = mine[r]]
    OBVIOUS
  <2>3. lines[l] \in LineRow /\ lines[l].sku # None
    BY <1>1, <2>1 DEF RowsInv, TypeOK
  <2>4. w[l] \in LineRow /\ w[l].cart = mine[r] /\ w[l].sku = lines[l].sku
    BY <1>3, <2>2, <2>3 DEF LineRow
  <2>. HIDE DEF w
  <2>5. \A m \in Lines : l # m => ~Clash(w[l], lines[m])
    BY <1>1, <1>2, <1>3, <1>6, <2>4 DEF SeenInv, LinesIn, Target, Clash
  <2>6. \A m \in DOMAIN pend[r] : ~Clash(w[l], pend[r][m])
    <3>1. ASSUME NEW m \in DOMAIN pend[r], Clash(w[l], pend[r][m]) PROVE FALSE
      <4>1. pend[r][m].sku = lines[l].sku /\ lines[m].sku # lines[l].sku
        BY <1>5, <2>4, <3>1 DEF Clash
      <4>2. lines[m].sku # None
        BY <1>1, <1>2, <1>3 DEF SeenInv
      <4>. QED  BY <1>1, <4>1, <4>2 DEF PendInv
    <3>. QED  BY <3>1
  <2>7. Sound(r, w, l)
    BY <1>3, <2>2, <2>3, <2>4, <2>5, <2>6 DEF Sound
  <2>8. l \notin DOMAIN pend[r]
    BY <1>5
  <2>. QED  BY <1>2, <1>3, <2>1, <2>2, <2>7, <2>8, WriteKept
<1>7. CASE target # {}
  <2>. DEFINE u == [t \in target |-> [lines[t] EXCEPT !.qty = seen[r][t].qty + seen[r][l].qty]]
              d == [m \in doomed |-> Deleted(m)]
              w == Over(u, d)
  <2>1. Wrote(r, w) /\ \A m \in target : lines[m].cart # None
    BY <1>7 DEF FoldLine
  <2>2. \A m \in target \cup doomed : Unlocked(m, r)
    BY <1>7 DEF FoldLine
  <2>3. /\ DOMAIN w = target \cup doomed
        /\ \A t \in target : w[t] = [lines[t] EXCEPT !.qty = seen[r][t].qty + seen[r][l].qty]
        /\ \A m \in doomed : m \notin target => w[m] = Deleted(m)
    BY DEF Over
  <2>4. /\ \A t \in target : /\ t \in DOMAIN seen[r] /\ seen[r][t].cart = mine[r]
                             /\ t \in Lines /\ lines[t].sku = lines[l].sku
        /\ \A m \in doomed : m \in Lines /\ lines[m].cart = guest[r] /\ lines[m].sku = lines[l].sku
    BY <1>1, <1>3 DEF Target, LineOf, SeenInv
  <2>. HIDE DEF w, u, d, target, doomed
  <2>5. ASSUME NEW m \in DOMAIN w PROVE Sound(r, w, m)
    <3>1. CASE m \in target
      <4>1. lines[m] \in LineRow /\ seen[r][m].qty + seen[r][l].qty \in Nat
        BY <1>1, <1>3, <2>4, <3>1 DEF SeenInv, TypeOK, LineRow
      <4>2. w[m] \in LineRow /\ w[m].cart = lines[m].cart /\ w[m].sku = lines[m].sku
        BY <2>3, <3>1, <4>1 DEF LineRow
      <4>3. lines[m].sku # None /\ lines[m].cart # guest[r]
        BY <1>1, <1>2, <2>4, <3>1 DEF SeenInv
      <4>. QED  BY <4>2, <4>3 DEF Sound
    <3>2. CASE m \in doomed /\ m \notin target
      <4>1. lines[m] \in LineRow /\ lines[m].sku # None
        BY <1>1, <1>3, <2>4, <3>2 DEF RowsInv, TypeOK
      <4>2. w[m] = Deleted(m) /\ Deleted(m) \in LineRow
        BY <2>3, <3>2, <4>1 DEF Deleted, LineRow
      <4>. QED  BY <1>3, <4>1, <4>2 DEF Sound, Deleted
    <3>. QED  BY <2>3, <3>1, <3>2
  <2>6. \A m \in DOMAIN w : /\ m \in Lines /\ lines[m].sku = lines[l].sku
                            /\ Unlocked(m, r) /\ m \notin DOMAIN pend[r]
    BY <1>5, <2>2, <2>3, <2>4
  <2>. QED  BY <1>2, <1>3, <2>1, <2>5, <2>6, WriteKept
<1>. QED  BY <1>6, <1>7

\* What the commit of r makes of the rows.
LEMMA CommitRows ==
  ASSUME CartInv, NEW r \in Requests, Commit(r)
  PROVE  /\ lines' \in [Lines -> LineRow] /\ cart' \in [Carts -> CartRow]
         /\ \A l \in Lines : /\ lines'[l] = IF l \in DOMAIN pend[r] THEN pend[r][l] ELSE lines[l]
                             /\ lines[l].sku # None => lines'[l].sku = lines[l].sku
                             /\ lines'[l].cart \in {None, mine[r], lines[l].cart}
         /\ cart'[mine[r]].status = "draft" /\ mine[r] \in Carts
         /\ guest[r] # None => cart'[guest[r]].status = "deleted"
         /\ \A c \in Carts : c # guest[r] /\ (c = mine[r] => ~isNew[r]) => cart'[c] = cart[c]
<1>1. RowsInv /\ TypeOK /\ MineInv(r) /\ GuestInv(r) /\ PendInv(r)
  BY DEF CartInv, RowsInv
<1>2. /\ pc[r] = "commit" /\ lines' = Over(pend[r], lines)
      /\ cart' = [c \in Carts |->
                   IF c = mine[r] /\ isNew[r] THEN [owner |-> job[r].owner, status |-> "draft"]
                   ELSE IF c = guest[r] THEN [owner |-> None, status |-> "deleted"]
                   ELSE cart[c]]
  BY DEF Commit
<1>3. mine[r] \in Carts /\ mine[r] # None /\ guest[r] # mine[r] /\ job[r].owner \in Owners
  BY <1>1, <1>2, JobsAssumption DEF MineInv, GuestInv, Holding, TypeOK
<1>4. DOMAIN lines = Lines /\ DOMAIN pend[r] \subseteq Lines
  BY <1>1 DEF TypeOK
<1>5. lines' = [l \in Lines |-> IF l \in DOMAIN pend[r] THEN pend[r][l] ELSE lines[l]]
  BY <1>2, <1>4 DEF Over
<1>6. ASSUME NEW l \in Lines
      PROVE  /\ lines'[l] = IF l \in DOMAIN pend[r] THEN pend[r][l] ELSE lines[l]
             /\ lines'[l] \in LineRow
             /\ lines[l].sku # None => lines'[l].sku = lines[l].sku
             /\ lines'[l].cart \in {None, mine[r], lines[l].cart}
  BY <1>1, <1>5 DEF PendInv, TypeOK
<1>7. lines' \in [Lines -> LineRow]
  BY <1>5, <1>6
<1>8. cart' \in [Carts -> CartRow]
  BY <1>1, <1>2, <1>3 DEF TypeOK, CartRow
<1>9. /\ cart'[mine[r]].status = "draft"
      /\ guest[r] # None => cart'[guest[r]].status = "deleted"
      /\ \A c \in Carts : c # guest[r] /\ (c = mine[r] => ~isNew[r]) => cart'[c] = cart[c]
  BY <1>1, <1>2, <1>3 DEF MineInv, TypeOK
<1>. QED  BY <1>3, <1>6, <1>7, <1>8, <1>9

\* What another request knows stays true when r commits: r has the locks of both carts it
\* changes, and a merge brings lines to a user's cart, which is no other merge's guest.
LEMMA CommitOthers ==
  ASSUME CartInv, NEW r \in Requests, Commit(r), NEW q \in Requests, q # r, Stays(q),
         mine'[r] = None, DOMAIN pend'[r] = {},
         \A p \in Requests : p # r => Stays(p)
  PROVE  MineInv(q)' /\ GuestInv(q)' /\ PendInv(q)' /\ SeenInv(q)'
<1>1. /\ RowsInv /\ TypeOK /\ MineInv(r) /\ GuestInv(r) /\ PendInv(r)
      /\ MineInv(q) /\ GuestInv(q) /\ PendInv(q) /\ SeenInv(q)
  BY DEF CartInv, RowsInv
<1>2. /\ lines' \in [Lines -> LineRow]
      /\ \A l \in Lines : /\ lines'[l] = IF l \in DOMAIN pend[r] THEN pend[r][l] ELSE lines[l]
                          /\ lines[l].sku # None => lines'[l].sku = lines[l].sku
                          /\ lines'[l].cart \in {None, mine[r], lines[l].cart}
      /\ mine[r] \in Carts
      /\ guest[r] # None => cart'[guest[r]].status = "deleted"
      /\ \A c \in Carts : c # guest[r] /\ (c = mine[r] => ~isNew[r]) => cart'[c] = cart[c]
  BY CommitRows
<1>3. /\ pc[r] = "commit" /\ mine[r] # None
      /\ cartLock' = [c \in Carts |-> IF cartLock[c] = r THEN None ELSE cartLock[c]]
  BY <1>2, NoneAssumption DEF Commit, End
<1>4. /\ \A c \in Carts : cartLock[c] = q => cartLock'[c] = q
      /\ guest[r] # None => cartLock[guest[r]] = r
      /\ ~isNew[r] => cartLock[mine[r]] = r
      /\ \A l \in DOMAIN pend[q] : l \in Lines /\ lines'[l] = lines[l]
  BY <1>1, <1>2, <1>3, NoneAssumption DEF MineInv, GuestInv, PendInv
<1>5. mine[q] \in Carts \cup {None} /\ guest[q] \in Carts \cup {None}
  BY <1>1 DEF TypeOK
<1>6. /\ mine[q] # None => mine[q] # mine[r] /\ mine[q] # guest[r] /\ cart'[mine[q]] = cart[mine[q]]
      /\ guest[q] # None => ~(guest[q] = mine[r] /\ isNew[r])
  BY <1>1, <1>2, <1>3, <1>4, <1>5 DEF MineInv, GuestInv
\* No line enters a cart of q.
<1>7. \A l \in Lines : mine[q] # None /\ lines'[l].cart = mine[q] =>
        lines[l].cart = mine[q] /\ lines[l].sku # None
  BY <1>1, <1>2, <1>5, <1>6 DEF RowsInv
<1>8. MineInv(q)'
  <2>1. \A p \in Requests : mine[q] # None /\ p # q => mine'[p] # mine'[q]
    BY <1>1 DEF Stays, MineInv
  <2>. QED  BY <1>1, <1>4, <1>5, <1>6, <2>1 DEF Stays, MineInv
<1>9. GuestInv(q)'
  <2>1. guest[q] # None => /\ cart'[guest[q]].status # "unused"
                           /\ cart'[guest[q]].status = "deleted" \/ cart'[guest[q]].owner = job[q].token
    BY <1>1, <1>2, <1>5, <1>6 DEF GuestInv
  <2>2. ASSUME pc[q] = "commit", guest[q] # None
        PROVE  \A l \in Lines : lines'[l].cart = guest[q] => l \in DOMAIN pend[q]
    <3>1. cartLock[guest[q]] = q /\ guest[q] # mine[r] /\ LinesIn(guest[q]) \subseteq DOMAIN pend[q]
      BY <1>1, <1>3, <1>4, <1>6, <2>2 DEF GuestInv
    <3>. QED  BY <1>2, <2>2, <3>1 DEF LinesIn
  <2>. QED  BY <1>1, <1>4, <1>5, <2>1, <2>2 DEF Stays, GuestInv, LinesIn
<1>10. PendInv(q)'
  <2>1. \A p \in Requests : p # q => DOMAIN pend'[p] \cap DOMAIN pend'[q] = {}
    BY <1>1 DEF Stays, PendInv
  <2>. QED  BY <1>1, <1>4, <2>1 DEF Stays, PendInv
<1>11. SeenInv(q)'
  <2>1. \A l \in DOMAIN seen[q] : lines'[l].sku = lines[l].sku
    BY <1>1, <1>2 DEF SeenInv
  <2>2. pc[q] = "write" /\ job[q].kind # "remove" =>
          \A l \in Lines : lines'[l].cart = mine[q] /\ lines'[l].sku = job[q].sku => l \in DOMAIN seen[q]
    BY <1>1, <1>2, <1>7 DEF SeenInv, MineInv, Holding, LineOf
  <2>3. ASSUME pc[q] = "fold"
        PROVE  /\ \A l \in Lines : lines'[l].cart = mine[q] =>
                    l \in DOMAIN seen[q] /\ seen[q][l].cart = mine[q]
               /\ \A l \in DOMAIN pend[q] : \E g \in DOMAIN seen[q] \ todo[q] :
                    seen[q][g].cart = guest[q] /\ lines'[l].sku = lines'[g].sku
               /\ \A t \in DOMAIN seen[q] : seen[q][t].cart = mine[q] => lines'[t].cart # guest[q]
    <3>1. mine[q] # None /\ guest[q] # None /\ job[q].kind = "merge" /\ job[q] \in Jobs[q]
      BY <1>1, <2>3 DEF MineInv, GuestInv, Holding
    <3>2. \A l \in Lines : lines'[l].cart = mine[q] => l \in DOMAIN seen[q] /\ seen[q][l].cart = mine[q]
      BY <1>1, <1>7, <2>3, <3>1 DEF SeenInv, LinesIn
    <3>3. \A l \in DOMAIN pend[q] : \E g \in DOMAIN seen[q] \ todo[q] :
            seen[q][g].cart = guest[q] /\ lines'[l].sku = lines'[g].sku
      BY <1>1, <1>4, <2>1, <2>3 DEF SeenInv
    <3>4. ASSUME NEW t \in DOMAIN seen[q], seen[q][t].cart = mine[q], lines'[t].cart = guest[q] PROVE FALSE
      <4>1. t \in Lines /\ lines[t].sku # None /\ lines[t].cart # guest[q]
        BY <1>1, <2>3, <3>4 DEF SeenInv
      <4>2. t \in DOMAIN pend[r] /\ pend[r][t].cart = guest[q] /\ guest[q] = mine[r]
        BY <1>2, <3>1, <3>4, <4>1
      <4>3. job[r].kind = "merge" /\ job[r] \in Jobs[r] /\ ~isNew[r]
        BY <1>1, <1>3, <1>6, <3>1, <4>1, <4>2 DEF PendInv, MineInv
      <4>4. cart[mine[r]] = [owner |-> job[r].owner, status |-> "draft"]
        BY <1>1, <1>3, <4>3 DEF MineInv
      <4>5. job[q].token = job[r].owner
        BY <1>1, <3>1, <4>2, <4>4 DEF GuestInv
      <4>. QED  BY <3>1, <4>3, <4>5, TokensAssumption
    <3>. QED  BY <3>2, <3>3, <3>4
  <2>. QED  BY <1>1, <2>1, <2>2, <2>3 DEF Stays, SeenInv, LineOf, LinesIn
<1>. QED  BY <1>8, <1>9, <1>10, <1>11

LEMMA CommitStep ==
  ASSUME CartInv, NEW r \in Requests, Commit(r)
  PROVE  CartInv'
<1>1. /\ RowsInv /\ ApartInv /\ TypeOK /\ MineInv(r) /\ GuestInv(r) /\ PendInv(r)
  BY DEF CartInv, RowsInv
<1>2. /\ pc[r] = "commit" /\ pc' = [pc EXCEPT ![r] = "done"]
      /\ cartLock' = [c \in Carts |-> IF cartLock[c] = r THEN None ELSE cartLock[c]]
      /\ mine' = [mine EXCEPT ![r] = None] /\ isNew' = [isNew EXCEPT ![r] = FALSE]
      /\ guest' = [guest EXCEPT ![r] = None] /\ seen' = [seen EXCEPT ![r] = Empty]
      /\ todo' = [todo EXCEPT ![r] = {}] /\ pend' = [pend EXCEPT ![r] = Empty]
      /\ job' = job
  BY DEF Commit, End, Goto
<1>3. /\ lines' \in [Lines -> LineRow] /\ cart' \in [Carts -> CartRow]
      /\ \A l \in Lines : /\ lines'[l] = IF l \in DOMAIN pend[r] THEN pend[r][l] ELSE lines[l]
                          /\ lines[l].sku # None => lines'[l].sku = lines[l].sku
                          /\ lines'[l].cart \in {None, mine[r], lines[l].cart}
      /\ cart'[mine[r]].status = "draft" /\ mine[r] \in Carts
      /\ guest[r] # None => cart'[guest[r]].status = "deleted"
      /\ \A c \in Carts : c # guest[r] /\ (c = mine[r] => ~isNew[r]) => cart'[c] = cart[c]
  BY CommitRows
<1>4. DOMAIN Empty = {}
  BY DEF Empty
<1>. HIDE DEF Empty
<1>5. /\ pc'[r] = "done" /\ mine'[r] = None /\ isNew'[r] = FALSE /\ guest'[r] = None
      /\ seen'[r] = Empty /\ pend'[r] = Empty
  BY <1>1, <1>2 DEF TypeOK, RowsInv
<1>6. ASSUME NEW q \in Requests, q # r PROVE Stays(q)
  <2>1. pc'[q] = pc[q] /\ job'[q] = job[q] /\ mine'[q] = mine[q] /\ isNew'[q] = isNew[q]
    BY <1>1, <1>2, <1>6 DEF TypeOK, RowsInv
  <2>2. guest'[q] = guest[q] /\ seen'[q] = seen[q] /\ todo'[q] = todo[q] /\ pend'[q] = pend[q]
    BY <1>1, <1>2, <1>6 DEF TypeOK, RowsInv
  <2>. QED  BY <2>1, <2>2 DEF Stays
<1>7. RowsInv'
  <2>1. cartLock' \in [Carts -> Requests \cup {None}]
    BY <1>1, <1>2 DEF TypeOK
  <2>2. /\ pc' \in [Requests -> Steps]
        /\ \A q \in Requests : job'[q] \in Jobs[q] \cup {NoJob}
        /\ mine' \in [Requests -> Carts \cup {None}] /\ guest' \in [Requests -> Carts \cup {None}]
    BY <1>1, <1>2 DEF TypeOK, Steps
  <2>3. /\ isNew' \in [Requests -> BOOLEAN] /\ todo' \in [Requests -> SUBSET Lines]
    BY <1>1, <1>2 DEF TypeOK
  <2>4. \A q \in Requests : DOMAIN seen'[q] \subseteq Lines /\ DOMAIN pend'[q] \subseteq Lines
    BY <1>1, <1>4, <1>5, <1>6 DEF TypeOK, Stays
  <2>5. DOMAIN job' = Requests /\ DOMAIN seen' = Requests /\ DOMAIN pend' = Requests
    BY <1>1, <1>2 DEF RowsInv
  <2>6. ASSUME NEW l \in Lines, lines'[l].cart # None
        PROVE  lines'[l].sku # None /\ cart'[lines'[l].cart].status \in {"draft", "converted"}
    <3>1. lines'[l].cart # guest[r]
      BY <1>1, <1>2, <1>3, <2>6 DEF GuestInv, LinesIn
    <3>2. lines'[l].cart # mine[r] => lines[l].cart = lines'[l].cart /\ lines'[l].cart \in Carts
      BY <1>1, <1>3, <2>6 DEF TypeOK, LineRow
    <3>3. lines'[l].sku # None
      BY <1>1, <1>3, <2>6 DEF RowsInv, PendInv
    <3>. QED  BY <1>1, <1>3, <2>6, <3>1, <3>2, <3>3 DEF RowsInv
  <2>. QED  BY <1>3, <2>1, <2>2, <2>3, <2>4, <2>5, <2>6 DEF RowsInv, TypeOK
<1>8. ApartInv'
  <2>1. \A x, y : Clash(x, y) <=> Clash(y, x)
    BY DEF Clash
  <2>2. \A l, m \in Lines : l # m => ~Clash(lines'[l], lines'[m])
    BY <1>1, <1>3, <2>1 DEF ApartInv
  <2>3. \A q \in Requests : q # r => \A l \in DOMAIN pend[q] : l \in Lines /\ l \notin DOMAIN pend[r]
    BY <1>1 DEF PendInv, TypeOK
  <2>4. ASSUME NEW q \in Requests, q # r, NEW l \in DOMAIN pend[q], NEW m \in Lines, l # m
        PROVE  IF m \in DOMAIN pend[q] THEN ~Clash(pend[q][l], pend[q][m]) ELSE ~Clash(pend[q][l], lines'[m])
    BY <1>1, <1>3, <2>3, <2>4 DEF ApartInv
  <2>5. \A q \in Requests : q # r => pend'[q] = pend[q]
    BY <1>6 DEF Stays
  <2>6. \A p, q \in Requests : p # q =>
          \A l \in DOMAIN pend'[p], m \in DOMAIN pend'[q] : ~Clash(pend'[p][l], pend'[q][m])
    BY <1>1, <1>4, <1>5, <2>5 DEF ApartInv
  <2>7. \A q \in Requests : \A l \in DOMAIN pend'[q], m \in Lines :
          l # m => IF m \in DOMAIN pend'[q] THEN ~Clash(pend'[q][l], pend'[q][m])
                   ELSE ~Clash(pend'[q][l], lines'[m])
    BY <1>4, <1>5, <2>4, <2>5
  <2>. QED  BY <2>2, <2>6, <2>7 DEF ApartInv
<1>9. MineInv(r)' /\ GuestInv(r)' /\ PendInv(r)' /\ SeenInv(r)'
  BY <1>1, <1>2, <1>4, <1>5 DEF MineInv, GuestInv, PendInv, SeenInv, Holding
<1>10. \A q \in Requests : q # r => MineInv(q)' /\ GuestInv(q)' /\ PendInv(q)' /\ SeenInv(q)'
  BY <1>4, <1>5, <1>6, CommitOthers
<1>11. \A q \in Requests : MineInv(q)' /\ GuestInv(q)' /\ PendInv(q)' /\ SeenInv(q)'
  BY <1>9, <1>10
<1>. QED  BY <1>7, <1>8, <1>11 DEF CartInv

\* A cart that is checked out is nobody's to work on: its row is not locked.
LEMMA ConvertStep ==
  ASSUME CartInv, NEW c \in Carts, Convert(c)
  PROVE  CartInv'
<1>1. /\ cart[c].status = "draft" /\ cartLock[c] = None
      /\ cart' = [cart EXCEPT ![c].status = "converted"]
      /\ lines' = lines /\ cartLock' = cartLock /\ pc' = pc /\ job' = job /\ mine' = mine
      /\ isNew' = isNew /\ guest' = guest /\ seen' = seen /\ todo' = todo /\ pend' = pend
  BY DEF Convert, reqVars
<1>2. RowsInv /\ TypeOK /\ ApartInv
  BY DEF CartInv, RowsInv
<1>3. /\ cart' \in [Carts -> CartRow]
      /\ cart'[c].owner = cart[c].owner /\ cart'[c].status = "converted"
      /\ \A d \in Carts : d # c => cart'[d] = cart[d]
  BY <1>1, <1>2 DEF TypeOK, CartRow
<1>4. TypeOK'
  BY <1>1, <1>2, <1>3 DEF TypeOK
<1>5. RowsInv'
  BY <1>1, <1>2, <1>3, <1>4 DEF RowsInv, TypeOK, LineRow
<1>6. ApartInv'
  BY <1>1, <1>2 DEF ApartInv
<1>7. ASSUME NEW r \in Requests PROVE MineInv(r)' /\ GuestInv(r)' /\ PendInv(r)' /\ SeenInv(r)'
  <2>1. /\ MineInv(r) /\ GuestInv(r) /\ PendInv(r) /\ SeenInv(r)
        /\ mine[r] \in Carts \cup {None} /\ guest[r] \in Carts \cup {None}
    BY <1>2 DEF CartInv, TypeOK
  <2>2. mine[r] # None => mine[r] # c
    BY <1>1, <2>1, NoneAssumption DEF MineInv
  <2>3. MineInv(r)'
    BY <1>1, <1>3, <2>1, <2>2 DEF MineInv
  <2>4. GuestInv(r)'
    BY <1>1, <1>3, <2>1 DEF GuestInv, LinesIn
  <2>5. PendInv(r)' /\ SeenInv(r)'
    BY <1>1, <2>1 DEF PendInv, SeenInv, LineOf, LinesIn
  <2>. QED  BY <2>3, <2>4, <2>5
<1>. QED  BY <1>5, <1>6, <1>7 DEF CartInv

LEMMA CartInit == Init => CartInv
<1>. SUFFICES ASSUME Init PROVE CartInv
  OBVIOUS
<1>1. PICK start \in Starts : cart = start.cart /\ lines = start.lines
  BY DEF Init
<1>2. /\ start.cart \in [Carts -> CartRow] /\ start.lines \in [Lines -> LineRow]
      /\ \A l \in Lines : start.lines[l].cart # None =>
           /\ start.cart[start.lines[l].cart].status \in {"draft", "converted"}
           /\ start.lines[l].sku # None
           /\ \A m \in Lines \ {l} : start.lines[m].cart = start.lines[l].cart =>
                start.lines[m].sku # start.lines[l].sku
  BY StartsAssumption
<1>3. DOMAIN Empty = {}
  BY DEF Empty
<1>. HIDE DEF Empty
<1>4. /\ cartLock = [c \in Carts |-> None] /\ pc = [r \in Requests |-> "idle"]
      /\ job = [r \in Requests |-> NoJob] /\ mine = [r \in Requests |-> None]
      /\ isNew = [r \in Requests |-> FALSE] /\ guest = [r \in Requests |-> None]
      /\ seen = [r \in Requests |-> Empty] /\ todo = [r \in Requests |-> {}]
      /\ pend = [r \in Requests |-> Empty]
  BY DEF Init
<1>5. RowsInv
  BY <1>1, <1>2, <1>3, <1>4 DEF RowsInv, TypeOK, Steps
<1>6. ApartInv
  BY <1>1, <1>2, <1>3, <1>4 DEF ApartInv, Clash
<1>7. \A r \in Requests : MineInv(r) /\ GuestInv(r) /\ PendInv(r) /\ SeenInv(r)
  BY <1>3, <1>4 DEF MineInv, GuestInv, PendInv, SeenInv, Holding
<1>. QED  BY <1>5, <1>6, <1>7 DEF CartInv

\* A request that waits for another has begun.
LEMMA DeadlockAbortStep ==
  ASSUME CartInv, NEW r \in Requests, DeadlockAbort(r)
  PROVE  CartInv'
<1>1. Blockers(r) # {} /\ Fail(r)
  BY DEF DeadlockAbort
<1>2. pc[r] # "idle"
  BY <1>1 DEF Blockers
<1>. QED  BY <1>1, <1>2, FailStep

\* One request's next step.
LEMMA AdvanceStep ==
  ASSUME CartInv, NEW r \in Requests, Advance(r)
  PROVE  CartInv'
<1>1. CASE Fail(r)
  <2>1. pc[r] # "idle"
    BY DEF Advance, Resolve, ReadItem, InsertItem, UpdateItem, RemoveItem, ReadGuest, LoadLines, FoldLine,
           DropGuest, Commit
  <2>. QED  BY <1>1, <2>1, FailStep
<1>2. CASE ~Fail(r)
  BY <1>2, ResolveStep, ReadItemStep, InsertItemStep, UpdateItemStep, RemoveItemStep, ReadGuestStep,
     LoadLinesStep, FoldLineStep, DropGuestStep, CommitStep DEF Advance
<1>. QED  BY <1>1, <1>2

LEMMA CartInvariant == Spec => []CartInv
<1>1. CartInv /\ [Next]_vars => CartInv'
  <2>. SUFFICES ASSUME CartInv, [Next]_vars PROVE CartInv'
    OBVIOUS
  <2>1. ASSUME NEW r \in Requests, NEW j \in Jobs[r], Begin(r, j) PROVE CartInv'
    BY <2>1, BeginStep
  <2>2. ASSUME NEW r \in Requests, Advance(r) PROVE CartInv'
    BY <2>2, AdvanceStep
  <2>3. ASSUME NEW r \in Requests, Abort(r) PROVE CartInv'
    BY <2>3, FailStep DEF Abort
  <2>4. ASSUME NEW r \in Requests, DeadlockAbort(r) PROVE CartInv'
    BY <2>4, DeadlockAbortStep
  <2>5. ASSUME NEW c \in Carts, Convert(c) PROVE CartInv'
    BY <2>5, ConvertStep
  <2>6. CASE UNCHANGED vars
    BY <2>6 DEF vars, CartInv, RowsInv, ApartInv, MineInv, GuestInv, PendInv, SeenInv, TypeOK, LineOf, LinesIn
  <2>. QED  BY <2>1, <2>2, <2>3, <2>4, <2>5, <2>6 DEF Next
<1>. QED  BY CartInit, <1>1, PTL DEF Spec

-----------------------------------------------------------------------------
\* The theorem.

\* For any number of carts, lines and requests, whatever is added, set, removed and merged
\* at a time: one line for a product in a cart, and no line without its cart (add_item,
\* set_item, delete_item, merge_guest_into_user).
THEOREM LinesStaySound == Spec => []LinesAreSound
<1>1. CartInv => LinesAreSound
  <2>. SUFFICES ASSUME CartInv PROVE LinesAreSound
    OBVIOUS
  <2>1. TypeOK /\ NoOrphanLines
    BY DEF CartInv, RowsInv, NoOrphanLines
  <2>2. ASSUME NEW c \in Carts, NEW s \in Skus PROVE Cardinality(LineOf(c, s)) =< 1
    <3>1. \A l, m \in LineOf(c, s) : l = m
      BY <2>2, NoneAssumption DEF CartInv, ApartInv, Clash, LineOf
    <3>2. LineOf(c, s) = {} \/ \E l : LineOf(c, s) = {l}
      BY <3>1
    <3>3. Cardinality(LineOf(c, s)) \in {0, 1}
      BY <3>2, FS_EmptySet, FS_Singleton
    <3>. QED  BY <3>3
  <2>. QED  BY <2>1, <2>2 DEF LinesAreSound, OneLinePerProduct
<1>. QED  BY CartInvariant, <1>1, PTL
-----------------------------------------------------------------------------
\* Quantities.  A request computes a quantity from a line it read in the cart it works on.
\* Below: whatever has become of that line since, it has the quantity that was read.  For an
\* owner of one draft cart this is the lock on the cart.  A user may come to have two, when
\* a merge that was sent twice creates a cart each time, and then a line can be carried from
\* one to the other under the request that read it; it is still the same user's.

\* A guest's session token is merged into one user.
OneUserPerToken ==
  \A q, r \in Requests : \A j \in Jobs[q], k \in Jobs[r] :
    j.kind = "merge" /\ k.kind = "merge" /\ j.token = k.token => j.owner = k.owner

IsUser(o) == \E q \in Requests : \E j \in Jobs[q] : j.kind = "merge" /\ j.owner = o

\* The lines a request read in the cart it works on, and those a merge read in the guest's.
Own(r) == {l \in DOMAIN seen[r] : seen[r][l].cart = mine[r]}
Theirs(r) == {l \in DOMAIN seen[r] : seen[r][l].cart = guest[r]}
OwnerOf(l) == cart[lines[l].cart].owner

\* Two requests of one owner work at a time only when one of them creates a cart.
OneEditor ==
  \A r, q \in Requests : r # q /\ mine[r] # None /\ mine[q] # None /\ ~isNew[r] /\ ~isNew[q] =>
    job[r].owner # job[q].owner

\* A line read in the own cart keeps its quantity, there or in another cart of the user.
OwnInv(r) ==
  /\ DOMAIN seen[r] # {} => pc[r] \in {"write", "fold", "commit"}
  /\ pc[r] = "write" => \A l \in DOMAIN seen[r] : seen[r][l].cart = mine[r] /\ seen[r][l].sku = job[r].sku
  /\ \A l \in Own(r) :
       /\ ~isNew[r]
       /\ lines[l].cart # None /\ lines[l].qty = seen[r][l].qty
       /\ lines[l].cart = mine[r] \/ (IsUser(job[r].owner) /\ OwnerOf(l) = job[r].owner)

\* A line read in the guest's cart is there, or gone, or a merge has given it to the user.
TheirsInv(r) ==
  guest[r] # None =>
    \A l \in Theirs(r) : \/ lines[l].cart \in {None, guest[r]}
                         \/ cart[guest[r]].status = "deleted" /\ OwnerOf(l) = job[r].owner

\* What a request writes: a new row, a line of its own in place, the deletion of a line of
\* the cart it works on or of the guest's, or a guest's line moved.
WroteInv(r) ==
  \A l \in DOMAIN pend[r] :
    \/ lines[l] = Free
    \/ l \in Own(r) /\ pend[r][l].cart = lines[l].cart
    \/ pend[r][l].cart = None /\ lines[l].cart # None /\ lines[l].cart \in {mine[r], guest[r]}
    \/ l \in Theirs(r) /\ lines[l].cart # None /\ pend[r][l] = [lines[l] EXCEPT !.cart = mine[r]]

\* An addition has written its units on top of what its line holds.
AddInv(r) ==
  pc[r] = "commit" /\ job[r].kind = "add" =>
    \E l \in Lines :
      /\ DOMAIN pend[r] = {l}
      /\ \/ lines[l] = Free /\ pend[r][l] = [cart |-> mine[r], sku |-> job[r].sku, qty |-> job[r].n]
         \/ /\ lines[l].cart # None /\ lines[l].sku = job[r].sku
            /\ pend[r][l] = [lines[l] EXCEPT !.qty = @ + job[r].n]

\* A guest's line is folded: it moves, or goes and leaves its units with the user's line.
Folded(r, l) ==
  \/ l \in DOMAIN pend[r] /\ pend[r][l] = [lines[l] EXCEPT !.cart = mine[r]]
  \/ /\ lines[l].cart = None \/ (l \in DOMAIN pend[r] /\ pend[r][l].cart = None)
     /\ \E t \in Own(r) \cap DOMAIN pend[r] :
          seen[r][t].sku = seen[r][l].sku /\ pend[r][t] = [lines[t] EXCEPT !.qty = @ + seen[r][l].qty]

FoldInv(r) ==
  /\ pc[r] = "commit" /\ guest[r] # None => todo[r] = {}
  /\ pc[r] \in {"fold", "commit"} /\ guest[r] # None /\ cart[guest[r]].status # "deleted" =>
       \A l \in Theirs(r) \ todo[r] : Folded(r, l)

UnitsInv ==
  OneEditor /\ \A r \in Requests : OwnInv(r) /\ TheirsInv(r) /\ WroteInv(r) /\ AddInv(r) /\ FoldInv(r)

\* A request's step leaves what the others have alone.
LEMMA OthersStay ==
  ASSUME CartInv, NEW r \in Requests, Advance(r) \/ Fail(r) \/ \E j \in Jobs[r] : Begin(r, j),
         NEW q \in Requests, q # r
  PROVE  Stays(q)
<1>1. /\ pc \in [Requests -> Steps] /\ mine \in [Requests -> Carts \cup {None}]
      /\ isNew \in [Requests -> BOOLEAN] /\ guest \in [Requests -> Carts \cup {None}]
      /\ todo \in [Requests -> SUBSET Lines]
      /\ DOMAIN job = Requests /\ DOMAIN seen = Requests /\ DOMAIN pend = Requests
  BY DEF CartInv, RowsInv, TypeOK
<1>2. ASSUME NEW how, End(r, how) PROVE Stays(q)
  <2>1. /\ pc' = [pc EXCEPT ![r] = how] /\ mine' = [mine EXCEPT ![r] = None]
        /\ isNew' = [isNew EXCEPT ![r] = FALSE] /\ guest' = [guest EXCEPT ![r] = None]
        /\ seen' = [seen EXCEPT ![r] = Empty] /\ todo' = [todo EXCEPT ![r] = {}]
        /\ pend' = [pend EXCEPT ![r] = Empty] /\ job' = job
    BY <1>2 DEF End, Goto
  <2>. QED  BY <1>1, <2>1 DEF Stays
<1>3. CASE Fail(r)
  BY <1>2, <1>3 DEF Fail
<1>4. CASE Commit(r)
  BY <1>2, <1>4 DEF Commit
<1>5. CASE \E j \in Jobs[r] : Begin(r, j)
  BY <1>1, <1>5 DEF Begin, Goto, Stays
<1>6. CASE Resolve(r) /\ ~Fail(r)
  <2>1. /\ \E step : pc' = [pc EXCEPT ![r] = step]
        /\ \E c : mine' = [mine EXCEPT ![r] = c]
        /\ isNew' = isNew \/ isNew' = [isNew EXCEPT ![r] = TRUE]
        /\ UNCHANGED <<job, guest, seen, todo, pend>>
    BY <1>6 DEF Resolve, Goto
  <2>. QED  BY <1>1, <2>1 DEF Stays
<1>7. CASE ReadItem(r) /\ ~Fail(r)
  BY <1>1, <1>7 DEF ReadItem, Goto, Stays
<1>8. CASE InsertItem(r)
  BY <1>1, <1>8 DEF InsertItem, Wrote, Goto, Stays
<1>9. CASE UpdateItem(r) /\ ~Fail(r)
  BY <1>1, <1>9 DEF UpdateItem, Wrote, Goto, Stays
<1>10. CASE RemoveItem(r) /\ ~Fail(r)
  BY <1>1, <1>10 DEF RemoveItem, Wrote, Goto, Stays
<1>11. CASE ReadGuest(r) /\ ~Fail(r)
  BY <1>1, <1>11 DEF ReadGuest, Goto, Stays, reqVars
<1>12. CASE LoadLines(r)
  BY <1>1, <1>12 DEF LoadLines, Goto, Stays
<1>13. ASSUME NEW l \in Lines, FoldLine(r, l), ~Fail(r) PROVE Stays(q)
  BY <1>1, <1>13 DEF FoldLine, Wrote, Goto, Stays
<1>14. CASE DropGuest(r) /\ ~Fail(r)
  BY <1>1, <1>14 DEF DropGuest, Goto, Stays, reqVars
<1>. QED  BY <1>3, <1>4, <1>5, <1>6, <1>7, <1>8, <1>9, <1>10, <1>11, <1>12, <1>13, <1>14 DEF Advance

\* What is known of a request does not change when neither it nor the rows do.
LEMMA UnitsKept ==
  ASSUME CartInv, UnitsInv, NEW r \in Requests, UNCHANGED rowVars,
         \A q \in Requests : q # r => Stays(q),
         mine'[r] # None /\ ~isNew'[r] =>
           \/ mine[r] # None /\ ~isNew[r] /\ job'[r] = job[r]
           \/ \A q \in Requests : q # r /\ mine[q] # None /\ ~isNew[q] => job[q].owner # job'[r].owner,
         OwnInv(r)', TheirsInv(r)', WroteInv(r)', AddInv(r)', FoldInv(r)'
  PROVE  UnitsInv'
<1>1. ASSUME NEW q \in Requests, q # r
      PROVE  OwnInv(q)' /\ TheirsInv(q)' /\ WroteInv(q)' /\ AddInv(q)' /\ FoldInv(q)'
  <2>1. /\ OwnInv(q) /\ TheirsInv(q) /\ WroteInv(q) /\ AddInv(q) /\ FoldInv(q)
        /\ cart' = cart /\ lines' = lines /\ Stays(q)
    BY <1>1 DEF UnitsInv, rowVars
  <2>2. Own(q)' = Own(q) /\ Theirs(q)' = Theirs(q)
    BY <2>1 DEF Own, Theirs, Stays
  <2>3. \A l : OwnerOf(l)' = OwnerOf(l)
    BY <2>1 DEF OwnerOf
  <2>4. OwnInv(q)' /\ TheirsInv(q)'
    BY <2>1, <2>2, <2>3 DEF OwnInv, TheirsInv, Stays
  <2>5. WroteInv(q)' /\ AddInv(q)'
    BY <2>1, <2>2 DEF WroteInv, AddInv, Stays
  <2>6. \A l : Folded(q, l)' <=> Folded(q, l)
    BY <2>1, <2>2 DEF Folded, Stays
  <2>7. FoldInv(q)'
    BY <2>1, <2>2, <2>6 DEF FoldInv, Stays
  <2>. QED  BY <2>4, <2>5, <2>7
<1>2. OneEditor'
  BY DEF UnitsInv, OneEditor, Stays
<1>. QED  BY <1>1, <1>2 DEF UnitsInv

\* The same, for a step that ends the request, or comes before it reads a line.
LEMMA EmptyKept ==
  ASSUME CartInv, UnitsInv, NEW r \in Requests, UNCHANGED rowVars,
         \A q \in Requests : q # r => Stays(q),
         mine'[r] # None /\ ~isNew'[r] =>
           \/ mine[r] # None /\ ~isNew[r] /\ job'[r] = job[r]
           \/ \A q \in Requests : q # r /\ mine[q] # None /\ ~isNew[q] => job[q].owner # job'[r].owner,
         DOMAIN seen'[r] = {}, DOMAIN pend'[r] = {},
         pc'[r] = "commit" => job'[r].kind # "add" /\ guest'[r] = None
  PROVE  UnitsInv'
<1>1. Own(r)' = {} /\ Theirs(r)' = {}
  BY DEF Own, Theirs
<1>2. OwnInv(r)' /\ TheirsInv(r)' /\ WroteInv(r)' /\ AddInv(r)' /\ FoldInv(r)'
  BY <1>1 DEF OwnInv, TheirsInv, WroteInv, AddInv, FoldInv
<1>. QED  BY <1>2, UnitsKept

LEMMA UnitsAfterEnd ==
  ASSUME CartInv, UnitsInv, NEW r \in Requests, Fail(r)
  PROVE  UnitsInv'
<1>1. /\ pc' = [pc EXCEPT ![r] = "failed"] /\ mine' = [mine EXCEPT ![r] = None]
      /\ seen' = [seen EXCEPT ![r] = Empty] /\ pend' = [pend EXCEPT ![r] = Empty] /\ UNCHANGED rowVars
  BY DEF Fail, End, Goto
<1>2. DOMAIN Empty = {}
  BY DEF Empty
<1>3. mine'[r] = None /\ DOMAIN seen'[r] = {} /\ DOMAIN pend'[r] = {} /\ pc'[r] # "commit"
  BY <1>1, <1>2 DEF CartInv, RowsInv, TypeOK
<1>. QED  BY <1>1, <1>3, OthersStay, EmptyKept

LEMMA UnitsAfterBegin ==
  ASSUME CartInv, UnitsInv, NEW r \in Requests, NEW j \in Jobs[r], Begin(r, j)
  PROVE  UnitsInv'
<1>1. /\ pc[r] = "idle" /\ pc' = [pc EXCEPT ![r] = "resolve"]
      /\ UNCHANGED <<rowVars, mine, seen, pend>>
  BY DEF Begin, Goto
<1>2. pc'[r] = "resolve" /\ mine[r] = None /\ DOMAIN pend[r] = {} /\ DOMAIN seen[r] = {}
  <2>1. TypeOK /\ MineInv(r) /\ PendInv(r) /\ OwnInv(r)
    BY DEF CartInv, RowsInv, UnitsInv
  <2>. QED  BY <1>1, <2>1 DEF TypeOK, MineInv, PendInv, Holding, OwnInv
<1>. QED  BY <1>1, <1>2, OthersStay, EmptyKept

\* The one draft cart of an owner is free: nobody works on it, and nobody on another.
LEMMA UnitsAfterResolve ==
  ASSUME CartInv, UnitsInv, NEW r \in Requests, Resolve(r), ~Fail(r)
  PROVE  UnitsInv'
<1>1. /\ pc[r] = "resolve" /\ UNCHANGED <<rowVars, job, seen, pend>>
      /\ \E step \in {"guest", "write", "read"} : pc' = [pc EXCEPT ![r] = step]
  BY DEF Resolve, Goto
<1>2. /\ pc'[r] # "commit" /\ DOMAIN pend[r] = {} /\ DOMAIN seen[r] = {} /\ isNew[r] = FALSE
      /\ mine[r] = None
  <2>1. TypeOK /\ MineInv(r) /\ PendInv(r) /\ OwnInv(r)
    BY DEF CartInv, RowsInv, UnitsInv
  <2>2. DOMAIN pend[r] = {} /\ DOMAIN seen[r] = {} /\ mine[r] = None
    BY <1>1, <2>1 DEF MineInv, PendInv, Holding, OwnInv
  <2>. QED  BY <1>1, <2>1, <2>2 DEF TypeOK, MineInv
<1>3. ASSUME ~isNew'[r], NEW q \in Requests, q # r, mine[q] # None, ~isNew[q]
      PROVE  job[q].owner # job[r].owner
  <2>1. isNew' = [isNew EXCEPT ![r] = TRUE] => isNew'[r]
    BY DEF CartInv, RowsInv, TypeOK
  <2>2. \E c \in Drafts(job[r].owner) : Drafts(job[r].owner) = {c} /\ cartLock[c] = None
    <3>1. Cardinality(Drafts(job[r].owner)) = 1 /\ Drafts(job[r].owner) # {}
      BY <1>3, <2>1 DEF Resolve
    <3>2. PICK c \in Drafts(job[r].owner) : \A d \in Drafts(job[r].owner) : d = c
      <4>1. IsFiniteSet(Drafts(job[r].owner))
        BY TablesAssumption, FS_Subset DEF Drafts
      <4>. QED  BY <3>1, <4>1, FS_Singleton
    <3>. QED  BY <3>2 DEF Resolve
  <2>3. cart[mine[q]] = [owner |-> job[q].owner, status |-> "draft"] /\ cartLock[mine[q]] = q /\ mine[q] \in Carts
    <3>1. MineInv(q) /\ mine \in [Requests -> Carts \cup {None}]
      BY DEF CartInv, RowsInv, TypeOK
    <3>. QED  BY <1>3, <3>1 DEF MineInv
  <2>. QED  BY <2>2, <2>3, NoneAssumption DEF Drafts
<1>. QED  BY <1>1, <1>2, <1>3, OthersStay, EmptyKept DEF Advance


LEMMA UnitsAfterReadItem ==
  ASSUME CartInv, UnitsInv, NEW r \in Requests, ReadItem(r), ~Fail(r)
  PROVE  UnitsInv'
<1>. DEFINE found == LineOf(mine[r], job[r].sku)
<1>1. /\ pc[r] = "read" /\ pc' = [pc EXCEPT ![r] = "write"]
      /\ seen' = [seen EXCEPT ![r] = [l \in found |-> lines[l]]]
      /\ UNCHANGED <<rowVars, cartLock, job, mine, isNew, guest, todo, pend>>
  BY DEF ReadItem, Goto
<1>2. RowsInv /\ TypeOK /\ MineInv(r) /\ GuestInv(r) /\ PendInv(r)
  BY DEF CartInv, RowsInv
<1>3. /\ pc'[r] = "write" /\ seen'[r] = [l \in found |-> lines[l]]
      /\ mine[r] \in Carts /\ mine[r] # None /\ guest[r] = None /\ DOMAIN pend[r] = {}
  BY <1>1, <1>2 DEF TypeOK, RowsInv, MineInv, GuestInv, PendInv, Holding
<1>4. \A l \in found : /\ l \in Lines /\ lines[l].cart = mine[r] /\ lines[l].sku = job[r].sku /\ ~isNew[r]
  BY <1>2, <1>3 DEF LineOf, RowsInv, MineInv
<1>. HIDE DEF found
<1>5. OwnInv(r)'
  BY <1>1, <1>3, <1>4 DEF OwnInv, Own, rowVars
<1>6. TheirsInv(r)' /\ WroteInv(r)' /\ AddInv(r)' /\ FoldInv(r)'
  BY <1>1, <1>3 DEF TheirsInv, WroteInv, AddInv, FoldInv
<1>. QED  BY <1>1, <1>3, <1>5, <1>6, OthersStay, UnitsKept DEF Advance

LEMMA UnitsAfterReadGuest ==
  ASSUME CartInv, UnitsInv, NEW r \in Requests, ReadGuest(r), ~Fail(r)
  PROVE  UnitsInv'
<1>1. TypeOK /\ MineInv(r) /\ GuestInv(r) /\ PendInv(r) /\ OwnInv(r)
  BY DEF CartInv, RowsInv, UnitsInv
<1>2. /\ pc[r] = "guest" /\ UNCHANGED <<rowVars, job, mine, isNew, seen, pend>>
      /\ \/ pc' = [pc EXCEPT ![r] = "commit"] /\ guest' = guest
         \/ pc' = [pc EXCEPT ![r] = "load"]
  BY DEF ReadGuest, Goto, reqVars
<1>3. /\ DOMAIN seen[r] = {} /\ DOMAIN pend[r] = {} /\ job[r].kind = "merge" /\ guest[r] = None
      /\ mine[r] # None /\ (pc'[r] = "load" \/ guest' = guest)
  BY <1>1, <1>2 DEF TypeOK, MineInv, GuestInv, PendInv, OwnInv, Holding
<1>4. pc'[r] = "commit" => guest'[r] = None
  BY <1>3
<1>. QED  BY <1>2, <1>3, <1>4, OthersStay, EmptyKept DEF Advance

LEMMA UnitsAfterLoadLines ==
  ASSUME CartInv, UnitsInv, NEW r \in Requests, LoadLines(r)
  PROVE  UnitsInv'
<1>. DEFINE read == LinesIn(mine[r]) \cup LinesIn(guest[r])
<1>1. /\ pc[r] = "load" /\ pc' = [pc EXCEPT ![r] = "fold"]
      /\ seen' = [seen EXCEPT ![r] = [l \in read |-> lines[l]]]
      /\ todo' = [todo EXCEPT ![r] = LinesIn(guest[r])]
      /\ UNCHANGED <<rowVars, cartLock, job, mine, isNew, guest, pend>>
  BY DEF LoadLines, Goto
<1>2. RowsInv /\ TypeOK /\ MineInv(r) /\ GuestInv(r) /\ PendInv(r)
  BY DEF CartInv, RowsInv
<1>3. /\ pc'[r] = "fold" /\ seen'[r] = [l \in read |-> lines[l]] /\ todo'[r] = LinesIn(guest[r])
      /\ mine[r] \in Carts /\ mine[r] # None /\ guest[r] # None /\ guest[r] # mine[r] /\ DOMAIN pend[r] = {}
  BY <1>1, <1>2 DEF TypeOK, RowsInv, MineInv, GuestInv, PendInv, Holding
<1>4. \A l \in read : /\ lines[l].cart = mine[r] => ~isNew[r]
                      /\ lines[l].cart = guest[r] => l \in LinesIn(guest[r])
  BY <1>2, <1>3 DEF LinesIn, RowsInv, MineInv
<1>. HIDE DEF read
<1>5. OwnInv(r)'
  BY <1>1, <1>3, <1>4 DEF OwnInv, Own, rowVars
<1>6. Theirs(r)' \subseteq LinesIn(guest[r]) /\ \A l \in Theirs(r)' : lines[l].cart = guest[r]
  BY <1>1, <1>3, <1>4 DEF Theirs
<1>7. TheirsInv(r)'
  BY <1>1, <1>6 DEF TheirsInv, rowVars
<1>8. WroteInv(r)' /\ AddInv(r)' /\ FoldInv(r)'
  BY <1>1, <1>3, <1>6 DEF WroteInv, AddInv, FoldInv
<1>. QED  BY <1>1, <1>3, <1>5, <1>7, <1>8, OthersStay, UnitsKept DEF Advance

LEMMA UnitsAfterDropGuest ==
  ASSUME CartInv, UnitsInv, NEW r \in Requests, DropGuest(r), ~Fail(r)
  PROVE  UnitsInv'
<1>1. /\ pc[r] = "fold" /\ pc' = [pc EXCEPT ![r] = "commit"] /\ todo[r] = {}
      /\ UNCHANGED <<rowVars, reqVars>>
  BY DEF DropGuest, Goto
<1>2. /\ TypeOK /\ MineInv(r) /\ GuestInv(r)
      /\ OwnInv(r) /\ TheirsInv(r) /\ WroteInv(r) /\ FoldInv(r)
  BY DEF CartInv, RowsInv, UnitsInv
<1>3. pc'[r] = "commit" /\ job[r].kind = "merge" /\ mine[r] # None
  BY <1>1, <1>2 DEF TypeOK, MineInv, GuestInv, Holding
<1>4. Own(r)' = Own(r) /\ Theirs(r)' = Theirs(r) /\ (\A l : OwnerOf(l)' = OwnerOf(l))
  BY <1>1 DEF Own, Theirs, OwnerOf, reqVars, rowVars
<1>5. OwnInv(r)' /\ TheirsInv(r)'
  BY <1>1, <1>2, <1>3, <1>4 DEF OwnInv, TheirsInv, reqVars, rowVars
<1>6. WroteInv(r)' /\ AddInv(r)'
  BY <1>1, <1>2, <1>3, <1>4 DEF WroteInv, AddInv, reqVars, rowVars
<1>7. FoldInv(r)'
  <2>1. \A l : Folded(r, l)' <=> Folded(r, l)
    BY <1>1, <1>4 DEF Folded, reqVars, rowVars
  <2>. QED  BY <1>1, <1>2, <1>3, <1>4, <2>1 DEF FoldInv, reqVars, rowVars
<1>. QED  BY <1>1, <1>3, <1>5, <1>6, <1>7, OthersStay, UnitsKept DEF Advance, reqVars


\* After a write the request knows what it read as before.
LEMMA ReadsKept ==
  ASSUME CartInv, UnitsInv, NEW r \in Requests, UNCHANGED <<rowVars, job, mine, isNew, guest, seen>>,
         pc[r] \in {"write", "fold"}, pc'[r] \in {"fold", "commit"}
  PROVE  /\ Own(r)' = Own(r) /\ Theirs(r)' = Theirs(r)
         /\ OwnInv(r)' /\ TheirsInv(r)'
<1>1. OwnInv(r) /\ TheirsInv(r) /\ cart' = cart /\ lines' = lines
  BY DEF UnitsInv, rowVars
<1>2. Own(r)' = Own(r) /\ Theirs(r)' = Theirs(r) /\ (\A l : OwnerOf(l)' = OwnerOf(l))
  BY <1>1 DEF Own, Theirs, OwnerOf
<1>. QED  BY <1>1, <1>2 DEF OwnInv, TheirsInv

LEMMA UnitsAfterInsertItem ==
  ASSUME CartInv, UnitsInv, NEW r \in Requests, InsertItem(r)
  PROVE  UnitsInv'
<1>. DEFINE l == NewLine
            w == [m \in {l} |-> [cart |-> mine[r], sku |-> job[r].sku, qty |-> job[r].n]]
<1>1. /\ pc[r] = "write" /\ pc' = [pc EXCEPT ![r] = "commit"] /\ Wrote(r, w)
      /\ FreeLines # {} /\ UNCHANGED <<rowVars, cartLock, job, mine, isNew, guest, seen, todo>>
  BY DEF InsertItem, Goto
<1>2. l \in Lines /\ lines[l] = Free
  BY <1>1 DEF NewLine, FreeLines
<1>3. DOMAIN w = {l} /\ w[l] = [cart |-> mine[r], sku |-> job[r].sku, qty |-> job[r].n]
  OBVIOUS
<1>4. RowsInv /\ TypeOK /\ MineInv(r) /\ GuestInv(r) /\ PendInv(r)
  BY DEF CartInv, RowsInv
<1>5. pc'[r] = "commit" /\ mine[r] # None /\ guest[r] = None /\ DOMAIN pend[r] = {}
  BY <1>1, <1>4 DEF TypeOK, MineInv, GuestInv, PendInv, Holding
<1>6. DOMAIN pend'[r] = {l} /\ pend'[r][l] = w[l]
  BY <1>1, <1>3, <1>4, <1>5 DEF Wrote, Over, RowsInv
<1>. HIDE DEF w, l
<1>7. OwnInv(r)' /\ TheirsInv(r)'
  BY <1>1, <1>5, ReadsKept
<1>8. WroteInv(r)' /\ AddInv(r)'
  BY <1>1, <1>2, <1>3, <1>6 DEF WroteInv, AddInv, rowVars
<1>9. FoldInv(r)'
  BY <1>1, <1>5 DEF FoldInv
<1>. QED  BY <1>1, <1>5, <1>7, <1>8, <1>9, OthersStay, UnitsKept DEF Advance

LEMMA UnitsAfterUpdateItem ==
  ASSUME CartInv, UnitsInv, NEW r \in Requests, UpdateItem(r), ~Fail(r)
  PROVE  UnitsInv'
<1>1. PICK l \in DOMAIN seen[r] :
        Wrote(r, [m \in {l} |-> [lines[l] EXCEPT !.qty = NewQty(r, l)]]) /\ lines[l].cart # None
  BY DEF UpdateItem
<1>. DEFINE w == [m \in {l} |-> [lines[l] EXCEPT !.qty = NewQty(r, l)]]
<1>2. /\ pc[r] = "write" /\ pc' = [pc EXCEPT ![r] = "commit"] /\ job[r].kind \in {"add", "set"}
      /\ UNCHANGED <<rowVars, cartLock, job, mine, isNew, guest, seen, todo>>
  BY DEF UpdateItem, Goto
<1>3. DOMAIN w = {l} /\ w[l] = [lines[l] EXCEPT !.qty = NewQty(r, l)]
  OBVIOUS
<1>4. RowsInv /\ TypeOK /\ MineInv(r) /\ GuestInv(r) /\ PendInv(r) /\ SeenInv(r) /\ OwnInv(r)
  BY DEF CartInv, RowsInv, UnitsInv
<1>5. pc'[r] = "commit" /\ mine[r] # None /\ guest[r] = None /\ DOMAIN pend[r] = {}
  BY <1>2, <1>4 DEF TypeOK, MineInv, GuestInv, PendInv, Holding
<1>6. DOMAIN pend'[r] = {l} /\ pend'[r][l] = w[l]
  BY <1>1, <1>3, <1>4, <1>5 DEF Wrote, Over, RowsInv
<1>7. /\ l \in Lines /\ l \in Own(r) /\ lines[l].sku = job[r].sku /\ lines[l].qty = seen[r][l].qty
      /\ lines[l] \in LineRow
  BY <1>2, <1>4 DEF OwnInv, Own, SeenInv, TypeOK
<1>8. w[l].cart = lines[l].cart /\ (job[r].kind = "add" => w[l] = [lines[l] EXCEPT !.qty = @ + job[r].n])
  BY <1>3, <1>7 DEF NewQty, LineRow
<1>. HIDE DEF w
<1>9. OwnInv(r)' /\ TheirsInv(r)' /\ Own(r)' = Own(r)
  BY <1>2, <1>5, ReadsKept
<1>10. WroteInv(r)' /\ AddInv(r)'
  BY <1>1, <1>2, <1>6, <1>7, <1>8, <1>9 DEF WroteInv, AddInv, rowVars
<1>11. FoldInv(r)'
  BY <1>2, <1>5 DEF FoldInv
<1>. QED  BY <1>2, <1>5, <1>9, <1>10, <1>11, OthersStay, UnitsKept DEF Advance

LEMMA UnitsAfterRemoveItem ==
  ASSUME CartInv, UnitsInv, NEW r \in Requests, RemoveItem(r), ~Fail(r)
  PROVE  UnitsInv'
<1>. DEFINE found == LineOf(mine[r], job[r].sku)
            w == [l \in found |-> Deleted(l)]
<1>1. /\ pc[r] = "write" /\ pc' = [pc EXCEPT ![r] = "commit"] /\ Wrote(r, w) /\ job[r].kind = "remove"
      /\ UNCHANGED <<rowVars, cartLock, job, mine, isNew, guest, seen, todo>>
  BY DEF RemoveItem, Goto
<1>2. RowsInv /\ TypeOK /\ MineInv(r) /\ GuestInv(r) /\ PendInv(r)
  BY DEF CartInv, RowsInv
<1>3. pc'[r] = "commit" /\ mine[r] # None /\ guest[r] = None /\ DOMAIN pend[r] = {}
  BY <1>1, <1>2 DEF TypeOK, MineInv, GuestInv, PendInv, Holding
<1>4. DOMAIN w = found /\ \A l \in found : w[l].cart = None /\ lines[l].cart = mine[r]
  BY DEF Deleted, LineOf
<1>. HIDE DEF w, found
<1>5. DOMAIN pend'[r] = found /\ \A l \in found : pend'[r][l] = w[l]
  BY <1>1, <1>2, <1>3, <1>4 DEF Wrote, Over, RowsInv
<1>6. OwnInv(r)' /\ TheirsInv(r)'
  BY <1>1, <1>3, ReadsKept
<1>7. WroteInv(r)' /\ AddInv(r)'
  BY <1>1, <1>3, <1>4, <1>5 DEF WroteInv, AddInv, rowVars
<1>8. FoldInv(r)'
  BY <1>1, <1>3 DEF FoldInv
<1>. QED  BY <1>1, <1>3, <1>6, <1>7, <1>8, OthersStay, UnitsKept DEF Advance


\* A guest's line moves, or leaves its units with the user's line, which has the quantity
\* that was read.
LEMMA UnitsAfterFoldLine ==
  ASSUME CartInv, UnitsInv, NEW r \in Requests, NEW l \in Lines, FoldLine(r, l), ~Fail(r)
  PROVE  UnitsInv'
<1>1. /\ RowsInv /\ TypeOK /\ MineInv(r) /\ GuestInv(r) /\ SeenInv(r)
      /\ OwnInv(r) /\ TheirsInv(r) /\ WroteInv(r) /\ FoldInv(r)
  BY DEF CartInv, RowsInv, UnitsInv
<1>2. /\ pc[r] = "fold" /\ pc' = pc /\ l \in todo[r]
      /\ todo' = [todo EXCEPT ![r] = todo[r] \ {l}]
      /\ UNCHANGED <<rowVars, cartLock, job, mine, isNew, guest, seen>>
  BY DEF FoldLine
<1>3. /\ mine[r] # None /\ guest[r] # None /\ guest[r] # mine[r]
      /\ job[r].kind = "merge" /\ todo'[r] = todo[r] \ {l}
      /\ l \in Theirs(r) /\ seen[r][l].cart = guest[r] /\ seen[r][l].sku = lines[l].sku
  BY <1>1, <1>2 DEF MineInv, GuestInv, SeenInv, Holding, TypeOK, Theirs
<1>4. \A g \in DOMAIN seen[r] : g # l /\ seen[r][g].cart = guest[r] => lines[g].sku # lines[l].sku
  BY <1>1, <1>3 DEF SeenInv, Clash, Theirs
<1>5. \A m \in DOMAIN pend[r] : lines[m].sku # lines[l].sku
  BY <1>1, <1>2, <1>3, <1>4 DEF SeenInv
<1>6. PICK w : /\ Wrote(r, w)
               /\ \A m \in DOMAIN w : lines[m].sku = lines[l].sku
               /\ \A m \in DOMAIN w :
                    \/ m \in Own(r) /\ w[m].cart = lines[m].cart
                    \/ w[m].cart = None /\ lines[m].cart # None /\ lines[m].cart \in {mine[r], guest[r]}
                    \/ m \in Theirs(r) /\ lines[m].cart # None /\ w[m] = [lines[m] EXCEPT !.cart = mine[r]]
               /\ \/ l \in DOMAIN w /\ w[l] = [lines[l] EXCEPT !.cart = mine[r]]
                  \/ /\ lines[l].cart = guest[r] => l \in DOMAIN w /\ w[l].cart = None
                     /\ \E t \in Own(r) \cap DOMAIN w :
                          /\ seen[r][t].sku = seen[r][l].sku
                          /\ w[t] = [lines[t] EXCEPT !.qty = @ + seen[r][l].qty]
  <2>. DEFINE target == Target(r, l)
              doomed == LineOf(guest[r], seen[r][l].sku)
  <2>1. CASE target = {}
    <3>. DEFINE w == [m \in {l} |-> [lines[l] EXCEPT !.cart = mine[r]]]
    <3>1. Wrote(r, w) /\ lines[l].cart # None
      BY <2>1 DEF FoldLine
    <3>2. DOMAIN w = {l} /\ w[l] = [lines[l] EXCEPT !.cart = mine[r]]
      OBVIOUS
    <3>. HIDE DEF w, target
    <3>. QED  BY <1>3, <3>1, <3>2
  <2>2. CASE target # {}
    <3>. DEFINE u == [t \in target |-> [lines[t] EXCEPT !.qty = seen[r][t].qty + seen[r][l].qty]]
                d == [m \in doomed |-> Deleted(m)]
                w == Over(u, d)
    <3>1. Wrote(r, w)
      BY <2>2 DEF FoldLine
    <3>2. /\ DOMAIN w = target \cup doomed
          /\ \A t \in target : w[t] = [lines[t] EXCEPT !.qty = seen[r][t].qty + seen[r][l].qty]
          /\ \A m \in doomed : m \notin target => w[m].cart = None
      BY DEF Over, Deleted
    <3>3. ASSUME NEW t \in target
          PROVE  /\ t \in Own(r) /\ seen[r][t].sku = seen[r][l].sku /\ lines[t].sku = lines[l].sku
                 /\ lines[t] \in LineRow /\ lines[t].qty = seen[r][t].qty
      BY <1>1, <1>3 DEF Target, Own, OwnInv, SeenInv, TypeOK
    <3>4. \A m \in doomed : m \in Lines /\ lines[m].cart = guest[r] /\ lines[m].sku = lines[l].sku
      BY <1>3 DEF LineOf
    <3>5. lines[l].cart = guest[r] => l \in doomed
      BY <1>3 DEF LineOf
    <3>6. l \notin target
      BY <1>3 DEF Target
    <3>. HIDE DEF u, d, w, target, doomed
    <3>7. \A t \in target : /\ w[t] = [lines[t] EXCEPT !.qty = @ + seen[r][l].qty]
                            /\ w[t].cart = lines[t].cart
      BY <3>2, <3>3 DEF LineRow
    <3>8. \A m \in DOMAIN w : /\ lines[m].sku = lines[l].sku
                              /\ \/ m \in Own(r) /\ w[m].cart = lines[m].cart
                                 \/ w[m].cart = None /\ lines[m].cart # None /\ lines[m].cart = guest[r]
      BY <1>3, <3>2, <3>3, <3>4, <3>7
    <3>9. lines[l].cart = guest[r] => l \in DOMAIN w /\ w[l].cart = None
      BY <3>2, <3>5, <3>6
    <3>10. PICK t \in target : TRUE
      BY <2>2
    <3>11. t \in Own(r) \cap DOMAIN w /\ seen[r][t].sku = seen[r][l].sku
      BY <3>2, <3>3
    <3>12. \E x \in Own(r) \cap DOMAIN w :
             /\ seen[r][x].sku = seen[r][l].sku
             /\ w[x] = [lines[x] EXCEPT !.qty = @ + seen[r][l].qty]
      BY <3>7, <3>11
    <3>13. \A m \in DOMAIN w : \/ m \in Own(r) /\ w[m].cart = lines[m].cart
                              \/ /\ w[m].cart = None /\ lines[m].cart # None
                                 /\ lines[m].cart \in {mine[r], guest[r]}
      BY <3>8
    <3>14. \A m \in DOMAIN w : lines[m].sku = lines[l].sku
      BY <3>8
    <3>. QED  BY <3>1, <3>9, <3>12, <3>13, <3>14
  <2>. QED  BY <2>1, <2>2
<1>. DEFINE new == Over(w, pend[r])
<1>7. pend'[r] = new
  BY <1>1, <1>6 DEF Wrote, RowsInv
<1>8. /\ DOMAIN new = DOMAIN w \cup DOMAIN pend[r]
      /\ \A m \in DOMAIN w : new[m] = w[m]
      /\ \A m \in DOMAIN pend[r] : new[m] = pend[r][m]
  BY <1>5, <1>6 DEF Over
<1>. HIDE DEF new
<1>9. OwnInv(r)' /\ TheirsInv(r)' /\ Own(r)' = Own(r) /\ Theirs(r)' = Theirs(r)
  BY <1>2, ReadsKept
<1>10. WroteInv(r)'
  <2>1. \A m \in DOMAIN new :
          \/ lines[m] = Free
          \/ m \in Own(r) /\ new[m].cart = lines[m].cart
          \/ new[m].cart = None /\ lines[m].cart # None /\ lines[m].cart \in {mine[r], guest[r]}
          \/ m \in Theirs(r) /\ lines[m].cart # None /\ new[m] = [lines[m] EXCEPT !.cart = mine[r]]
    <3>1. ASSUME NEW m \in DOMAIN w
          PROVE  \/ m \in Own(r) /\ new[m].cart = lines[m].cart
                 \/ new[m].cart = None /\ lines[m].cart # None /\ lines[m].cart \in {mine[r], guest[r]}
                 \/ m \in Theirs(r) /\ lines[m].cart # None /\ new[m] = [lines[m] EXCEPT !.cart = mine[r]]
      <4>1. new[m] = w[m]
        BY <1>8
      <4>. QED  BY <1>6, <4>1
    <3>2. \A m \in DOMAIN pend[r] : new[m] = pend[r][m]
      BY <1>8
    <3>. QED  BY <1>1, <1>8, <3>1, <3>2 DEF WroteInv
  <2>. QED  BY <1>2, <1>7, <1>9, <2>1 DEF WroteInv, rowVars
<1>11. ASSUME cart[guest[r]].status # "deleted", NEW g \in Theirs(r) \ todo'[r]
       PROVE  Folded(r, g)'
  <2>1. CASE g = l
    <3>1. lines[l].cart \in {None, guest[r]}
      BY <1>1, <1>3, <1>11 DEF TheirsInv
    <3>. QED  BY <1>2, <1>6, <1>7, <1>8, <1>9, <2>1, <3>1 DEF Folded, rowVars
  <2>2. CASE g # l
    <3>1. Folded(r, g)
      BY <1>1, <1>2, <1>3, <1>11, <2>2 DEF FoldInv
    <3>. QED  BY <1>2, <1>7, <1>8, <1>9, <3>1 DEF Folded, rowVars
  <2>. QED  BY <2>1, <2>2
<1>12. FoldInv(r)'
  BY <1>2, <1>9, <1>11 DEF FoldInv, rowVars
<1>13. AddInv(r)'
  BY <1>2 DEF AddInv
<1>. QED  BY <1>2, <1>3, <1>9, <1>10, <1>12, <1>13, OthersStay, UnitsKept DEF Advance


\* Wherever a line read in the own cart is now, that cart has the same owner; so no line is
\* two requests' own.
LEMMA OwnOwner ==
  ASSUME CartInv, UnitsInv, NEW r \in Requests, NEW l \in Own(r)
  PROVE  /\ mine[r] # None /\ ~isNew[r] /\ l \in Lines /\ lines[l].cart # None /\ lines[l].sku # None
         /\ OwnerOf(l) = job[r].owner /\ job[r] \in Jobs[r]
<1>1. SeenInv(r) /\ MineInv(r) /\ OwnInv(r)
  BY DEF CartInv, UnitsInv
<1>2. mine[r] # None /\ l \in Lines /\ lines[l].sku # None
  BY <1>1 DEF Own, SeenInv
<1>3. ~isNew[r] /\ lines[l].cart # None
  BY <1>1 DEF OwnInv
<1>. QED  BY <1>1, <1>2, <1>3 DEF MineInv, OwnInv, OwnerOf, Holding

LEMMA OwnApart ==
  ASSUME CartInv, UnitsInv, NEW r \in Requests, NEW q \in Requests, q # r
  PROVE  Own(r) \cap Own(q) = {}
<1>. SUFFICES ASSUME NEW l \in Own(r), l \in Own(q) PROVE FALSE
  OBVIOUS
<1>1. mine[r] # None /\ ~isNew[r] /\ OwnerOf(l) = job[r].owner
  BY OwnOwner
<1>2. mine[q] # None /\ ~isNew[q] /\ OwnerOf(l) = job[q].owner
  BY OwnOwner
<1>. QED  BY <1>1, <1>2 DEF UnitsInv, OneEditor

\* A line in the guest's cart is in a cart that is the token's.
LEMMA GuestOwner ==
  ASSUME CartInv, NEW r \in Requests, guest[r] # None, NEW l \in Lines, lines[l].cart = guest[r]
  PROVE  /\ OwnerOf(l) = job[r].token /\ job[r].kind = "merge" /\ job[r] \in Jobs[r]
         /\ cart[guest[r]].status # "deleted"
<1>1. RowsInv /\ GuestInv(r) /\ MineInv(r)
  BY DEF CartInv
<1>2. cart[guest[r]].status # "deleted"
  BY <1>1 DEF RowsInv
<1>. QED  BY <1>1, <1>2 DEF GuestInv, MineInv, OwnerOf

\* What a commit does to a line another request has read in its own cart: it is moved, to
\* another cart of the same user.
LEMMA CommitMoves ==
  ASSUME CartInv, UnitsInv, NEW r \in Requests, Commit(r), NEW q \in Requests, q # r,
         NEW l \in Own(q), l \in DOMAIN pend[r]
  PROVE  /\ pend[r][l] = [lines[l] EXCEPT !.cart = mine[r]]
         /\ job[r].owner = job[q].owner /\ job[r].kind = "merge" /\ job[r] \in Jobs[r]
<1>1. /\ RowsInv /\ MineInv(r) /\ GuestInv(r) /\ MineInv(q) /\ OwnInv(q) /\ WroteInv(r) /\ TheirsInv(r)
      /\ pc[r] = "commit" /\ mine[r] # None
  BY DEF CartInv, UnitsInv, Commit, MineInv, Holding
<1>2. /\ mine[q] # None /\ ~isNew[q] /\ l \in Lines /\ lines[l].cart # None /\ lines[l].sku # None
      /\ OwnerOf(l) = job[q].owner
  BY OwnOwner
<1>3. lines[l].cart # mine[r]
  <2>. SUFFICES ASSUME lines[l].cart = mine[r] PROVE FALSE
    OBVIOUS
  <2>1. ~isNew[r]
    BY <1>1, <1>2 DEF MineInv, RowsInv
  <2>2. OwnerOf(l) = job[r].owner
    BY <1>1, <2>1 DEF MineInv, OwnerOf
  <2>. QED  BY <1>1, <1>2, <2>1, <2>2 DEF UnitsInv, OneEditor
<1>4. lines[l].cart # guest[r]
  <2>. SUFFICES ASSUME lines[l].cart = guest[r] PROVE FALSE
    OBVIOUS
  <2>1. OwnerOf(l) = job[r].token /\ job[r].kind = "merge" /\ job[r] \in Jobs[r]
    BY <1>2, GuestOwner
  <2>2. cartLock[guest[r]] = r
    BY <1>1, <1>2 DEF GuestInv
  <2>3. lines[l].cart # mine[q]
    BY <1>1, <1>2, <2>2 DEF MineInv
  <2>4. IsUser(job[q].owner)
    BY <1>1, <2>3 DEF OwnInv
  <2>. QED  BY <1>2, <2>1, <2>4, TokensAssumption DEF IsUser
<1>5. /\ l \in Theirs(r) /\ pend[r][l] = [lines[l] EXCEPT !.cart = mine[r]]
  BY <1>1, <1>2, <1>3, <1>4, OwnApart DEF WroteInv, Free
<1>6. guest[r] # None
  BY <1>5 DEF CartInv, SeenInv, Theirs
<1>. QED  BY <1>1, <1>2, <1>4, <1>5, <1>6 DEF GuestInv, MineInv, TheirsInv, Holding


\* The rows after a commit: a line that r did not write is in the cart it was in, and that
\* cart has the owner it had.
LEMMA CommitLines ==
  ASSUME CartInv, NEW r \in Requests, Commit(r)
  PROVE  /\ \A l \in Lines : l \in DOMAIN pend[r] => lines'[l] = pend[r][l]
         /\ \A l \in Lines : l \notin DOMAIN pend[r] =>
              lines'[l] = lines[l] /\ (lines[l].cart # None => OwnerOf(l)' = OwnerOf(l))
         /\ mine[r] \in Carts /\ mine[r] # None /\ cart'[mine[r]].owner = job[r].owner
         /\ \A c \in Carts : cart[c].status = "deleted" => cart'[c].status = "deleted"
         /\ guest[r] # None => cart'[guest[r]].status = "deleted"
         /\ \A c \in Carts : c # guest[r] /\ (c = mine[r] => ~isNew[r]) => cart'[c] = cart[c]
<1>1. RowsInv /\ TypeOK /\ MineInv(r) /\ GuestInv(r) /\ pc[r] = "commit"
  BY DEF CartInv, RowsInv, Commit
<1>2. /\ \A l \in Lines : lines'[l] = IF l \in DOMAIN pend[r] THEN pend[r][l] ELSE lines[l]
      /\ cart'[mine[r]].status = "draft" /\ mine[r] \in Carts
      /\ guest[r] # None => cart'[guest[r]].status = "deleted"
      /\ \A c \in Carts : c # guest[r] /\ (c = mine[r] => ~isNew[r]) => cart'[c] = cart[c]
  BY CommitRows
<1>3. mine[r] # None /\ mine[r] # guest[r]
  BY <1>1 DEF MineInv, GuestInv, Holding
<1>4. cart'[mine[r]].owner = job[r].owner
  BY <1>1, <1>2, <1>3 DEF MineInv, Commit
<1>5. ASSUME NEW l \in Lines, l \notin DOMAIN pend[r], lines[l].cart # None
      PROVE  OwnerOf(l)' = OwnerOf(l)
  <2>1. lines[l].cart \in Carts /\ lines'[l] = lines[l]
    BY <1>1, <1>2, <1>5 DEF TypeOK, LineRow
  <2>2. lines[l].cart # guest[r] /\ (lines[l].cart = mine[r] => ~isNew[r])
    BY <1>1, <1>5 DEF GuestInv, LinesIn, MineInv, RowsInv
  <2>. QED  BY <1>2, <2>1, <2>2 DEF OwnerOf
<1>6. \A c \in Carts : cart[c].status = "deleted" => cart'[c].status = "deleted"
  BY <1>1, <1>2, <1>3, NoneAssumption DEF MineInv
<1>. QED  BY <1>2, <1>3, <1>4, <1>5, <1>6

LEMMA OwnAfterCommit ==
  ASSUME CartInv, UnitsInv, NEW r \in Requests, Commit(r), NEW q \in Requests, q # r, Stays(q)
  PROVE  OwnInv(q)'
<1>1. OwnInv(q) /\ Own(q)' = Own(q)
  BY DEF UnitsInv, Own, Stays
<1>2. ASSUME NEW l \in Own(q)
      PROVE  /\ lines'[l].cart # None /\ lines'[l].qty = seen[q][l].qty
             /\ lines'[l].cart = mine[q] \/ (IsUser(job[q].owner) /\ OwnerOf(l)' = job[q].owner)
  <2>1. l \in Lines /\ lines[l].cart # None
    BY OwnOwner
  <2>2. CASE l \notin DOMAIN pend[r]
    BY <1>1, <2>1, <2>2, CommitLines DEF OwnInv
  <2>3. CASE l \in DOMAIN pend[r]
    <3>1. /\ pend[r][l] = [lines[l] EXCEPT !.cart = mine[r]]
          /\ job[r].owner = job[q].owner /\ job[r].kind = "merge" /\ job[r] \in Jobs[r]
      BY <2>3, CommitMoves
    <3>2. lines[l] \in LineRow
      BY <2>1 DEF CartInv, RowsInv, TypeOK
    <3>3. lines'[l].cart = mine[r] /\ lines'[l].qty = lines[l].qty
      BY <2>1, <2>3, <3>1, <3>2, CommitLines DEF LineRow
    <3>4. mine[r] # None /\ OwnerOf(l)' = job[r].owner
      BY <3>3, CommitLines DEF OwnerOf
    <3>. QED  BY <1>1, <3>1, <3>3, <3>4 DEF OwnInv, IsUser
  <2>. QED  BY <2>2, <2>3
<1>. QED  BY <1>1, <1>2 DEF OwnInv, Stays, IsUser

\* Two merges that read one line in a guest's cart, or in different ones, give it to one user.
LEMMA TheirsAfterCommit ==
  ASSUME OneUserPerToken, CartInv, UnitsInv, NEW r \in Requests, Commit(r), NEW q \in Requests, q # r, Stays(q)
  PROVE  TheirsInv(q)'
<1>1. /\ TheirsInv(q) /\ TheirsInv(r) /\ Theirs(q)' = Theirs(q) /\ RowsInv /\ TypeOK
      /\ GuestInv(r) /\ GuestInv(q) /\ MineInv(r) /\ MineInv(q) /\ SeenInv(q) /\ SeenInv(r) /\ WroteInv(r)
  BY DEF CartInv, RowsInv, UnitsInv, Theirs, Stays
<1>. SUFFICES ASSUME guest[q] # None, NEW l \in Theirs(q)
              PROVE  \/ lines'[l].cart \in {None, guest[q]}
                     \/ cart'[guest[q]].status = "deleted" /\ OwnerOf(l)' = job[q].owner
  BY <1>1 DEF TheirsInv, Stays
<1>2. /\ l \in Lines /\ lines[l].sku # None /\ lines[l] \in LineRow /\ guest[q] \in Carts
      /\ job[q].kind = "merge" /\ job[q] \in Jobs[q]
  BY <1>1 DEF Theirs, SeenInv, TypeOK, GuestInv, MineInv
<1>3. /\ cart[guest[q]].status = "deleted" => cart'[guest[q]].status = "deleted"
      /\ guest[q] = guest[r] => cart'[guest[q]].status = "deleted"
  BY <1>2, NoneAssumption, CommitLines
<1>4. \/ lines[l].cart \in {None, guest[q]}
      \/ cart[guest[q]].status = "deleted" /\ OwnerOf(l) = job[q].owner
  BY <1>1 DEF TheirsInv
<1>5. CASE l \notin DOMAIN pend[r]
  BY <1>2, <1>3, <1>4, <1>5, CommitLines
<1>6. CASE l \in DOMAIN pend[r] /\ pend[r][l].cart = None
  BY <1>2, <1>6, CommitLines
<1>7. CASE l \in DOMAIN pend[r] /\ l \in Own(r) /\ pend[r][l].cart = lines[l].cart
  <2>1. lines'[l] = pend[r][l] /\ (lines[l].cart # guest[r] \/ guest[r] = None)
    BY <1>1, <1>2, <1>7, CommitLines DEF GuestInv
  <2>2. /\ lines[l].cart \in Carts /\ lines[l].cart # None /\ (lines[l].cart = mine[r] => ~isNew[r])
    BY <1>1, <1>2, <1>7, OwnOwner DEF LineRow
  <2>3. lines[l].cart # guest[r]
    BY <2>1, <2>2
  <2>4. cart'[lines[l].cart] = cart[lines[l].cart] /\ lines'[l].cart = lines[l].cart
    BY <1>2, <1>7, <2>2, <2>3, CommitLines
  <2>. QED  BY <1>3, <1>4, <2>4 DEF OwnerOf
<1>8. CASE /\ l \in DOMAIN pend[r] /\ l \in Theirs(r) /\ lines[l].cart # None
           /\ pend[r][l] = [lines[l] EXCEPT !.cart = mine[r]]
  <2>1. guest[r] # None /\ job[r].kind = "merge" /\ job[r] \in Jobs[r]
    BY <1>1, <1>8 DEF Theirs, SeenInv, GuestInv, MineInv
  <2>2. OwnerOf(l)' = job[r].owner
    BY <1>2, <1>8, CommitLines DEF LineRow, OwnerOf
  <2>3. lines[l].cart = guest[r] => OwnerOf(l) = job[r].token /\ cart[guest[r]].status # "deleted"
    BY <1>2, <2>1, GuestOwner
  <2>4. lines[l].cart = guest[q] => OwnerOf(l) = job[q].token /\ cart[guest[q]].status # "deleted"
    BY <1>2, GuestOwner
  <2>5. lines[l].cart = guest[r] \/ OwnerOf(l) = job[r].owner
    BY <1>1, <1>8, <2>1 DEF TheirsInv
  <2>6. CASE lines[l].cart = guest[q]
    <3>1. lines[l].cart = guest[r]
      BY <1>2, <2>1, <2>4, <2>5, <2>6, TokensAssumption
    <3>2. job[r].owner = job[q].owner
      BY <1>2, <2>1, <2>3, <2>4, <2>6, <3>1 DEF OneUserPerToken
    <3>. QED  BY <1>3, <2>2, <2>6, <3>1, <3>2
  <2>7. CASE lines[l].cart # guest[q]
    <3>1. cart[guest[q]].status = "deleted" /\ OwnerOf(l) = job[q].owner
      BY <1>4, <1>8, <2>7
    <3>2. lines[l].cart # guest[r]
      BY <1>2, <2>1, <2>3, <3>1, TokensAssumption
    <3>. QED  BY <1>3, <2>2, <2>5, <3>1, <3>2
  <2>. QED  BY <2>6, <2>7
<1>. QED  BY <1>1, <1>2, <1>5, <1>6, <1>7, <1>8 DEF WroteInv, Free


LEMMA WritesAfterCommit ==
  ASSUME CartInv, UnitsInv, NEW r \in Requests, Commit(r), NEW q \in Requests, q # r, Stays(q)
  PROVE  WroteInv(q)' /\ AddInv(q)' /\ FoldInv(q)'
<1>1. /\ WroteInv(q) /\ AddInv(q) /\ FoldInv(q) /\ OwnInv(r) /\ WroteInv(r)
      /\ Own(q)' = Own(q) /\ Theirs(q)' = Theirs(q) /\ RowsInv /\ TypeOK
      /\ GuestInv(q) /\ MineInv(r) /\ PendInv(q) /\ SeenInv(q) /\ pend'[q] = pend[q]
  BY DEF CartInv, RowsInv, UnitsInv, Own, Theirs, Stays
<1>2. \A l \in DOMAIN pend[q] : l \in Lines /\ lines'[l] = lines[l]
  <2>1. \A l \in DOMAIN pend[q] : l \in Lines /\ l \notin DOMAIN pend[r]
    BY <1>1 DEF PendInv
  <2>. QED  BY <2>1, CommitLines
<1>3. WroteInv(q)' /\ AddInv(q)'
  <2>1. WroteInv(q)'
    BY <1>1, <1>2 DEF WroteInv, Stays
  <2>2. AddInv(q)'
    BY <1>1, <1>2 DEF AddInv, Stays
  <2>. QED  BY <2>1, <2>2
\* A line that is gone stays gone.
<1>4. ASSUME NEW l \in Lines, lines[l].cart = None, lines[l].sku # None PROVE lines'[l].cart = None
  <2>1. CASE l \notin DOMAIN pend[r]
    BY <1>4, <2>1, CommitLines
  <2>2. CASE l \in DOMAIN pend[r]
    <3>1. l \notin Own(r)
      BY <1>4, OwnOwner
    <3>2. lines[l] # Free
      BY <1>4 DEF Free
    <3>3. WroteInv(r)
      BY <1>1
    <3>. QED  BY <1>4, <2>2, <3>1, <3>2, <3>3 DEF WroteInv
  <2>. QED  BY <2>1, <2>2
<1>5. ASSUME NEW l \in Theirs(q), Folded(q, l) PROVE Folded(q, l)'
  <2>1. l \in Lines /\ lines[l].sku # None
    BY <1>1 DEF Theirs, SeenInv
  <2>. QED  BY <1>1, <1>2, <1>4, <1>5, <2>1 DEF Folded, Stays
<1>6. FoldInv(q)'
  <2>1. guest[q] # None /\ cart'[guest[q]].status # "deleted" => cart[guest[q]].status # "deleted"
    BY <1>1, CommitLines DEF TypeOK
  <2>. QED  BY <1>1, <1>5, <2>1 DEF FoldInv, Stays
<1>. QED  BY <1>3, <1>6

LEMMA UnitsAfterCommit ==
  ASSUME OneUserPerToken, CartInv, UnitsInv, NEW r \in Requests, Commit(r)
  PROVE  UnitsInv'
<1>1. /\ pc' = [pc EXCEPT ![r] = "done"] /\ mine' = [mine EXCEPT ![r] = None]
      /\ seen' = [seen EXCEPT ![r] = Empty] /\ pend' = [pend EXCEPT ![r] = Empty]
  BY DEF Commit, End, Goto
<1>2. DOMAIN Empty = {}
  BY DEF Empty
<1>3. mine'[r] = None /\ DOMAIN seen'[r] = {} /\ DOMAIN pend'[r] = {} /\ pc'[r] = "done"
  BY <1>1, <1>2 DEF CartInv, RowsInv, TypeOK
<1>4. \A q \in Requests : q # r => Stays(q)
  BY OthersStay DEF Advance
<1>5. ASSUME NEW q \in Requests
      PROVE  OwnInv(q)' /\ TheirsInv(q)' /\ WroteInv(q)' /\ AddInv(q)' /\ FoldInv(q)'
  <2>1. CASE q # r
    BY <1>4, <2>1, OwnAfterCommit, TheirsAfterCommit, WritesAfterCommit
  <2>2. CASE q = r
    <3>1. Own(r)' = {} /\ Theirs(r)' = {}
      BY <1>3 DEF Own, Theirs
    <3>. QED  BY <1>3, <2>2, <3>1 DEF OwnInv, TheirsInv, WroteInv, AddInv, FoldInv
  <2>. QED  BY <2>1, <2>2
<1>6. OneEditor'
  BY <1>3, <1>4 DEF UnitsInv, OneEditor, Stays
<1>. QED  BY <1>5, <1>6 DEF UnitsInv

LEMMA UnitsAfterConvert ==
  ASSUME CartInv, UnitsInv, NEW c \in Carts, Convert(c)
  PROVE  UnitsInv'
<1>1. /\ cart[c].status = "draft" /\ cart' = [cart EXCEPT ![c].status = "converted"]
      /\ lines' = lines /\ pc' = pc /\ job' = job /\ mine' = mine
      /\ isNew' = isNew /\ guest' = guest /\ seen' = seen /\ todo' = todo /\ pend' = pend
  BY DEF Convert, reqVars
<1>2. cart \in [Carts -> CartRow] /\ lines \in [Lines -> LineRow]
  BY DEF CartInv, RowsInv, TypeOK
<1>3. \A d \in Carts : /\ cart'[d].owner = cart[d].owner
                       /\ cart'[d].status = "deleted" <=> cart[d].status = "deleted"
  BY <1>1, <1>2 DEF CartRow
<1>4. \A l \in Lines : lines[l].cart # None => OwnerOf(l)' = OwnerOf(l)
  BY <1>1, <1>2, <1>3 DEF OwnerOf, LineRow
<1>5. ASSUME NEW r \in Requests
      PROVE  OwnInv(r)' /\ TheirsInv(r)' /\ WroteInv(r)' /\ AddInv(r)' /\ FoldInv(r)'
  <2>1. /\ OwnInv(r) /\ TheirsInv(r) /\ WroteInv(r) /\ AddInv(r) /\ FoldInv(r)
        /\ SeenInv(r) /\ guest[r] \in Carts \cup {None}
    BY DEF CartInv, RowsInv, TypeOK, UnitsInv
  <2>2. Own(r)' = Own(r) /\ Theirs(r)' = Theirs(r) /\ \A l : Folded(r, l)' <=> Folded(r, l)
    BY <1>1 DEF Own, Theirs, Folded
  <2>3. \A l \in DOMAIN seen[r] : l \in Lines
    BY <2>1 DEF SeenInv
  <2>4. OwnInv(r)'
    BY <1>1, <1>4, <2>1, <2>2, <2>3 DEF OwnInv, Own
  <2>5. TheirsInv(r)'
    BY <1>1, <1>3, <1>4, <2>1, <2>2, <2>3 DEF TheirsInv, Theirs
  <2>6. WroteInv(r)' /\ AddInv(r)'
    <3>1. WroteInv(r)'
      BY <1>1, <2>1, <2>2 DEF WroteInv
    <3>2. AddInv(r)'
      BY <1>1, <2>1 DEF AddInv
    <3>. QED  BY <3>1, <3>2
  <2>7. FoldInv(r)'
    BY <1>1, <1>3, <2>1, <2>2 DEF FoldInv
  <2>. QED  BY <2>4, <2>5, <2>6, <2>7
<1>6. OneEditor'
  BY <1>1 DEF UnitsInv, OneEditor
<1>. QED  BY <1>5, <1>6 DEF UnitsInv

LEMMA UnitsInit == Init => UnitsInv
<1>. SUFFICES ASSUME Init PROVE UnitsInv
  OBVIOUS
<1>1. DOMAIN Empty = {}
  BY DEF Empty
<1>2. \A r \in Requests : /\ pc[r] = "idle" /\ mine[r] = None /\ guest[r] = None
                          /\ DOMAIN seen[r] = {} /\ DOMAIN pend[r] = {}
  BY <1>1 DEF Init
<1>3. \A r \in Requests : OwnInv(r) /\ TheirsInv(r) /\ WroteInv(r) /\ AddInv(r) /\ FoldInv(r)
  BY <1>2 DEF OwnInv, Own, TheirsInv, WroteInv, AddInv, FoldInv
<1>. QED  BY <1>2, <1>3 DEF UnitsInv, OneEditor

LEMMA UnitsAfterAdvance ==
  ASSUME OneUserPerToken, CartInv, UnitsInv, NEW r \in Requests, Advance(r)
  PROVE  UnitsInv'
<1>1. CASE Fail(r)
  BY <1>1, UnitsAfterEnd
<1>2. CASE ~Fail(r)
  BY <1>2, UnitsAfterResolve, UnitsAfterReadItem, UnitsAfterInsertItem, UnitsAfterUpdateItem,
     UnitsAfterRemoveItem, UnitsAfterReadGuest, UnitsAfterLoadLines, UnitsAfterFoldLine,
     UnitsAfterDropGuest, UnitsAfterCommit DEF Advance
<1>. QED  BY <1>1, <1>2

LEMMA UnitsInvariant ==
  ASSUME OneUserPerToken PROVE Spec => []UnitsInv
<1>1. CartInv /\ UnitsInv /\ [Next]_vars => UnitsInv'
  <2>. SUFFICES ASSUME CartInv, UnitsInv, [Next]_vars PROVE UnitsInv'
    OBVIOUS
  <2>1. ASSUME NEW r \in Requests, NEW j \in Jobs[r], Begin(r, j) PROVE UnitsInv'
    BY <2>1, UnitsAfterBegin
  <2>2. ASSUME NEW r \in Requests, Advance(r) PROVE UnitsInv'
    BY <2>2, UnitsAfterAdvance
  <2>3. ASSUME NEW r \in Requests, Abort(r) \/ DeadlockAbort(r) PROVE UnitsInv'
    BY <2>3, UnitsAfterEnd DEF Abort, DeadlockAbort
  <2>4. ASSUME NEW c \in Carts, Convert(c) PROVE UnitsInv'
    BY <2>4, UnitsAfterConvert
  <2>5. CASE UNCHANGED vars
    <3>1. /\ cart' = cart /\ lines' = lines /\ pc' = pc /\ job' = job /\ mine' = mine /\ isNew' = isNew
          /\ guest' = guest /\ seen' = seen /\ todo' = todo /\ pend' = pend
      BY <2>5 DEF vars
    <3>2. \A r : /\ Own(r)' = Own(r) /\ Theirs(r)' = Theirs(r) /\ (OwnerOf(r)' = OwnerOf(r))
                 /\ \A l : Folded(r, l)' <=> Folded(r, l)
      BY <3>1 DEF Own, Theirs, OwnerOf, Folded
    <3>3. OneEditor'
      BY <3>1 DEF UnitsInv, OneEditor
    <3>4. ASSUME NEW r \in Requests
          PROVE  OwnInv(r)' /\ TheirsInv(r)' /\ WroteInv(r)' /\ AddInv(r)' /\ FoldInv(r)'
      <4>1. OwnInv(r) /\ TheirsInv(r) /\ WroteInv(r) /\ AddInv(r) /\ FoldInv(r)
        BY DEF UnitsInv
      <4>2. OwnInv(r)' /\ TheirsInv(r)' /\ FoldInv(r)'
        BY <3>1, <3>2, <4>1 DEF OwnInv, TheirsInv, FoldInv
      <4>3. WroteInv(r)'
        BY <3>1, <3>2, <4>1 DEF WroteInv
      <4>4. AddInv(r)'
        BY <3>1, <4>1 DEF AddInv
      <4>. QED  BY <4>2, <4>3, <4>4
    <3>. QED  BY <3>3, <3>4 DEF UnitsInv
  <2>. QED  BY <2>1, <2>2, <2>3, <2>4, <2>5 DEF Next
<1>. QED  BY UnitsInit, CartInvariant, <1>1, PTL DEF Spec


-----------------------------------------------------------------------------
\* Sums of quantities.

LEMMA UnitsFinite ==
  ASSUME NEW rows, NEW s, \A l \in Lines : rows[l].qty \in Nat
  PROVE  IsFiniteSet(UnitsOf(rows, s))
<1>. DEFINE rowsOf == {k \in Lines : rows[k].sku = s}
            f == [l \in rowsOf |-> {l} \X (1 .. rows[l].qty)]
            sets == {{l} \X (1 .. rows[l].qty) : l \in rowsOf}
<1>1. IsFiniteSet(rowsOf)
  BY TablesAssumption, FS_Subset
<1>2. f \in Surjection(rowsOf, sets)
  BY DEF Surjection
<1>3. IsFiniteSet(sets)
  BY <1>1, <1>2, FS_Surjection DEF ExistsSurjection
<1>4. ASSUME NEW x \in sets PROVE IsFiniteSet(x)
  <2>1. PICK l \in rowsOf : x = {l} \X (1 .. rows[l].qty)
    OBVIOUS
  <2>2. IsFiniteSet({l}) /\ IsFiniteSet(1 .. rows[l].qty)
    <3>1. rows[l].qty \in Int /\ 1 \in Int
      OBVIOUS
    <3>2. IsFiniteSet(1 .. rows[l].qty)
      BY <3>1, FS_Interval
    <3>. QED  BY <3>2, FS_Singleton
  <2>. QED  BY <2>1, <2>2, FS_Product
<1>. HIDE DEF sets
<1>5. IsFiniteSet(UNION sets)
  BY <1>3, <1>4, FS_UNION
<1>. QED  BY <1>5 DEF UnitsOf, sets

\* One row's quantity grows by n, or a row for s appears with n: so many units more of s.
LEMMA UnitsGrow ==
  ASSUME NEW rows, NEW new, NEW s, NEW l \in Lines, NEW n \in Nat, NEW a \in Nat,
         \A k \in Lines : rows[k].qty \in Nat /\ new[k].qty \in Nat,
         \A k \in Lines : k # l => new[k] = rows[k],
         new[l].sku = s, new[l].qty = a + n,
         IF rows[l].sku = s THEN a = rows[l].qty ELSE a = 0
  PROVE  AllUnits(new, s) = AllUnits(rows, s) + n
<1>. DEFINE N == {l} \X ((a + 1) .. (a + n))
<1>1. IsFiniteSet(N) /\ Cardinality(N) = n
  <2>1. IsFiniteSet({l}) /\ Cardinality({l}) = 1
    BY FS_Singleton
  <2>2. IsFiniteSet((a + 1) .. (a + n)) /\ Cardinality((a + 1) .. (a + n)) = n
    BY FS_Interval
  <2>3. IsFiniteSet(N) /\ Cardinality(N) = 1 * n
    BY <2>1, <2>2, FS_Product
  <2>. QED  BY <2>3
<1>2. \A u : u \in UnitsOf(rows, s) <=> \E k \in Lines : rows[k].sku = s /\ u \in {k} \X (1 .. rows[k].qty)
  BY DEF UnitsOf
<1>3. \A u : u \in UnitsOf(new, s) <=> \E k \in Lines : new[k].sku = s /\ u \in {k} \X (1 .. new[k].qty)
  BY DEF UnitsOf
<1>4. {l} \X (1 .. (a + n)) = ({l} \X (1 .. a)) \cup N
  OBVIOUS
<1>5. ({l} \X (1 .. a)) \cap N = {}
  OBVIOUS
<1>6. rows[l].sku # s => {l} \X (1 .. a) = {}
  OBVIOUS
<1>. HIDE DEF N
<1>7. UnitsOf(new, s) \subseteq UnitsOf(rows, s) \cup N
  <2>. SUFFICES ASSUME NEW u \in UnitsOf(new, s) PROVE u \in UnitsOf(rows, s) \cup N
    OBVIOUS
  <2>1. PICK k \in Lines : new[k].sku = s /\ u \in {k} \X (1 .. new[k].qty)
    BY <1>3
  <2>. QED  BY <1>2, <1>4, <1>6, <2>1
<1>8. UnitsOf(rows, s) \cup N \subseteq UnitsOf(new, s)
  <2>1. N \subseteq UnitsOf(new, s)
    BY <1>3, <1>4
  <2>2. ASSUME NEW u \in UnitsOf(rows, s) PROVE u \in UnitsOf(new, s)
    <3>1. PICK k \in Lines : rows[k].sku = s /\ u \in {k} \X (1 .. rows[k].qty)
      BY <1>2
    <3>. QED  BY <1>3, <1>4, <3>1
  <2>. QED  BY <2>1, <2>2
<1>9. UnitsOf(rows, s) \cap N = {}
  <2>. SUFFICES ASSUME NEW u \in UnitsOf(rows, s), u \in N PROVE FALSE
    OBVIOUS
  <2>1. PICK k \in Lines : rows[k].sku = s /\ u \in {k} \X (1 .. rows[k].qty)
    BY <1>2
  <2>2. k = l
    BY <2>1 DEF N
  <2>. QED  BY <1>5, <2>1, <2>2
<1>10. UnitsOf(new, s) = UnitsOf(rows, s) \cup N
  BY <1>7, <1>8
<1>11. IsFiniteSet(UnitsOf(rows, s))
  BY UnitsFinite
<1>12. Cardinality(UnitsOf(rows, s)) \in Nat /\ Cardinality({}) = 0
  BY <1>11, FS_CardinalityType, FS_EmptySet
<1>13. Cardinality(UnitsOf(new, s)) = Cardinality(UnitsOf(rows, s)) + n
  BY <1>1, <1>9, <1>10, <1>11, <1>12, FS_Union
<1>. QED  BY <1>13 DEF AllUnits

\* The two ways a row comes to count n units more: it has some already, or it is a new row.
RowGains(rows, new, s, l, n) ==
  /\ n \in Nat
  /\ \A k \in Lines : rows[k].qty \in Nat /\ new[k].qty \in Nat
  /\ \A k \in Lines : k # l => new[k] = rows[k]
  /\ rows[l].sku = s /\ new[l].sku = s /\ new[l].qty = rows[l].qty + n

RowAppears(rows, new, s, l, n) ==
  /\ n \in Nat
  /\ \A k \in Lines : rows[k].qty \in Nat /\ new[k].qty \in Nat
  /\ \A k \in Lines : k # l => new[k] = rows[k]
  /\ rows[l].sku # s /\ new[l].sku = s /\ new[l].qty = n

LEMMA GainedUnits ==
  ASSUME NEW rows, NEW new, NEW s, NEW l \in Lines, NEW n, RowGains(rows, new, s, l, n)
  PROVE  AllUnits(new, s) = AllUnits(rows, s) + n
<1>1. /\ n \in Nat
      /\ \A k \in Lines : rows[k].qty \in Nat /\ new[k].qty \in Nat
      /\ \A k \in Lines : k # l => new[k] = rows[k]
      /\ rows[l].sku = s /\ new[l].sku = s /\ new[l].qty = rows[l].qty + n
  BY DEF RowGains
<1>2. ASSUME NEW a \in Nat, a = rows[l].qty PROVE AllUnits(new, s) = AllUnits(rows, s) + n
  <2>1. (IF rows[l].sku = s THEN a = rows[l].qty ELSE a = 0) /\ new[l].qty = a + n
    BY <1>1, <1>2
  <2>. HIDE <1>2
  <2>. QED  BY <1>1, <2>1, UnitsGrow, SMTT(60)
<1>. QED  BY <1>1, <1>2

LEMMA AppearedUnits ==
  ASSUME NEW rows, NEW new, NEW s, NEW l \in Lines, NEW n, RowAppears(rows, new, s, l, n)
  PROVE  AllUnits(new, s) = AllUnits(rows, s) + n
<1>1. /\ n \in Nat
      /\ \A k \in Lines : rows[k].qty \in Nat /\ new[k].qty \in Nat
      /\ \A k \in Lines : k # l => new[k] = rows[k]
      /\ rows[l].sku # s /\ new[l].sku = s /\ new[l].qty = n
  BY DEF RowAppears
<1>2. (IF rows[l].sku = s THEN 0 = rows[l].qty ELSE 0 = 0) /\ new[l].qty = 0 + n /\ 0 \in Nat
  BY <1>1
<1>. QED  BY <1>1, <1>2, UnitsGrow, SMTT(60)

\* A request that is done in a step was committed by it.
LEMMA DoneByCommit ==
  ASSUME CartInv, Next, NEW r \in Requests, pc[r] = "commit", pc'[r] = "done"
  PROVE  Commit(r)
<1>1. TypeOK
  BY DEF CartInv, RowsInv
<1>2. ASSUME Fail(r) PROVE FALSE
  <2>1. pc' = [pc EXCEPT ![r] = "failed"]
    BY <1>2 DEF Fail, End, Goto
  <2>. QED  BY <1>1, <2>1 DEF TypeOK
<1>3. ASSUME NEW q \in Requests, q # r, Advance(q) \/ Fail(q) \/ \E j \in Jobs[q] : Begin(q, j) PROVE FALSE
  BY <1>3, OthersStay DEF Stays
<1>4. ASSUME NEW j, Begin(r, j) PROVE FALSE
  BY <1>4 DEF Begin
<1>5. ASSUME NEW c, Convert(c) PROVE FALSE
  BY <1>5 DEF Convert
<1>6. Advance(r)
  BY <1>2, <1>3, <1>4, <1>5 DEF Next, Abort, DeadlockAbort
<1>. QED  BY <1>6 DEF Advance, Resolve, ReadItem, InsertItem, UpdateItem, RemoveItem, ReadGuest, LoadLines,
                      FoldLine, DropGuest

-----------------------------------------------------------------------------
\* The theorems on quantities.

\* Whatever else adds to, edits, merges or checks out the same cart meanwhile, an addition
\* that succeeds adds its units: the row it read without a lock (get_item before
\* add_or_increment_item) is covered by the lock on the cart.
THEOREM AdditionsCount ==
  ASSUME OneUserPerToken PROVE Spec => AddCounts
<1>1. CartInv /\ UnitsInv /\ [Next]_vars =>
        \A r \in Requests : pc[r] = "commit" /\ pc'[r] = "done" /\ job[r].kind = "add" =>
          AllUnits(lines', job[r].sku) = AllUnits(lines, job[r].sku) + job[r].n
  <2>. SUFFICES ASSUME CartInv, UnitsInv, [Next]_vars, NEW r \in Requests,
                       pc[r] = "commit", pc'[r] = "done", job[r].kind = "add"
                PROVE  AllUnits(lines', job[r].sku) = AllUnits(lines, job[r].sku) + job[r].n
    OBVIOUS
  <2>1. Commit(r)
    <3>1. Next
      BY DEF vars
    <3>. QED  BY <3>1, DoneByCommit
  <2>2. TypeOK /\ MineInv(r) /\ AddInv(r)
    BY DEF CartInv, RowsInv, UnitsInv
  <2>3. job[r].n \in Nat /\ job[r].sku # None
    BY <2>2, JobsAssumption, NoneAssumption DEF MineInv
  <2>4. PICK l \in Lines :
          /\ DOMAIN pend[r] = {l}
          /\ \/ lines[l] = Free /\ pend[r][l] = [cart |-> mine[r], sku |-> job[r].sku, qty |-> job[r].n]
             \/ /\ lines[l].cart # None /\ lines[l].sku = job[r].sku
                /\ pend[r][l] = [lines[l] EXCEPT !.qty = @ + job[r].n]
    BY <2>2 DEF AddInv
  <2>5. lines \in [Lines -> LineRow] /\ lines' \in [Lines -> LineRow]
    BY <2>1, <2>2, CommitRows DEF TypeOK
  <2>6. \A k \in Lines : lines[k].qty \in Nat /\ lines'[k].qty \in Nat
    BY <2>5 DEF LineRow
  <2>7. lines'[l] = pend[r][l] /\ \A k \in Lines : k # l => lines'[k] = lines[k]
    BY <2>1, <2>4, CommitLines
  <2>8. ASSUME NEW old, NEW new, NEW s, NEW n, old = lines, new = lines', s = job[r].sku, n = job[r].n
        PROVE  AllUnits(new, s) = AllUnits(old, s) + n
    <3>1. n \in Nat
      BY <2>3, <2>8
    <3>2. \A k \in Lines : old[k].qty \in Nat /\ new[k].qty \in Nat
      BY <2>6, <2>8
    <3>3. \A k \in Lines : k # l => new[k] = old[k]
      BY <2>7, <2>8
    <3>4. new[l].sku = s
      BY <2>4, <2>5, <2>7, <2>8 DEF LineRow
    <3>5. CASE lines[l] = Free /\ pend[r][l] = [cart |-> mine[r], sku |-> job[r].sku, qty |-> job[r].n]
      <4>1. old[l].sku # s /\ new[l].qty = n
        BY <2>3, <2>7, <2>8, <3>5 DEF Free
      <4>2. RowAppears(old, new, s, l, n)
        BY <3>1, <3>2, <3>3, <3>4, <4>1 DEF RowAppears
      <4>. QED  BY <4>2, AppearedUnits
    <3>6. CASE lines[l].sku = job[r].sku /\ pend[r][l] = [lines[l] EXCEPT !.qty = @ + job[r].n]
      <4>1. old[l].sku = s /\ new[l].qty = old[l].qty + n
        BY <2>5, <2>7, <2>8, <3>6 DEF LineRow
      <4>2. RowGains(old, new, s, l, n)
        BY <3>1, <3>2, <3>3, <3>4, <4>1 DEF RowGains
      <4>. QED  BY <4>2, GainedUnits
    <3>. QED  BY <2>4, <3>5, <3>6
  <2>. QED  BY <2>8
<1>. QED  BY <1>1, CartInvariant, UnitsInvariant, PTL DEF Spec, AddCounts

\* A merge that succeeds hands every line it read in the guest's cart to the user once,
\* although it reads the guest's cart and both carts' lines without a lock, against edits of
\* either cart, checkouts and the same merge sent again (merge_guest_into_user).
THEOREM MergesHandOver ==
  ASSUME OneUserPerToken PROVE Spec => MergedOnce
<1>. DEFINE Handed(r) ==
       pc[r] = "commit" /\ pc'[r] = "done" /\ guest[r] # None /\ cart[guest[r]].status # "deleted" =>
         /\ cart'[guest[r]].status = "deleted"
         /\ \A l \in DOMAIN seen[r] : seen[r][l].cart = guest[r] =>
              \/ lines'[l] = [lines[l] EXCEPT !.cart = mine[r]]
              \/ /\ lines'[l].cart = None
                 /\ \E t \in DOMAIN seen[r] :
                      /\ seen[r][t].cart = mine[r] /\ seen[r][t].sku = seen[r][l].sku
                      /\ lines'[t] = [lines[t] EXCEPT !.qty = @ + seen[r][l].qty]
<1>1. CartInv /\ UnitsInv /\ [Next]_vars => \A r \in Requests : Handed(r)
  <2>. SUFFICES ASSUME CartInv, UnitsInv, [Next]_vars, NEW r \in Requests,
                       pc[r] = "commit", pc'[r] = "done", guest[r] # None, cart[guest[r]].status # "deleted"
                PROVE  /\ cart'[guest[r]].status = "deleted"
                       /\ \A l \in Theirs(r) :
                            \/ lines'[l] = [lines[l] EXCEPT !.cart = mine[r]]
                            \/ /\ lines'[l].cart = None
                               /\ \E t \in Own(r) :
                                    /\ seen[r][t].sku = seen[r][l].sku
                                    /\ lines'[t] = [lines[t] EXCEPT !.qty = @ + seen[r][l].qty]
    BY DEF Own, Theirs
  <2>1. Commit(r)
    <3>1. Next
      BY DEF vars
    <3>. QED  BY <3>1, DoneByCommit
  <2>2. /\ TypeOK /\ PendInv(r) /\ SeenInv(r) /\ WroteInv(r) /\ FoldInv(r)
        /\ \A l \in DOMAIN pend[r] : l \in Lines
    BY DEF CartInv, RowsInv, UnitsInv, PendInv
  <2>3. \A l \in DOMAIN pend[r] : lines'[l] = pend[r][l]
    BY <2>1, <2>2, CommitLines
  <2>4. ASSUME NEW l \in Theirs(r)
        PROVE  \/ lines'[l] = [lines[l] EXCEPT !.cart = mine[r]]
               \/ /\ lines'[l].cart = None
                  /\ \E t \in Own(r) :
                       /\ seen[r][t].sku = seen[r][l].sku
                       /\ lines'[t] = [lines[t] EXCEPT !.qty = @ + seen[r][l].qty]
    <3>1. Folded(r, l)
      BY <2>2 DEF FoldInv
    <3>2. CASE l \in DOMAIN pend[r] /\ pend[r][l] = [lines[l] EXCEPT !.cart = mine[r]]
      BY <2>3, <3>2
    <3>3. CASE /\ lines[l].cart = None \/ (l \in DOMAIN pend[r] /\ pend[r][l].cart = None)
               /\ \E t \in Own(r) \cap DOMAIN pend[r] :
                    seen[r][t].sku = seen[r][l].sku /\ pend[r][t] = [lines[t] EXCEPT !.qty = @ + seen[r][l].qty]
      <4>1. lines'[l].cart = None
        <5>1. CASE l \in DOMAIN pend[r] /\ pend[r][l].cart = None
          BY <2>3, <5>1
        <5>2. CASE lines[l].cart = None
          <6>1. l \in Lines /\ lines[l] # Free
            BY <2>2 DEF SeenInv, Theirs, Free
          <6>2. l \notin DOMAIN pend[r]
            BY <2>2, <5>2, <6>1, OwnOwner DEF WroteInv
          <6>. QED  BY <2>1, <5>2, <6>1, <6>2, CommitLines
        <5>. QED  BY <3>3, <5>1, <5>2
      <4>2. PICK t \in Own(r) \cap DOMAIN pend[r] :
              seen[r][t].sku = seen[r][l].sku /\ pend[r][t] = [lines[t] EXCEPT !.qty = @ + seen[r][l].qty]
        BY <3>3
      <4>. QED  BY <2>3, <4>1, <4>2
    <3>. QED  BY <3>1, <3>2, <3>3 DEF Folded
  <2>. QED  BY <2>1, <2>4, CommitLines
<1>. QED  BY <1>1, CartInvariant, UnitsInvariant, PTL DEF Spec, MergedOnce

=============================================================================
