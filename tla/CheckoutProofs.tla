--------------------------- MODULE CheckoutProofs ---------------------------
(***************************************************************************)
(* For any number of requests, carts, coupons and stock rows: no oversell, *)
(* the usage limit of a coupon, that no circle of requests waits for its   *)
(* locks where no two stock rows share a product, and that Checkout        *)
(* implements Inventory.                                                   *)
(***************************************************************************)
EXTENDS Checkout, FiniteSetTheorems, NaturalsInduction, WellFoundedInduction, TLAPS

\* Every step keeps the type invariant.
LEMMA RollbackType ==
  ASSUME TypeOK, NEW r \in Requests, Rollback(r)
  PROVE  TypeOK'
BY NoneAssumption DEF TypeOK, Rollback, ReleaseLocks, Released, dbVars, NoUnits, Steps

LEMMA AdvanceType ==
  ASSUME TypeOK, NEW r \in Requests, Advance(r)
  PROVE  TypeOK'
<1>. USE NoneAssumption
<1>1. CASE LoadLines(r)
  <2>1. Purchasable(r) \in [Skus -> Nat]
    BY BindingAssumption DEF Purchasable, Wanted, TypeOK
  <2>2. CASE Rollback(r)
    BY <2>2, RollbackType
  <2>3. CASE ~ Rollback(r)
    <3>1. /\ lines' = [lines EXCEPT ![r] = Purchasable(r)]
          /\ Goto(r, "loaded")
          /\ UNCHANGED <<dbVars, lockVars, applied, todo, line>>
      BY <1>1, <2>3 DEF LoadLines
    <3>. QED  BY <2>1, <3>1 DEF TypeOK, Goto, dbVars, lockVars, Steps
  <2>. QED  BY <2>2, <2>3
<1>2. CASE ValidatePromo(r)
  <2>1. CASE Rollback(r)
    BY <2>1, RollbackType
  <2>2. CASE applied' = [applied EXCEPT ![r] = AppliedCode(r)] /\ Goto(r, "priced")
             /\ UNCHANGED <<dbVars, lockVars, lines, todo, line>>
    BY <2>2, BindingAssumption DEF AppliedCode, TypeOK, Goto, dbVars, lockVars, Steps
  <2>3. CASE (Goto(r, "priced") \/ Goto(r, "lock"))
             /\ UNCHANGED <<dbVars, lockVars, lines, applied, todo, line>>
    BY <2>3 DEF TypeOK, Goto, dbVars, lockVars, Steps
  <2>. QED  BY <1>2, <2>1, <2>2, <2>3 DEF ValidatePromo
<1>3. CASE LockPromo(r)
  BY <1>3 DEF LockPromo, TypeOK, Goto, dbVars, Steps
<1>4. CASE CountRedemptions(r)
  <2>1. CASE Rollback(r)
    BY <2>1, RollbackType
  <2>2. CASE applied' = [applied EXCEPT ![r] = AppliedCode(r)] /\ Goto(r, "priced")
             /\ UNCHANGED <<dbVars, lockVars, lines, todo, line>>
    BY <2>2, BindingAssumption DEF AppliedCode, TypeOK, Goto, dbVars, lockVars, Steps
  <2>. QED  BY <1>4, <2>1, <2>2 DEF CountRedemptions
<1>5. CASE PriceAndInsert(r)
  BY <1>5 DEF PriceAndInsert, TypeOK, Goto, dbVars, lockVars, Steps
<1>6. CASE ConvertCart(r)
  BY <1>6 DEF ConvertCart, TypeOK, Goto, dbVars, Steps, NextLines
<1>7. CASE DecrementStock(r)
  <2>1. CASE Rollback(r)
    BY <2>1, RollbackType
  <2>2. CASE ~ Rollback(r)
    <3>1. /\ stockLock' = [stockLock EXCEPT ![line[r]] = r]
          /\ todo' = [todo EXCEPT ![r] = @ \ {line[r]}]
          /\ \/ line' = [line EXCEPT ![r] = None]
             \/ \E t \in NextLines(todo'[r]) : line' = [line EXCEPT ![r] = t]
          /\ UNCHANGED <<dbVars, promoLock, cartLock, pc, lines, applied>>
      BY <1>7, <2>2 DEF DecrementStock
    <3>2. todo' \in [Requests -> SUBSET Skus]
      BY <3>1 DEF TypeOK
    <3>3. NextLines(todo'[r]) \subseteq Skus
      BY <3>2 DEF NextLines
    <3>4. line' \in [Requests -> Skus \cup {None}]
      BY <3>1, <3>3 DEF TypeOK
    <3>5. stockLock' \in [Skus -> Requests \cup {None}]
      BY <3>1 DEF TypeOK
    <3>. QED  BY <3>1, <3>2, <3>4, <3>5 DEF TypeOK, dbVars
  <2>. QED  BY <2>1, <2>2
<1>8. CASE Commit(r)
  BY <1>8 DEF Commit, TypeOK, Goto, ReleaseLocks, Released, Steps
<1>. QED  BY <1>1, <1>2, <1>3, <1>4, <1>5, <1>6, <1>7, <1>8 DEF Advance

\* Checkout keeps its types for every catalogue and every set of requests.
THEOREM TypeCorrect == Spec => []TypeOK
<1>1. Init => TypeOK
  BY NoneAssumption, CatalogAssumption DEF Init, TypeOK, NoUnits, Steps
<1>2. TypeOK /\ [Next]_vars => TypeOK'
  <2>. SUFFICES ASSUME TypeOK, [Next]_vars PROVE TypeOK'
    OBVIOUS
  <2>1. ASSUME NEW r \in Requests, Advance(r) \/ Abort(r) \/ DeadlockAbort(r)
        PROVE  TypeOK'
    BY <2>1, AdvanceType, RollbackType DEF Abort, DeadlockAbort
  <2>2. ASSUME NEW s \in EditableSkus, AdminToggleActive(s)
        PROVE  TypeOK'
    BY <2>2, CatalogAssumption DEF AdminToggleActive, TypeOK, lockVars, reqVars
  <2>3. ASSUME NEW s \in EditableSkus, NEW n \in StockLevels, AdminSetQty(s, n)
        PROVE  TypeOK'
    BY <2>3, CatalogAssumption DEF AdminSetQty, TypeOK, lockVars, reqVars
  <2>4. ASSUME NEW c \in Codes, AdminTogglePromo(c) \/ AdminDeletePromo(c)
        PROVE  TypeOK'
    <3>1. promo' \in [Codes -> [exists : BOOLEAN, usable : BOOLEAN]]
      <4>1. promo[c] \in [exists : BOOLEAN, usable : BOOLEAN]
        BY DEF TypeOK
      <4>2. [promo[c] EXCEPT !.usable = ~ @] \in [exists : BOOLEAN, usable : BOOLEAN]
        BY <4>1
      <4>3. [promo[c] EXCEPT !.exists = FALSE] \in [exists : BOOLEAN, usable : BOOLEAN]
        BY <4>1
      <4>. QED  BY <2>4, <4>2, <4>3 DEF AdminTogglePromo, AdminDeletePromo, TypeOK
    <3>. QED
      BY <2>4, <3>1 DEF AdminTogglePromo, AdminDeletePromo, TypeOK, lockVars, reqVars
  <2>5. ASSUME NEW c \in Carts, NEW s \in Skus, NEW n \in CartLevels, EditCart(c, s, n)
        PROVE  TypeOK'
    BY <2>5, CatalogAssumption DEF EditCart, TypeOK, lockVars, reqVars
  <2>6. CASE UNCHANGED vars
    BY <2>6 DEF vars, TypeOK
  <2>. QED  BY <2>1, <2>2, <2>3, <2>4, <2>5, <2>6 DEF Next
<1>. QED  BY <1>1, <1>2, PTL DEF Spec

-----------------------------------------------------------------------------
\* The inductive invariant behind NoOversell: what has been taken stays taken,
\* and a request that has no line left to take has taken all of them.
StockInv ==
  /\ TypeOK
  /\ NoOversell
  /\ TakenStockStays
  /\ \A r \in Requests : /\ pc[r] = "decrement" /\ line[r] = None => todo[r] = {}
                         /\ pc[r] \in InTransaction => lines[r] # NoUnits

\* A request whose transaction rolls back disturbs no other request's rows.
LEMMA RollbackStock ==
  ASSUME StockInv, TypeOK', NEW r \in Requests, Rollback(r)
  PROVE  StockInv'
BY NoneAssumption
   DEF StockInv, TypeOK, NoOversell, TakenStockStays, Rollback, ReleaseLocks, Released,
       dbVars, InTransaction

\* Each step of a transaction keeps the rows already taken.
LEMMA AdvanceStock ==
  ASSUME StockInv, TypeOK', NEW r \in Requests, Advance(r)
  PROVE  StockInv'
<1>. USE NoneAssumption DEF StockInv, NoOversell, TakenStockStays, InTransaction
<1>1. CASE Rollback(r)
  BY <1>1, RollbackStock
<1>2. CASE LoadLines(r) /\ ~ Rollback(r)
  <2>1. Purchasable(r) # NoUnits
    BY <1>2 DEF LoadLines
  <2>2. /\ lines' = [lines EXCEPT ![r] = Purchasable(r)]
        /\ pc' = [pc EXCEPT ![r] = "loaded"]
        /\ UNCHANGED <<dbVars, lockVars, todo, line>>
    BY <1>2 DEF LoadLines, Goto
  <2>. QED  BY <2>1, <2>2 DEF TypeOK, dbVars, lockVars
<1>3. CASE ValidatePromo(r) /\ ~ Rollback(r)
  <2>1. /\ pc[r] = "loaded"
        /\ pc' = [pc EXCEPT ![r] = "lock"] \/ pc' = [pc EXCEPT ![r] = "priced"]
        /\ UNCHANGED <<dbVars, lockVars, lines, todo, line>>
    BY <1>3 DEF ValidatePromo, Goto
  <2>2. \A q \in Requests : /\ pc'[q] = "decrement" <=> pc[q] = "decrement"
                            /\ pc'[q] \in InTransaction <=> pc[q] \in InTransaction
    BY <2>1 DEF TypeOK
  <2>. QED  BY <2>1, <2>2 DEF dbVars, lockVars
<1>4. CASE LockPromo(r)
  BY <1>4 DEF LockPromo, TypeOK, Goto, dbVars
<1>5. CASE CountRedemptions(r) /\ ~ Rollback(r)
  BY <1>5 DEF CountRedemptions, TypeOK, Goto, dbVars, lockVars
<1>6. CASE PriceAndInsert(r)
  BY <1>6 DEF PriceAndInsert, TypeOK, Goto, dbVars, lockVars
<1>7. CASE ConvertCart(r)
  <2>1. line'[r] # None
    BY <1>7 DEF ConvertCart, TypeOK, NextLines
  <2>2. \A s \in Skus \ todo'[r] : ~ lines[r][s] > 0
    BY <1>7 DEF ConvertCart, TypeOK
  <2>. QED  BY <1>7, <2>1, <2>2 DEF ConvertCart, TypeOK, Goto, dbVars
<1>8. CASE DecrementStock(r) /\ ~ Rollback(r)
  <2>1. /\ pc[r] = "decrement"
        /\ line[r] \in Skus
        /\ qty[line[r]] >= lines[r][line[r]]
        /\ stockLock[line[r]] = None
        /\ stockLock' = [stockLock EXCEPT ![line[r]] = r]
        /\ todo' = [todo EXCEPT ![r] = @ \ {line[r]}]
        /\ UNCHANGED <<dbVars, pc, lines>>
    BY <1>8 DEF DecrementStock, TypeOK
  <2>2. /\ \A q \in Requests \ {r} : line'[q] = line[q]
        /\ line'[r] = None => todo'[r] = {}
    BY <1>8 DEF DecrementStock, TypeOK, NextLines
  <2>3. ASSUME NEW q \in Requests, pc'[q] = "decrement",
               NEW s \in Skus \ todo'[q], lines'[q][s] > 0
        PROVE  stockLock'[s] = q /\ qty'[s] >= lines'[q][s]
    <3>1. CASE q = r /\ s = line[r]
      BY <2>1, <3>1 DEF TypeOK, dbVars
    <3>2. CASE ~ (q = r /\ s = line[r])
      BY <2>1, <2>3, <3>2 DEF TypeOK, dbVars
    <3>. QED  BY <3>1, <3>2
  <2>. QED  BY <2>1, <2>2, <2>3 DEF TypeOK, dbVars
<1>9. CASE Commit(r)
  <2>1. \A s \in Skus : lines[r][s] > 0 => stockLock[s] = r /\ qty[s] >= lines[r][s]
    BY <1>9 DEF Commit
  <2>2. NoOversell'
    <3>1. SUFFICES ASSUME NEW s \in Skus PROVE qty'[s] >= 0
      BY DEF NoOversell
    <3>2. /\ qty'[s] = qty[s] - lines[r][s]
          /\ qty[s] \in Int /\ qty[s] >= 0 /\ lines[r][s] \in Nat
      BY <1>9 DEF Commit, TypeOK
    <3>. QED  BY <2>1, <3>2
  <2>3. TakenStockStays'
    BY <1>9, <2>1 DEF Commit, TypeOK, Goto, ReleaseLocks, Released
  <2>. QED  BY <1>9, <2>2, <2>3 DEF Commit, TypeOK, Goto
<1>. QED
  BY <1>1, <1>2, <1>3, <1>4, <1>5, <1>6, <1>7, <1>8, <1>9 DEF Advance

\* What a checkout has taken stays taken, in every reachable state.
THEOREM StockInvariant == Spec => []StockInv
<1>1. Init => StockInv
  BY NoneAssumption, CatalogAssumption
  DEF Init, StockInv, TypeOK, NoOversell, TakenStockStays, InTransaction, NoUnits, Steps
<1>2. StockInv /\ TypeOK' /\ [Next]_vars => StockInv'
  <2>. SUFFICES ASSUME StockInv, TypeOK', [Next]_vars PROVE StockInv'
    OBVIOUS
  <2>1. ASSUME NEW r \in Requests, Advance(r) \/ Abort(r) \/ DeadlockAbort(r)
        PROVE  StockInv'
    BY <2>1, AdvanceStock, RollbackStock DEF Abort, DeadlockAbort
  <2>2. ASSUME NEW s \in EditableSkus, AdminToggleActive(s)
        PROVE  StockInv'
    BY <2>2 DEF AdminToggleActive, StockInv, NoOversell, TakenStockStays, lockVars, reqVars
  <2>3. ASSUME NEW s \in EditableSkus, NEW n \in StockLevels, AdminSetQty(s, n)
        PROVE  StockInv'
    BY <2>3, NoneAssumption, CatalogAssumption
    DEF AdminSetQty, StockInv, TypeOK, NoOversell, TakenStockStays, lockVars, reqVars
  <2>4. ASSUME NEW c \in Codes, AdminTogglePromo(c) \/ AdminDeletePromo(c)
        PROVE  StockInv'
    BY <2>4 DEF AdminTogglePromo, AdminDeletePromo, StockInv, NoOversell,
                TakenStockStays, lockVars, reqVars
  <2>5. ASSUME NEW c \in Carts, NEW s \in Skus, NEW n \in CartLevels, EditCart(c, s, n)
        PROVE  StockInv'
    BY <2>5 DEF EditCart, StockInv, NoOversell, TakenStockStays, lockVars, reqVars
  <2>6. CASE UNCHANGED vars
    BY <2>6 DEF vars, StockInv, NoOversell, TakenStockStays
  <2>. QED  BY <2>1, <2>2, <2>3, <2>4, <2>5, <2>6 DEF Next
<1>. QED  BY <1>1, <1>2, TypeCorrect, PTL DEF Spec

\* The stock rows are never oversold, for every set of requests and products.
THEOREM NeverOversold == Spec => []NoOversell
<1>1. StockInv => NoOversell
  BY DEF StockInv
<1>. QED  BY <1>1, StockInvariant, PTL

-----------------------------------------------------------------------------
\* The inductive invariant behind PromoLimit: while no coupon is deleted, the
\* redeemers of a limited coupon hold its row and count under it.
PromoInv ==
  /\ TypeOK
  /\ PromoLimit
  /\ RedeemersSerialized
  /\ \A c \in Codes : promo[c].exists
  /\ \A r \in Requests : /\ applied[r] \in {None, CodeOf[r]}
                         /\ pc[r] \in {"lock", "count"} => CodeOf[r] # None

\* The number of redemptions is a natural number.
LEMMA RedemptionsFinite ==
  ASSUME NEW c
  PROVE  IsFiniteSet(Redemptions(c)) /\ Cardinality(Redemptions(c)) \in Nat
<1>1. Redemptions(c) \subseteq Requests
  BY DEF Redemptions
<1>. QED  BY <1>1, RequestsAssumption, FS_Subset, FS_CardinalityType

\* A step after which the same orders carry the same coupons.
LEMMA SameRedemptions ==
  ASSUME \A r \in Requests : /\ pc'[r] = "placed" <=> pc[r] = "placed"
                             /\ pc[r] = "placed" => applied'[r] = applied[r],
         NEW c
  PROVE  Redemptions(c)' = Redemptions(c)
BY DEF Redemptions

\* Placing one order adds at most that order to a coupon's redemptions.
LEMMA OneMoreRedemption ==
  ASSUME NEW r \in Requests, pc' = [pc EXCEPT ![r] = "placed"], applied' = applied,
         TypeOK, pc[r] # "placed", NEW c
  PROVE  /\ applied[r] # c => Redemptions(c)' = Redemptions(c)
         /\ Cardinality(Redemptions(c)') =< Cardinality(Redemptions(c)) + 1
<1>1. applied[r] # c => Redemptions(c)' = Redemptions(c)
  BY DEF Redemptions, TypeOK
<1>2. applied[r] = c => Redemptions(c)' = Redemptions(c) \cup {r}
  BY DEF Redemptions, TypeOK
<1>3. IsFiniteSet(Redemptions(c)) /\ Cardinality(Redemptions(c)) \in Nat
  BY RedemptionsFinite
<1>4. Cardinality(Redemptions(c) \cup {r}) = IF r \in Redemptions(c)
                                             THEN Cardinality(Redemptions(c))
                                             ELSE Cardinality(Redemptions(c)) + 1
  BY <1>3, FS_AddElement, Zenon
<1>5. Cardinality(Redemptions(c) \cup {r}) =< Cardinality(Redemptions(c)) + 1
  BY <1>3, <1>4
<1>6. CASE applied[r] = c
  <2>1. Cardinality(Redemptions(c)') = Cardinality(Redemptions(c) \cup {r})
    BY <1>2, <1>6
  <2>. QED  BY <1>1, <1>5, <2>1
<1>7. CASE applied[r] # c
  <2>1. Cardinality(Redemptions(c)') = Cardinality(Redemptions(c))
    BY <1>1, <1>7
  <2>. QED  BY <1>1, <1>3, <2>1
<1>. QED  BY <1>6, <1>7

\* A rollback gives up the coupon row and redeems nothing.
LEMMA RollbackPromo ==
  ASSUME PromoInv, TypeOK', NEW r \in Requests, pc[r] # "placed", Rollback(r)
  PROVE  PromoInv'
<1>1. \A c : Redemptions(c)' = Redemptions(c)
  BY SameRedemptions DEF Rollback, PromoInv, TypeOK
<1>2. PromoLimit'
  BY <1>1 DEF PromoInv, PromoLimit
<1>3. RedeemersSerialized'
  <2>. SUFFICES ASSUME NEW q \in Requests,
                       CodeOf[q] # None,
                       Promo[CodeOf[q]].limit # None,
                       pc'[q] \in {"count", "priced", "convert", "decrement"}
                PROVE  /\ promoLock'[CodeOf[q]] = q
                       /\ \/ pc'[q] = "count"
                          \/ Cardinality(Redemptions(CodeOf[q])') < Promo[CodeOf[q]].limit
    BY DEF RedeemersSerialized
  <2>1. q # r /\ pc'[q] = pc[q]
    BY DEF Rollback, PromoInv, TypeOK
  <2>2. promoLock[CodeOf[q]] = q
    BY <2>1 DEF PromoInv, RedeemersSerialized
  <2>3. promoLock'[CodeOf[q]] = q
    <3>1. CodeOf[q] \in DOMAIN promoLock
      BY BindingAssumption DEF PromoInv, TypeOK
    <3>. QED  BY <2>1, <2>2, <3>1 DEF Rollback, ReleaseLocks, Released
  <2>4. pc'[q] = "count" \/ Cardinality(Redemptions(CodeOf[q])) < Promo[CodeOf[q]].limit
    BY <2>1 DEF PromoInv, RedeemersSerialized
  <2>. QED  BY <1>1, <2>3, <2>4
<1>. QED  BY <1>2, <1>3 DEF PromoInv, TypeOK, Rollback, dbVars

\* What every step but a commit owes: the same redemptions, and every redeemer
\* that is past the lock still holds it and still has room.
LEMMA PromoStep ==
  ASSUME PromoInv, TypeOK',
         \A r \in Requests : /\ pc'[r] = "placed" <=> pc[r] = "placed"
                             /\ pc[r] = "placed" => applied'[r] = applied[r],
         \A r \in Requests : /\ applied'[r] \in {None, CodeOf[r]}
                             /\ pc'[r] \in {"lock", "count"} => CodeOf[r] # None,
         \A c \in Codes : promo'[c].exists,
         \A r \in Requests :
           CodeOf[r] # None /\ Promo[CodeOf[r]].limit # None
             /\ pc'[r] \in {"count", "priced", "convert", "decrement"}
           => /\ promoLock'[CodeOf[r]] = r
              /\ pc'[r] = "count"
                 \/ Cardinality(Redemptions(CodeOf[r])) < Promo[CodeOf[r]].limit
  PROVE  PromoInv'
<1>1. \A c : Redemptions(c)' = Redemptions(c)
  BY SameRedemptions
<1>2. PromoLimit'
  BY <1>1 DEF PromoInv, PromoLimit
<1>3. RedeemersSerialized'
  BY <1>1 DEF RedeemersSerialized
<1>. QED  BY <1>2, <1>3 DEF PromoInv

\* Each step of a checkout but the commit keeps the coupon invariant.
LEMMA AdvancePromo ==
  ASSUME PromoInv, TypeOK', NEW r \in Requests, Advance(r), ~ Commit(r)
  PROVE  PromoInv'
<1>. USE NoneAssumption, BindingAssumption DEF PromoInv
<1>1. CASE Rollback(r)
  <2>1. pc[r] # "placed"
    BY DEF Advance, LoadLines, ValidatePromo, LockPromo, CountRedemptions,
           PriceAndInsert, ConvertCart, DecrementStock
  <2>. QED  BY <1>1, <2>1, RollbackPromo
<1>2. CASE LoadLines(r) /\ ~ Rollback(r)
  <2>1. /\ pc[r] = "idle" /\ pc' = [pc EXCEPT ![r] = "loaded"]
        /\ UNCHANGED <<promo, promoLock, applied>>
    BY <1>2 DEF LoadLines, Goto, dbVars, lockVars
  <2>. QED  BY <2>1, PromoStep DEF TypeOK, RedeemersSerialized
<1>3. CASE ValidatePromo(r) /\ ~ Rollback(r)
  <2>1. /\ pc[r] = "loaded"
        /\ \/ /\ CodeOf[r] # None
              /\ pc' = [pc EXCEPT ![r] = "lock"] /\ applied' = applied
           \/ /\ CodeOf[r] # None => Promo[CodeOf[r]].limit = None
              /\ pc' = [pc EXCEPT ![r] = "priced"]
              /\ applied' = applied \/ applied' = [applied EXCEPT ![r] = AppliedCode(r)]
        /\ UNCHANGED <<promo, promoLock>>
    BY <1>3 DEF ValidatePromo, Goto, dbVars, lockVars
  <2>2. AppliedCode(r) \in {None, CodeOf[r]}
    BY DEF AppliedCode
  <2>3. \A q \in Requests : applied'[q] \in {None, CodeOf[q]}
    <3>1. CASE applied' = applied
      BY <3>1
    <3>2. CASE applied' = [applied EXCEPT ![r] = AppliedCode(r)]
      BY <2>2, <3>2 DEF TypeOK
    <3>. QED  BY <2>1, <3>1, <3>2
  <2>. QED  BY <2>1, <2>3, PromoStep DEF TypeOK, RedeemersSerialized
<1>4. CASE LockPromo(r)
  <2>1. CodeOf[r] \in Codes
    BY <1>4 DEF LockPromo, TypeOK
  <2>. QED  BY <1>4, <2>1, PromoStep DEF LockPromo, Goto, TypeOK, RedeemersSerialized, dbVars
<1>5. CASE CountRedemptions(r) /\ ~ Rollback(r)
  <2>1. /\ pc[r] = "count" /\ pc' = [pc EXCEPT ![r] = "priced"]
        /\ ~ Cardinality(Redemptions(CodeOf[r])) >= Promo[CodeOf[r]].limit
        /\ applied' = [applied EXCEPT ![r] = AppliedCode(r)]
        /\ UNCHANGED <<promo, promoLock>>
    BY <1>5 DEF CountRedemptions, Goto, dbVars, lockVars
  <2>2. \A q \in Requests : applied'[q] \in {None, CodeOf[q]}
    BY <2>1 DEF TypeOK, AppliedCode
  <2>3. CodeOf[r] # None /\ Promo[CodeOf[r]].limit # None =>
          Cardinality(Redemptions(CodeOf[r])) < Promo[CodeOf[r]].limit
    BY <2>1, RedemptionsFinite, PromoAssumption
  <2>. QED  BY <2>1, <2>2, <2>3, PromoStep DEF TypeOK, RedeemersSerialized
<1>6. CASE PriceAndInsert(r)
  BY <1>6, PromoStep DEF PriceAndInsert, Goto, TypeOK, RedeemersSerialized, dbVars, lockVars
<1>7. CASE ConvertCart(r)
  BY <1>7, PromoStep DEF ConvertCart, Goto, TypeOK, RedeemersSerialized, dbVars
<1>8. CASE DecrementStock(r) /\ ~ Rollback(r)
  <2>1. UNCHANGED <<promo, promoLock, pc, applied>>
    BY <1>8 DEF DecrementStock, dbVars
  <2>. QED  BY <2>1, PromoStep DEF TypeOK, RedeemersSerialized
<1>. QED  BY <1>1, <1>2, <1>3, <1>4, <1>5, <1>6, <1>7, <1>8 DEF Advance

\* The commit uses up the room its request counted under the lock.
LEMMA CommitPromo ==
  ASSUME PromoInv, TypeOK', NEW r \in Requests, Commit(r)
  PROVE  PromoInv'
<1>. USE NoneAssumption, BindingAssumption
<1>1. /\ pc[r] = "decrement" /\ pc' = [pc EXCEPT ![r] = "placed"]
      /\ promoLock' = Released(promoLock, r)
      /\ UNCHANGED <<promo, applied>>
  BY DEF Commit, Goto, ReleaseLocks
<1>2. \A c : /\ applied[r] # c => Redemptions(c)' = Redemptions(c)
             /\ Cardinality(Redemptions(c)') =< Cardinality(Redemptions(c)) + 1
  BY <1>1, OneMoreRedemption DEF PromoInv
<1>3. ASSUME NEW q \in Requests, CodeOf[q] # None, Promo[CodeOf[q]].limit # None,
             pc'[q] \in {"count", "priced", "convert", "decrement"}
      PROVE  /\ promoLock'[CodeOf[q]] = q
             /\ applied[r] # CodeOf[q]
             /\ pc'[q] = "count" \/ Cardinality(Redemptions(CodeOf[q])) < Promo[CodeOf[q]].limit
  <2>1. q # r /\ pc'[q] = pc[q]
    BY <1>1, <1>3 DEF PromoInv, TypeOK
  <2>2. /\ promoLock[CodeOf[q]] = q
        /\ pc'[q] = "count" \/ Cardinality(Redemptions(CodeOf[q])) < Promo[CodeOf[q]].limit
    BY <1>3, <2>1 DEF PromoInv, RedeemersSerialized
  <2>3. CodeOf[q] \in DOMAIN promoLock
    BY <1>3 DEF PromoInv, TypeOK
  <2>4. CodeOf[r] = CodeOf[q] => promoLock[CodeOf[q]] = r
    BY <1>1, <1>3 DEF PromoInv, RedeemersSerialized
  <2>. QED  BY <1>1, <1>3, <2>1, <2>2, <2>3, <2>4 DEF Released, PromoInv
<1>4. RedeemersSerialized'
  BY <1>2, <1>3 DEF RedeemersSerialized
<1>5. ASSUME NEW c \in Codes, Promo[c].limit # None
      PROVE  Cardinality(Redemptions(c)') =< Promo[c].limit
  <2>1. CASE applied[r] # c
    <3>1. Cardinality(Redemptions(c)) =< Promo[c].limit
      BY <1>5 DEF PromoInv, PromoLimit
    <3>. QED  BY <1>2, <2>1, <3>1
  <2>2. CASE applied[r] = c
    <3>1. CodeOf[r] = c
      BY <2>2 DEF PromoInv
    <3>2. Cardinality(Redemptions(c)) < Promo[c].limit
      BY <1>1, <1>5, <3>1 DEF PromoInv, RedeemersSerialized
    <3>3. /\ Cardinality(Redemptions(c)) \in Nat
          /\ Promo[c].limit \in Nat
      BY <1>5, RedemptionsFinite, PromoAssumption
    <3>4. Cardinality(Redemptions(c)') \in Nat
      <4>1. Redemptions(c)' \subseteq Requests
        BY DEF Redemptions
      <4>. QED  BY <4>1, RequestsAssumption, FS_Subset, FS_CardinalityType
    <3>5. Cardinality(Redemptions(c)') =< Cardinality(Redemptions(c)) + 1
      BY <1>2
    <3>. QED  BY <3>2, <3>3, <3>4, <3>5
  <2>. QED  BY <2>1, <2>2
<1>6. PromoLimit'
  BY <1>5 DEF PromoLimit
<1>7. \A q \in Requests : /\ applied'[q] \in {None, CodeOf[q]}
                          /\ pc'[q] \in {"lock", "count"} => CodeOf[q] # None
  BY <1>1 DEF PromoInv, TypeOK
<1>. QED  BY <1>1, <1>4, <1>6, <1>7 DEF PromoInv

\* A usage-limited coupon is never on more orders than its limit, for every
\* number of concurrent checkouts, as long as no coupon row is deleted.
THEOREM LimitHolds ==
  ASSUME "delete" \notin PromoEdits
  PROVE  Spec => []PromoLimit
<1>1. Init => PromoInv
  <2>. SUFFICES ASSUME Init PROVE PromoInv
    OBVIOUS
  <2>1. TypeOK
    BY NoneAssumption, CatalogAssumption DEF Init, TypeOK, NoUnits, Steps
  <2>2. \A c : Redemptions(c) = {}
    BY DEF Init, Redemptions
  <2>3. PromoLimit
    <3>. SUFFICES ASSUME NEW c \in Codes, Promo[c].limit # None
                  PROVE  Cardinality(Redemptions(c)) =< Promo[c].limit
      BY DEF PromoLimit
    <3>1. Promo[c].limit \in Nat
      BY PromoAssumption
    <3>. QED  BY <2>2, <3>1, FS_EmptySet
  <2>4. RedeemersSerialized
    BY DEF Init, RedeemersSerialized
  <2>. QED  BY <2>1, <2>3, <2>4 DEF Init, PromoInv
<1>2. PromoInv /\ TypeOK' /\ [Next]_vars => PromoInv'
  <2>. SUFFICES ASSUME PromoInv, TypeOK', [Next]_vars PROVE PromoInv'
    OBVIOUS
  <2>1. ASSUME NEW r \in Requests, Advance(r) PROVE PromoInv'
    BY <2>1, AdvancePromo, CommitPromo
  <2>2. ASSUME NEW r \in Requests, Abort(r) PROVE PromoInv'
    BY <2>2, RollbackPromo DEF Abort, InTransaction
  <2>3. ASSUME NEW r \in Requests, DeadlockAbort(r) PROVE PromoInv'
    <3>1. Blocker(r) \in Requests
      BY <2>3 DEF DeadlockAbort, WaitCycles
    <3>2. pc[r] # "placed"
      BY <3>1, NoneAssumption DEF Blocker
    <3>. QED  BY <2>3, <3>2, RollbackPromo DEF DeadlockAbort
  <2>4. ASSUME NEW c \in Codes, AdminTogglePromo(c) PROVE PromoInv'
    <3>1. \A d \in Codes : promo'[d].exists
      BY <2>4 DEF AdminTogglePromo, PromoInv, TypeOK
    <3>. QED
      BY <2>4, <3>1, PromoStep DEF AdminTogglePromo, PromoInv, RedeemersSerialized, lockVars, reqVars
  <2>5. ASSUME NEW c \in Codes, AdminDeletePromo(c) PROVE PromoInv'
    BY <2>5 DEF AdminDeletePromo
  <2>6. CASE UNCHANGED <<promo, promoLock, pc, applied>>
    BY <2>6, PromoStep DEF PromoInv, RedeemersSerialized
  <2>7. ASSUME NEW s, NEW n, AdminToggleActive(s) \/ AdminSetQty(s, n) PROVE PromoInv'
    BY <2>6, <2>7 DEF AdminToggleActive, AdminSetQty, lockVars, reqVars
  <2>8. ASSUME NEW c, NEW s, NEW n, EditCart(c, s, n) PROVE PromoInv'
    BY <2>6, <2>8 DEF EditCart, lockVars, reqVars
  <2>. QED  BY <2>1, <2>2, <2>3, <2>4, <2>5, <2>6, <2>7, <2>8 DEF Next, vars
<1>3. PromoInv => PromoLimit
  BY DEF PromoInv
<1>. QED  BY <1>1, <1>2, <1>3, TypeCorrect, PTL DEF Spec

-----------------------------------------------------------------------------
\* A step that places no order and leaves the stock rows alone is invisible to
\* Inventory.
LEMMA Invisible ==
  ASSUME TypeOK, qty' = qty,
         \A r \in Requests : /\ pc'[r] = "placed" <=> pc[r] = "placed"
                             /\ pc[r] = "placed" => lines'[r] = lines[r]
  PROVE  UNCHANGED Stock!vars
BY DEF Stock!vars, Stock!NoUnits, NoUnits

\* The commit of a checkout is Inventory's Reserve.
LEMMA CommitReserves ==
  ASSUME StockInv, NEW r \in Requests, Commit(r)
  PROVE  Stock!Reserve(r)
<1>1. \A s \in Skus : /\ lines[r][s] \in Nat
                      /\ lines[r][s] > 0 => qty[s] >= lines[r][s]
                      /\ qty[s] \in Int /\ qty[s] >= 0
  BY DEF Commit, StockInv, TypeOK, TakenStockStays, NoOversell
<1>2. /\ pc[r] = "decrement" /\ pc' = [pc EXCEPT ![r] = "placed"]
      /\ lines' = lines
      /\ qty' = [s \in Skus |-> qty[s] - lines[r][s]]
      /\ lines[r] \in [Skus -> Nat] /\ lines[r] # NoUnits
      /\ pc \in [Requests -> Steps]
  BY DEF Commit, Goto, StockInv, TypeOK, InTransaction
<1>3. \A s \in Skus : lines[r][s] =< qty[s]
  BY <1>1
<1>. QED  BY <1>2, <1>3 DEF Stock!Reserve, Stock!NoUnits, NoUnits

\* Checkout implements Inventory: seen through its commits, every checkout takes
\* all of its units at once, and never more than are there.
THEOREM ImplementsInventory == Spec => AllOrNothing
<1>1. Init => Stock!Init
  BY NoneAssumption, CatalogAssumption DEF Init, Stock!Init, Stock!NoUnits, NoUnits
<1>2. StockInv /\ [Next]_vars => [Stock!Next]_(Stock!vars)
  <2>. SUFFICES ASSUME StockInv, [Next]_vars PROVE [Stock!Next]_(Stock!vars)
    OBVIOUS
  <2>. USE DEF StockInv
  <2>1. ASSUME NEW r \in Requests, Commit(r) PROVE Stock!Next
    BY <2>1, CommitReserves DEF Stock!Next
  <2>2. ASSUME NEW r \in Requests, Rollback(r), pc[r] # "placed" PROVE UNCHANGED Stock!vars
    BY <2>2, Invisible DEF Rollback, dbVars, TypeOK
  <2>3. ASSUME NEW r \in Requests, Advance(r), ~ Commit(r), ~ Rollback(r)
        PROVE  UNCHANGED Stock!vars
    <3>1. /\ qty' = qty /\ pc[r] # "placed" /\ pc'[r] # "placed"
          /\ \A q \in Requests \ {r} : pc'[q] = pc[q] /\ lines'[q] = lines[q]
      BY <2>3 DEF Advance, LoadLines, ValidatePromo, LockPromo, CountRedemptions, PriceAndInsert,
                  ConvertCart, DecrementStock, Goto, dbVars, lockVars, TypeOK
    <3>. QED  BY <3>1, Invisible
  <2>4. ASSUME NEW r \in Requests, Advance(r) PROVE pc[r] # "placed"
    BY <2>4 DEF Advance, LoadLines, ValidatePromo, LockPromo, CountRedemptions, PriceAndInsert,
                ConvertCart, DecrementStock, Commit
  <2>5. ASSUME NEW r \in Requests, Abort(r) PROVE UNCHANGED Stock!vars
    BY <2>2, <2>5 DEF Abort, InTransaction
  <2>6. ASSUME NEW r \in Requests, DeadlockAbort(r) PROVE UNCHANGED Stock!vars
    <3>1. Blocker(r) \in Requests
      BY <2>6 DEF DeadlockAbort, WaitCycles
    <3>2. pc[r] # "placed"
      BY <3>1, NoneAssumption DEF Blocker
    <3>. QED  BY <2>2, <2>6, <3>2 DEF DeadlockAbort
  <2>7. ASSUME NEW s \in EditableSkus, NEW n \in StockLevels, AdminSetQty(s, n)
        PROVE  Stock!Next
    <3>1. Stock!SetQty(s)
      BY <2>7, CatalogAssumption DEF AdminSetQty, reqVars, TypeOK, Stock!SetQty
    <3>. QED  BY <3>1, CatalogAssumption DEF Stock!Next
  <2>8. CASE UNCHANGED <<qty, pc, lines>>
    BY <2>8, Invisible
  <2>9. ASSUME NEW s, AdminToggleActive(s) PROVE UNCHANGED Stock!vars
    BY <2>9, Invisible DEF AdminToggleActive, reqVars
  <2>10. ASSUME NEW c, AdminTogglePromo(c) \/ AdminDeletePromo(c) PROVE UNCHANGED Stock!vars
    BY <2>10, Invisible DEF AdminTogglePromo, AdminDeletePromo, reqVars
  <2>11. ASSUME NEW c, NEW s, NEW n, EditCart(c, s, n) PROVE UNCHANGED Stock!vars
    BY <2>11, Invisible DEF EditCart, reqVars
  <2>. QED
    BY <2>1, <2>2, <2>3, <2>4, <2>5, <2>6, <2>7, <2>8, <2>9, <2>10, <2>11 DEF Next, vars
<1>. QED  BY <1>1, <1>2, StockInvariant, PTL DEF Spec, AllOrNothing, Stock!Spec
-----------------------------------------------------------------------------
\* Rows are locked in one order: the coupon, then the cart, then the stock rows
\* by product id.  It holds when no two stock rows share a product.
LockOrder ==
  /\ \A c \in Codes, r \in Requests : promoLock[c] = r =>
       c = CodeOf[r] /\ pc[r] \in {"count", "priced", "convert", "decrement"}
  /\ \A c \in Carts, r \in Requests : cartLock[c] = r => pc[r] = "decrement"
  /\ \A s \in Skus, r \in Requests : stockLock[s] = r =>
       pc[r] = "decrement" /\ \A t \in todo[r] : ProductId[s] < ProductId[t]
  /\ \A r \in Requests : pc[r] = "decrement" /\ line[r] # None => line[r] \in NextLines(todo[r])
  /\ \A r \in Requests : pc[r] = "lock" => CodeOf[r] # None

OneRowPerProduct == \A s, t \in Skus : ProductId[s] = ProductId[t] => s = t

\* A rolled-back request holds nothing.
LEMMA RollbackOrder ==
  ASSUME TypeOK, LockOrder, NEW r \in Requests, Rollback(r)
  PROVE  LockOrder'
<1>1. \A q \in Requests : q # r => pc'[q] = pc[q] /\ todo'[q] = todo[q] /\ line'[q] = line[q]
  BY DEF Rollback, TypeOK
<1>2. pc'[r] = "failed"
  BY DEF Rollback, TypeOK
<1>3. /\ \A c \in Codes : promoLock'[c] \in Requests => promoLock'[c] # r /\ promoLock'[c] = promoLock[c]
      /\ \A c \in Carts : cartLock'[c] \in Requests => cartLock'[c] # r /\ cartLock'[c] = cartLock[c]
      /\ \A s \in Skus : stockLock'[s] \in Requests => stockLock'[s] # r /\ stockLock'[s] = stockLock[s]
  BY NoneAssumption DEF Rollback, ReleaseLocks, Released, TypeOK
<1>. QED  BY <1>1, <1>2, <1>3 DEF LockOrder, NextLines

\* The order of the locks, kept by every step of a checkout.
LEMMA AdvanceOrder ==
  ASSUME OneRowPerProduct, TypeOK, LockOrder, NEW r \in Requests, Advance(r)
  PROVE  LockOrder'
<1>. USE NoneAssumption
<1>1. CASE Rollback(r)
  BY <1>1, RollbackOrder
<1>2. CASE (LoadLines(r) \/ ValidatePromo(r) \/ CountRedemptions(r) \/ PriceAndInsert(r)) /\ ~ Rollback(r)
  <2>1. /\ pc[r] \in {"idle", "loaded", "count", "priced"}
        /\ \A q \in Requests : q # r => pc'[q] = pc[q]
        /\ pc[r] \in {"count", "priced"} => pc'[r] \in {"priced", "convert"}
        /\ pc'[r] # "decrement" /\ (pc'[r] = "lock" => CodeOf[r] # None)
        /\ UNCHANGED <<lockVars, todo, line>>
    BY <1>2 DEF LoadLines, ValidatePromo, CountRedemptions, PriceAndInsert, Goto, TypeOK
  <2>. QED  BY <2>1 DEF LockOrder, lockVars
<1>3. CASE LockPromo(r)
  BY <1>3 DEF LockPromo, LockOrder, Goto, TypeOK, NextLines
<1>4. CASE ConvertCart(r)
  <2>1. /\ pc[r] = "convert" /\ pc' = [pc EXCEPT ![r] = "decrement"]
        /\ cartLock' = [c \in Carts |-> IF c = CartOf[r] THEN r ELSE cartLock[c]]
        /\ line'[r] \in NextLines(todo'[r])
        /\ \A q \in Requests : q # r => todo'[q] = todo[q] /\ line'[q] = line[q]
        /\ UNCHANGED <<promoLock, stockLock>>
    BY <1>4 DEF ConvertCart, Goto, TypeOK
  <2>. QED  BY <2>1 DEF LockOrder, TypeOK, NextLines
<1>5. CASE DecrementStock(r) /\ ~ Rollback(r)
  <2>. DEFINE s == line[r]
  <2>1. /\ pc[r] = "decrement" /\ s \in NextLines(todo[r]) /\ s \in Skus
        /\ stockLock' = [stockLock EXCEPT ![s] = r]
        /\ todo' = [todo EXCEPT ![r] = todo[r] \ {s}]
        /\ line'[r] # None => line'[r] \in NextLines(todo'[r])
        /\ \A q \in Requests : q # r => line'[q] = line[q]
        /\ UNCHANGED <<promoLock, cartLock, pc>>
    BY <1>5 DEF DecrementStock, LockOrder, TypeOK, dbVars
  <2>2. ASSUME NEW t \in todo[r] \ {s} PROVE ProductId[s] < ProductId[t]
    <3>1. t \in Skus /\ t # s /\ ProductId[s] =< ProductId[t]
      BY <2>1 DEF NextLines, TypeOK
    <3>2. ProductId[s] \in Nat /\ ProductId[t] \in Nat /\ ProductId[s] # ProductId[t]
      BY <2>1, <3>1, CatalogAssumption DEF OneRowPerProduct
    <3>. QED  BY <3>1, <3>2
  <2>3. todo'[r] = todo[r] \ {s} /\ \A q \in Requests : q # r => todo'[q] = todo[q]
    BY <2>1 DEF TypeOK
  <2>. HIDE DEF s
  <2>4. ASSUME NEW t \in Skus, NEW q \in Requests, stockLock'[t] = q
        PROVE  pc'[q] = "decrement" /\ \A x \in todo'[q] : ProductId[t] < ProductId[x]
    <3>1. CASE t = s
      BY <2>1, <2>2, <2>3, <2>4, <3>1 DEF TypeOK
    <3>2. CASE t # s
      BY <2>1, <2>3, <2>4, <3>2 DEF TypeOK, LockOrder
    <3>. QED  BY <3>1, <3>2
  <2>5. \A q \in Requests : pc'[q] = "decrement" /\ line'[q] # None => line'[q] \in NextLines(todo'[q])
    BY <2>1, <2>3 DEF LockOrder, NextLines
  <2>. QED  BY <2>1, <2>4, <2>5 DEF LockOrder
<1>6. CASE Commit(r)
  <2>1. /\ pc' = [pc EXCEPT ![r] = "placed"] /\ UNCHANGED <<todo, line>>
        /\ promoLock' = Released(promoLock, r)
        /\ cartLock' = Released(cartLock, r)
        /\ stockLock' = Released(stockLock, r)
    BY <1>6 DEF Commit, Goto, ReleaseLocks
  <2>2. pc'[r] = "placed" /\ \A q \in Requests : q # r => pc'[q] = pc[q]
    BY <2>1 DEF TypeOK
  <2>3. /\ \A c \in Codes : promoLock'[c] \in Requests => promoLock'[c] # r /\ promoLock'[c] = promoLock[c]
        /\ \A c \in Carts : cartLock'[c] \in Requests => cartLock'[c] # r /\ cartLock'[c] = cartLock[c]
        /\ \A s \in Skus : stockLock'[s] \in Requests => stockLock'[s] # r /\ stockLock'[s] = stockLock[s]
    BY <2>1 DEF Released, TypeOK
  <2>. QED  BY <2>1, <2>2, <2>3 DEF LockOrder, NextLines
<1>. QED  BY <1>1, <1>2, <1>3, <1>4, <1>5, <1>6 DEF Advance

\* A request that others wait for and that waits itself is at its stock rows, and
\* the row it waits for comes after the one it holds.
LEMMA WaitsAhead ==
  ASSUME TypeOK, LockOrder, NEW S \in WaitCycles, NEW q \in S
  PROVE  /\ pc[q] = "decrement" /\ line[q] \in Skus
         /\ \E r \in S : line[r] \in Skus /\ ProductId[line[r]] < ProductId[line[q]]
<1>1. S \subseteq Requests /\ {Blocker(r) : r \in S} = S
  BY DEF WaitCycles
<1>2. \A r \in S : Blocker(r) \in Requests
  BY <1>1
<1>3. ASSUME NEW r \in S
      PROVE  \/ pc[r] = "lock" /\ Blocker(r) = promoLock[CodeOf[r]]
             \/ pc[r] = "convert" /\ CartOf[r] # None /\ Blocker(r) = cartLock[CartOf[r]]
             \/ pc[r] = "decrement" /\ line[r] # None /\ Blocker(r) = stockLock[line[r]]
  <2>1. Blocker(r) # None
    BY <1>2, NoneAssumption
  <2>. QED  BY <2>1 DEF Blocker
<1>4. \A r \in S : pc[r] # "lock"
  <2>. SUFFICES ASSUME NEW r \in S, pc[r] = "lock" PROVE FALSE
    OBVIOUS
  <2>1. PICK p \in S : Blocker(p) = r
    BY <1>1
  <2>2. CASE pc[p] = "lock"
    <3>1. CodeOf[p] \in Codes /\ promoLock[CodeOf[p]] = r
      BY <1>1, <1>3, <2>1, <2>2, BindingAssumption DEF LockOrder
    <3>. QED  BY <1>1, <3>1 DEF LockOrder
  <2>3. CASE pc[p] = "convert" /\ CartOf[p] # None
    BY <1>1, <1>3, <2>1, <2>3, BindingAssumption DEF LockOrder
  <2>4. CASE pc[p] = "decrement" /\ line[p] # None
    BY <1>1, <1>3, <2>1, <2>4 DEF LockOrder, TypeOK
  <2>. QED  BY <1>3, <2>2, <2>3, <2>4
<1>5. \A r \in S : pc[r] = "decrement"
  <2>. SUFFICES ASSUME NEW r \in S PROVE pc[r] = "decrement"
    OBVIOUS
  <2>1. PICK p \in S : Blocker(p) = r
    BY <1>1
  <2>2. CASE pc[p] = "convert" /\ CartOf[p] # None
    BY <1>1, <1>3, <2>1, <2>2, BindingAssumption DEF LockOrder
  <2>3. CASE pc[p] = "decrement" /\ line[p] # None
    BY <1>1, <1>3, <2>1, <2>3 DEF LockOrder, TypeOK
  <2>. QED  BY <1>3, <1>4, <2>2, <2>3
<1>6. \A r \in S : line[r] \in Skus /\ Blocker(r) = stockLock[line[r]]
  BY <1>1, <1>3, <1>5 DEF TypeOK
<1>7. PICK r \in S : Blocker(r) = q
  BY <1>1
<1>8. ProductId[line[r]] < ProductId[line[q]]
  <2>1. stockLock[line[r]] = q /\ line[q] \in todo[q]
    BY <1>1, <1>5, <1>6, <1>7, NoneAssumption DEF LockOrder, NextLines
  <2>. QED  BY <1>1, <1>6, <2>1 DEF LockOrder
<1>. QED  BY <1>5, <1>6, <1>8

\* No circle: the member that waits for the earliest stock row has nobody behind it.
LEMMA OrderHasNoCycle ==
  ASSUME TypeOK, LockOrder
  PROVE  NoWaitCycle
<1>. SUFFICES ASSUME NEW S \in WaitCycles PROVE FALSE
  BY DEF NoWaitCycle
<1>. DEFINE ranks == {n \in Nat : \E q \in S : n = ProductId[line[q]]}
<1>1. \A q \in S : line[q] \in Skus /\ ProductId[line[q]] \in ranks
  BY WaitsAhead, CatalogAssumption
<1>2. ranks # {}
  BY <1>1 DEF WaitCycles
<1>3. PICK least \in ranks : \A n \in ranks : <<n, least>> \notin OpToRel(<, Nat)
  BY <1>2, NatLessThanWellFounded, WFMin, Zenon
<1>4. PICK q \in S : least = ProductId[line[q]]
  OBVIOUS
<1>5. PICK r \in S : ProductId[line[r]] < ProductId[line[q]]
  BY WaitsAhead
<1>6. ProductId[line[r]] \in ranks /\ least \in Nat
  BY <1>1
<1>. QED  BY <1>3, <1>4, <1>5, <1>6 DEF OpToRel

\* Overlapping checkouts never wait for each other in a circle, for any number of
\* requests and rows, provided that no two stock rows share a product id.
THEOREM NoCircularWait ==
  ASSUME OneRowPerProduct
  PROVE  Spec => []NoWaitCycle
<1>1. Init => LockOrder
  <2>. SUFFICES ASSUME Init PROVE LockOrder
    OBVIOUS
  <2>1. /\ \A c \in Codes : promoLock[c] = None
        /\ \A c \in Carts : cartLock[c] = None
        /\ \A s \in Skus : stockLock[s] = None
        /\ \A r \in Requests : r # None /\ pc[r] = "idle"
    BY NoneAssumption DEF Init
  <2>. QED  BY <2>1 DEF LockOrder
<1>2. TypeOK /\ LockOrder /\ [Next]_vars => LockOrder'
  <2>. SUFFICES ASSUME TypeOK, LockOrder, [Next]_vars PROVE LockOrder'
    OBVIOUS
  <2>1. ASSUME NEW r \in Requests, Advance(r) \/ Abort(r) \/ DeadlockAbort(r)
        PROVE  LockOrder'
    BY <2>1, AdvanceOrder, RollbackOrder DEF Abort, DeadlockAbort
  <2>2. CASE UNCHANGED <<lockVars, pc, todo, line>>
    BY <2>2 DEF LockOrder, lockVars, NextLines
  <2>3. ASSUME NEW s, NEW n, AdminToggleActive(s) \/ AdminSetQty(s, n) PROVE LockOrder'
    BY <2>2, <2>3 DEF AdminToggleActive, AdminSetQty, reqVars
  <2>4. ASSUME NEW c, AdminTogglePromo(c) \/ AdminDeletePromo(c) PROVE LockOrder'
    BY <2>2, <2>4 DEF AdminTogglePromo, AdminDeletePromo, reqVars
  <2>5. ASSUME NEW c, NEW s, NEW n, EditCart(c, s, n) PROVE LockOrder'
    BY <2>2, <2>5 DEF EditCart, reqVars
  <2>. QED  BY <2>1, <2>2, <2>3, <2>4, <2>5 DEF Next, vars, lockVars
<1>. QED  BY <1>1, <1>2, OrderHasNoCycle, TypeCorrect, PTL DEF Spec

=============================================================================
