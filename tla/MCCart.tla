------------------------------- MODULE MCCart -------------------------------
(***************************************************************************)
(* One user and the guest the user was before the login.  The guest has a  *)
(* cart; the user has one with the same product, or none yet.              *)
(***************************************************************************)
EXTENDS Cart, TLC

CONSTANTS user, token, s1, s2, c1, c2, c3, c4, l1, l2, l3, l4, r1, r2, r3

Ask(kind, owner, sku, n) ==
  [kind |-> kind, owner |-> owner, sku |-> sku, n |-> n, token |-> None]
Merge == [kind |-> "merge", owner |-> user, sku |-> None, n |-> 1, token |-> token]

\* A merge; what the user does next, the merge sent twice included; what a tab that
\* still shows the guest's cart does.
Shopping ==
  (r1 :> {Merge})
  @@ (r2 :> {Merge, Ask("add", user, s1, 1), Ask("remove", user, s1, 1)})
  @@ (r3 :> {Ask("add", token, s1, 2), Ask("add", token, s2, 1), Ask("set", token, s1, 3)})

Unused == [owner |-> None, status |-> "unused"]
Draft(o) == [owner |-> o, status |-> "draft"]
Line(c, s, n) == [cart |-> c, sku |-> s, qty |-> n]
GuestCart == c1 :> Draft(token)
GuestLines == (l1 :> Line(c1, s1, 1)) @@ (l2 :> Line(c1, s2, 1))

OnlyGuest == [cart |-> GuestCart @@ [c \in Carts |-> Unused],
              lines |-> GuestLines @@ [l \in Lines |-> Free]]
Both == [cart |-> GuestCart @@ (c2 :> Draft(user)) @@ [c \in Carts |-> Unused],
         lines |-> GuestLines @@ (l3 :> Line(c2, s1, 1)) @@ [l \in Lines |-> Free]]
AfterLogin == {OnlyGuest, Both}
=============================================================================
