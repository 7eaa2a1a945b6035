------------------------------ MODULE Ordered ------------------------------
(***************************************************************************)
(* What an ORDER BY returns, by counting: the place of a row is the number  *)
(* of rows before it.  Every order of the store's queries ends with the id, *)
(* so it is total.                                                          *)
(***************************************************************************)
EXTENDS Naturals, Sequences, FiniteSets, FiniteSetsExt, Functions

\* order_columns_for, handed to order_by: the rows of S, first to last.  Before holds the
\* pairs of rows of which the first one precedes the second.
InOrder(S, Before) ==
  [i \in 1 .. Cardinality(S) |-> CHOOSE x \in S : Cardinality({y \in S : <<y, x>> \in Before}) = i - 1]

\* limit: the first n rows, or all.
Limited(s, n) == SubSeq(s, 1, Min({n, Len(s)}))

\* A comprehension with a condition: what is in T of a sequence, in its order.
Kept(s, T) ==
  LET places == {i \in DOMAIN s : s[i] \in T}
      at == InOrder(places, {pair \in places \X places : pair[1] < pair[2]})
  IN  [i \in DOMAIN at |-> s[at[i]]]

\* The sequences that name each element of S once.
Arrangements(S) == {s \in [1 .. Cardinality(S) -> S] : IsInjective(s)}
=============================================================================
