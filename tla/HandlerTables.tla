--------------------------- MODULE HandlerTables ---------------------------
(***************************************************************************)
(* The registrations in a table of handlers, as a queue: what the tables   *)
(* of the interrupt library and of the GPIO library have in common.        *)
(***************************************************************************)
EXTENDS Naturals, FiniteSets

\* The handlers and parameters of the entries ks of table T, in order.
Rank(ks, k) == Cardinality({j \in ks : j <= k})
Nth(ks, n) == CHOOSE k \in ks : Rank(ks, k) = n
QueueOf(T, ks) ==
  [n \in 1 .. Cardinality(ks) |-> <<T[Nth(ks, n)].Handler, T[Nth(ks, n)].Param>>]
=============================================================================
