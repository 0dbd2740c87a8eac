------------------------------- MODULE Lists -------------------------------
(* What stays of a list: the loop that copies the elements it keeps, which    *)
(* the command cache and the import both have, written without recursion.     *)
EXTENDS Naturals, FiniteSets

\* The elements at the given places, in their order.
Staying(list, places) ==
    LET Nth(n) == CHOOSE i \in places : Cardinality({k \in places : k <= i}) = n
    IN  [n \in 1 .. Cardinality(places) |-> list[Nth(n)]]

=============================================================================
