-------------------------- MODULE MCSubscriptions ---------------------------
EXTENDS Subscriptions, TLC

CONSTANTS basic, pro

Ranks   == (basic :> 1) @@ (pro :> 2)
Prices  == (basic :> [monthly |-> 2]) @@ (pro :> [monthly |-> 4])
Trials  == (basic :> 0) @@ (pro :> 2)
Lengths == [monthly |-> 2]

Symmetry == Permutations(Invoices) \cup Permutations(Staff)
=============================================================================
