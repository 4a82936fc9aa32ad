------------------------ MODULE MCRecurringRequests ------------------------
EXTENDS RecurringRequests, TLC

CONSTANTS q1, q2, a1, a2

(* Two dates with a slot each, wanted by both requests. *)
TwoDates  == (a1 :> 1) @@ (a2 :> 2)
Competing == [q \in Wanted |-> <<{a1}, {a2}>>]
OwnWish   == [q \in Wanted |-> q]

(* Handlers, and requests that differ in nothing but their name. *)
Symmetry == Permutations(Handlers) \cup Permutations({q1, q2})
=============================================================================
