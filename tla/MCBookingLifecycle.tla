------------------------- MODULE MCBookingLifecycle -------------------------
EXTENDS BookingClaims, TLC

(* Tokens, requests, bookings and tasks are interchangeable. *)
Symmetry == Permutations(Tokens) \cup Permutations(Requests)
              \cup Permutations(Bookings) \cup Permutations(Tasks)
=============================================================================
