--------------------------- MODULE SlotAllocation ---------------------------
(***************************************************************************)
(* What booking promises about slots, with no locks, requests or jobs: a   *)
(* slot belongs to at most one booking, a booking is given a slot once,    *)
(* when the slot is free, and a slot comes free only from its owner.       *)
(* A slot whose row was overwritten on a stale check, or by staff, is Void *)
(* from then on: nothing is promised about it any more.                    *)
(***************************************************************************)
CONSTANTS
  Slots, Bookings,
  Free, Void       \* two values that are no bookings

VARIABLES
  owner,   \* the booking a slot belongs to, Free or Void
  sold     \* bookings that have been given a slot

vars == <<owner, sold>>

Init == owner = [s \in Slots |-> Free] /\ sold = {}

Allocate(s, b) ==
  /\ owner[s] = Free /\ b \notin sold
  /\ owner' = [owner EXCEPT ![s] = b]
  /\ sold' = sold \cup {b}

Release(s) ==
  /\ owner[s] \in Bookings
  /\ owner' = [owner EXCEPT ![s] = Free]
  /\ UNCHANGED sold

Compromise(s) ==
  /\ owner' = [owner EXCEPT ![s] = Void]
  /\ UNCHANGED sold

SellVoid(s, b) ==
  /\ owner[s] = Void /\ b \notin sold
  /\ sold' = sold \cup {b}
  /\ UNCHANGED owner

Next == \E s \in Slots :
  \/ Release(s) \/ Compromise(s)
  \/ \E b \in Bookings : Allocate(s, b) \/ SellVoid(s, b)

Spec == Init /\ [][Next]_vars
=============================================================================
