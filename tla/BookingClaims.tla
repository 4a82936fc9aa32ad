--------------------------- MODULE BookingClaims ----------------------------
(***************************************************************************)
(* BookingLifecycle against the abstract allocation of slots, its          *)
(* liveness, and the claims that the repository's documents and scripts    *)
(* make without the provisos of NoDoubleBooking.                           *)
(***************************************************************************)
EXTENDS BookingLifecycle

CONSTANT Void
ASSUME VoidIsNew == Void # None /\ Void \notin Bookings

(* The owner of a slot is its only active booking. *)
Owner(s) == IF s \notin Sound THEN Void
            ELSE IF ActiveOn(s) = {} THEN None
            ELSE CHOOSE b \in ActiveOn(s) : TRUE

Allocation == INSTANCE SlotAllocation WITH
  Free  <- None,
  owner <- [s \in Slots |-> Owner(s)],
  sold  <- {b \in Bookings : booking[b].status # "none"}

(* The whole protocol of locks, stale handlers and jobs implements the     *)
(* plain allocation of slots, as long as a slot is not voided.             *)
ImplementsAllocation == Allocation!Spec

-----------------------------------------------------------------------------
(***************************************************************************)
(* Fairness: time passes, and BullMQ repeats both jobs (server.ts) with a  *)
(* read that in the end finds each old booking and runs that do not fail   *)
(* every time at the same place.  Nothing is assumed of customers, staff   *)
(* or the gateway.                                                         *)
(***************************************************************************)
JobPicks(b) == \E old \in SUBSET Bookings : b \in old /\ JobRead(old)
SweepStep   == SweepRead \/ SweepRows \/ \E s \in Slots : SweepKey(s)

Fairness ==
  /\ \A s \in Slots : /\ WF_vars(KeyExpires(s) /\ UNCHANGED bookVars)
                      /\ WF_vars(LockExpires(s) /\ UNCHANGED bookVars)
                      /\ SF_vars(SweepKey(s) /\ UNCHANGED bookVars)
  /\ WF_vars(SweepRead /\ UNCHANGED bookVars) /\ SF_vars(SweepRows /\ UNCHANGED bookVars)
  /\ \A b \in Bookings : SF_vars(JobPicks(b)) /\ SF_vars(JobCancel(b))
  /\ WF_vars(JobKey)

FairSpec == Spec /\ Fairness

(* An online booking does not keep its slot for ever when no payment comes *)
(* (anomaly 3 of verify-state-machine.ts).                                 *)
AbandonedIsReleased ==
  \A b \in Bookings : booking[b].status = "pending_payment" ~> booking[b].status # "pending_payment"

(* An expired row lock of a slot on sale is cleared, so that deleteSlot    *)
(* does not refuse the slot for ever.                                      *)
ExpiredLockIsCleared ==
  \A s \in Slots, t \in Tokens :
    lock[s] = [token |-> t, live |-> FALSE] ~> lock[s].token # t \/ status[s] # "available"

-----------------------------------------------------------------------------
(* SETUP.md:316 calls slot locking "double-booking prevention".  Here: no  *)
(* slot has two active bookings unless staff re-opened it.                 *)
NoDoubleBookingByRace == \A s \in Slots \ reopened : OneActive(s)

(* verify-state-machine.ts calls a database anomalous in which a cancelled *)
(* booking's slot is not available (check 2, lines 30-43), or a paid one's *)
(* booking is not confirmed (check 4, lines 58-71).  A violation of what   *)
(* follows is a state on which both checks raise the alarm although no     *)
(* handler was stale and staff re-opened nothing.                          *)
CancelledSlotsAreAvailable ==
  \A b \in Bookings : booking[b].status = "cancelled" => status[booking[b].slot] = "available"
PaidBookingsAreConfirmed ==
  \A b \in Bookings : booking[b].txn = "paid" => booking[b].status = "confirmed"
ScriptsAlarmsAreReal ==
  Sound = Slots => CancelledSlotsAreAvailable \/ PaidBookingsAreConfirmed
=============================================================================
