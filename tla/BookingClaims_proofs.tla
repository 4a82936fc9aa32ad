------------------------ MODULE BookingClaims_proofs ------------------------
(***************************************************************************)
(* For any slots, tokens, bookings, requests and tasks: the protocol of    *)
(* locks, handlers and jobs implements the plain allocation of slots.      *)
(***************************************************************************)
EXTENDS BookingClaims, BookingLifecycle_proofs

-----------------------------------------------------------------------------
(* The mapping. *)

Owners == [s \in Slots |-> Owner(s)]
Sold   == {b \in Bookings : booking[b].status # "none"}

(* Who owns a slot, when at most one booking of it is active. *)
LEMMA OwnerIs ==
  ASSUME NEW s \in Slots
  PROVE  /\ s \notin Sound => Owner(s) = Void
         /\ s \in Sound /\ ActiveOn(s) = {} => Owner(s) = None
         /\ \A b : s \in Sound /\ ActiveOn(s) = {b} => Owner(s) = b
         /\ s \notin Sound' => Owner(s)' = Void
         /\ s \in Sound' /\ ActiveOn(s)' = {} => Owner(s)' = None
         /\ \A b : s \in Sound' /\ ActiveOn(s)' = {b} => Owner(s)' = b
<1>1. \A b : (CHOOSE c \in {b} : TRUE) = b
  OBVIOUS
<1>2. \A b : {b} # {}
  OBVIOUS
<1> QED BY <1>1, <1>2 DEF Owner

(* A slot in order has one active booking or none. *)
LEMMA OneOrNone ==
  ASSUME SlotInv, NEW s \in Sound
  PROVE  ActiveOn(s) = {} \/ \E b \in Bookings : ActiveOn(s) = {b}
<1>1. \A b1, b2 \in ActiveOn(s) : b1 = b2
  BY DEF SlotInv, NoDoubleBooking, OneActive
<1>2. ActiveOn(s) \subseteq Bookings
  BY DEF ActiveOn
<1> QED BY <1>1, <1>2

(* What a slot is to its owner is decided by its active bookings and its soundness. *)
LEMMA SameOwner ==
  ASSUME NEW s \in Slots, ActiveOn(s)' = ActiveOn(s), s \in Sound' <=> s \in Sound
  PROVE  Owner(s)' = Owner(s)
BY DEF Owner

-----------------------------------------------------------------------------
(* The steps of the booking system as steps of the allocation. *)

(* A step that makes no booking, and leaves the slots but one as they are, gives  *)
(* that slot up, keeps it as it is, or voids it.                                  *)
LEMMA SlotSettles ==
  ASSUME SlotInv, NEW s0 \in Slots, Sold' = Sold,
         \A s \in Slots \ {s0} : ActiveOn(s)' = ActiveOn(s) /\ (s \in Sound' <=> s \in Sound),
         s0 \in Sound' => s0 \in Sound /\ ActiveOn(s0)' \subseteq ActiveOn(s0)
  PROVE  [Allocation!Next]_(Allocation!vars)
<1>1. \A s \in Slots \ {s0} : Owner(s)' = Owner(s)
  BY SameOwner
<1>2. Owners' = [Owners EXCEPT ![s0] = Owner(s0)']
  BY <1>1 DEF Owners
<1>3. CASE s0 \notin Sound'
  <2>1. Owners' = [Owners EXCEPT ![s0] = Void]
    BY <1>2, <1>3, OwnerIs
  <2> QED BY <2>1 DEF Allocation!Next, Allocation!Compromise, Owners, Sold
<1>4. CASE s0 \in Sound' /\ ActiveOn(s0)' = ActiveOn(s0)
  <2>1. Owner(s0)' = Owner(s0)
    BY <1>4, SameOwner
  <2>2. Owners' = Owners
    BY <1>1, <2>1 DEF Owners
  <2> QED BY <2>2 DEF Allocation!vars, Owners, Sold
<1>5. CASE s0 \in Sound' /\ ActiveOn(s0)' # ActiveOn(s0)
  <2>1. PICK b \in Bookings : ActiveOn(s0) = {b}
    BY <1>5, OneOrNone
  <2>2. ActiveOn(s0)' = {}
    BY <1>5, <2>1
  <2>3. Owners[s0] \in Bookings
    BY <1>5, <2>1, OwnerIs DEF Owners
  <2>4. Owners' = [Owners EXCEPT ![s0] = None]
    BY <1>2, <1>5, <2>2, OwnerIs
  <2> QED BY <2>3, <2>4 DEF Allocation!Next, Allocation!Release, Owners, Sold
<1> QED BY <1>3, <1>4, <1>5

(* A step that touches neither bookings nor the history is a stutter. *)
LEMMA OthersStutter ==
  ASSUME UNCHANGED <<booking, stale, reopened>>
  PROVE  [Allocation!Next]_(Allocation!vars)
<1>1. \A s \in Slots : Owner(s)' = Owner(s)
  BY DEF Owner, ActiveOn, Sound
<1>2. Owners' = Owners /\ Sold' = Sold
  BY <1>1 DEF Owners, Sold
<1> QED BY <1>2 DEF Allocation!vars, Owners, Sold

(* A new booking is given its slot. *)
LEMMA InsertAllocates ==
  ASSUME TypeOK, Links, SlotInv, NEW b \in Bookings, NEW s0 \in Slots,
         NEW t \in Tokens \cup {None}, NEW m \in Method \ {"none"}, Insert(b, s0, t, m),
         status[s0] = "available", UNCHANGED <<stale, reopened>>
  PROVE  [Allocation!Next]_(Allocation!vars)
<1>1. /\ booking[b] = NoBooking
      /\ booking'[b] = [status |-> InitialStatus(m), slot |-> s0, token |-> t,
                        method |-> m, txn |-> "pending"]
      /\ InitialStatus(m) \in Active
      /\ \A c \in Bookings : c # b => booking'[c] = booking[c]
  BY InsertFacts
<1>2. /\ booking[b].status = "none" /\ booking[b].slot = None
      /\ booking'[b].status = InitialStatus(m) /\ booking'[b].slot = s0
      /\ "none" \notin Active /\ None \notin Slots
  BY <1>1, StatusKinds, NoneAssumption DEF NoBooking
<1>3. b \notin Sold /\ Sold' = Sold \cup {b}
  BY <1>1, <1>2 DEF Sold
<1>4. \A s \in Slots \ {s0} : ActiveOn(s)' = ActiveOn(s)
  BY <1>1, <1>2 DEF ActiveOn
<1>5. ActiveOn(s0)' = ActiveOn(s0) \cup {b}
  BY <1>1, <1>2 DEF ActiveOn
<1>6. Sound' = Sound
  BY DEF Sound
<1>7. \A s \in Slots \ {s0} : Owner(s)' = Owner(s)
  BY <1>4, <1>6, SameOwner
<1>8. Owners' = [Owners EXCEPT ![s0] = Owner(s0)']
  BY <1>7 DEF Owners
<1>9. CASE s0 \in Sound
  <2>1. \A c \in ActiveOn(s0) : booking[c].status \notin Pending /\ booking[c].status \notin Honoured
    BY <1>9 DEF SlotInv, SlotMatchesBooking
  <2>2. ActiveOn(s0) = {}
    BY <2>1, StatusKinds DEF ActiveOn
  <2>3. ActiveOn(s0)' = {b}
    BY <1>5, <2>2
  <2>4. Owners[s0] = None
    BY <1>9, <2>2, OwnerIs DEF Owners
  <2>5. Owners' = [Owners EXCEPT ![s0] = b]
    BY <1>6, <1>8, <1>9, <2>3, OwnerIs
  <2> QED BY <1>3, <2>4, <2>5 DEF Allocation!Next, Allocation!Allocate, Owners, Sold
<1>10. CASE s0 \notin Sound
  <2>1. Owners[s0] = Void /\ Owner(s0)' = Void
    BY <1>6, <1>10, OwnerIs DEF Owners
  <2>2. Owners' = Owners
    BY <1>7, <2>1 DEF Owners
  <2> QED BY <1>3, <2>1, <2>2 DEF Allocation!Next, Allocation!SellVoid, Owners, Sold
<1> QED BY <1>9, <1>10

(* A handler settles a booking: if it was active the slot stays or is given up, *)
(* if not the slot is stale.                                                    *)
LEMMA SettleMaps ==
  ASSUME TypeOK, SlotInv, NEW b \in Bookings, NEW s0 \in Slots, booking[b].slot = s0,
         booking[b].status # "none",
         NEW st \in BookingStatus \ {"none"}, NEW txn \in TxnStatus, Settle(b, st, txn),
         stale' = stale \/ stale' = stale \cup {s0}, UNCHANGED reopened,
         booking[b].status \in Active \/ s0 \in stale'
  PROVE  [Allocation!Next]_(Allocation!vars)
<1>1. /\ \A c \in Bookings : /\ booking'[c].slot = booking[c].slot
                             /\ c # b => booking'[c] = booking[c]
      /\ booking'[b].status = st
  BY SettleFacts
<1>2. Sold' = Sold
  BY <1>1 DEF Sold
<1>3. \A s \in Slots \ {s0} : ActiveOn(s)' = ActiveOn(s) /\ (s \in Sound' <=> s \in Sound)
  BY <1>1 DEF ActiveOn, Sound
<1>4. s0 \in Sound' => s0 \in Sound /\ ActiveOn(s0)' \subseteq ActiveOn(s0)
  BY <1>1 DEF ActiveOn, Sound
<1> QED BY <1>2, <1>3, <1>4, SlotSettles

(* The commits of the handlers' tasks. *)
LEMMA CommitMaps ==
  ASSUME TypeOK, Links, SlotInv, NEW k \in Tasks,
         \/ CancelBooking(k) \/ CheckIn(k) \/ MarkPaid(k) \/ ApproveSlip(k) \/ RejectSlip(k)
         \/ WebhookPaid(k) \/ WebhookPending(k) \/ WebhookFailed(k)
  PROVE  [Allocation!Next]_(Allocation!vars)
<1> DEFINE b == task[k].booking
<1>1. ASSUME NEW op \in BookingOp, Commit(k, op), NEW st \in BookingStatus \ {"none"},
             NEW txn \in TxnStatus, Settle(b, st, txn)
      PROVE  [Allocation!Next]_(Allocation!vars)
  <2>1. /\ b \in Bookings /\ task[k].slot \in Slots /\ booking[b].slot = task[k].slot
        /\ booking[b].status # "none" /\ UNCHANGED reopened
        /\ Passes(op, b) \/ task[k].slot \in stale'
    BY <1>1, CommitFacts
  <2>2. Passes(op, b) => booking[b].status \in Active
    BY StatusKinds DEF Passes, BookingOp
  <2>3. stale' = stale \/ stale' = stale \cup {task[k].slot}
    BY <1>1 DEF Commit, NoteIfStale
  <2> QED BY <1>1, <2>1, <2>2, <2>3, SettleMaps
<1>2. /\ BookingOp = {"cancel", "checkIn", "markPaid", "approve", "reject", "paid", "pending", "failed"}
      /\ {"cancelled", "checked_in", "confirmed"} \subseteq BookingStatus \ {"none"}
      /\ {"pending", "paid", "failed", "cancelled"} \subseteq TxnStatus
  BY DEF BookingOp, BookingStatus, Active, Pending, Honoured, TxnStatus
<1>3. \A op \in BookingOp : Commit(k, op) =>
        booking[b].status \in BookingStatus \ {"none"} /\ booking[b].txn \in TxnStatus
  BY CommitFacts, BookingTypes
<1>4. CASE CancelBooking(k)  BY <1>1, <1>2, <1>4 DEF CancelBooking
<1>5. CASE CheckIn(k)        BY <1>1, <1>2, <1>3, <1>5 DEF CheckIn
<1>6. CASE MarkPaid(k)       BY <1>1, <1>2, <1>3, <1>6 DEF MarkPaid
<1>7. CASE ApproveSlip(k)    BY <1>1, <1>2, <1>7 DEF ApproveSlip
<1>8. CASE RejectSlip(k)     BY <1>1, <1>2, <1>3, <1>8 DEF RejectSlip
<1>9. CASE WebhookPaid(k)    BY <1>1, <1>2, <1>9 DEF WebhookPaid
<1>10. CASE WebhookPending(k) BY <1>1, <1>2, <1>3, <1>10 DEF WebhookPending
<1>11. CASE WebhookFailed(k) BY <1>1, <1>2, <1>11 DEF WebhookFailed
<1> QED BY <1>4, <1>5, <1>6, <1>7, <1>8, <1>9, <1>10, <1>11

(* Every step of the booking system is a step of the allocation, or none. *)
LEMMA NextMaps ==
  ASSUME TypeOK, Links, SlotInv, [Next]_vars
  PROVE  [Allocation!Next]_(Allocation!vars)
<1>1. CASE LockNext /\ UNCHANGED bookVars
  BY <1>1, OthersStutter DEF bookVars
<1>2. ASSUME NEW r \in Requests, NEW b \in Bookings, NEW m \in Method \ {"none"}, CreateBooking(r, b, m)
      PROVE  [Allocation!Next]_(Allocation!vars)
  <2>1. req[r].at = "bookRow" /\ req[r] \in Request
    BY <1>2 DEF CreateBooking, BookRow, TypeOK, LockTypeOK
  <2>2. req[r].slot \in Slots /\ req[r].token \in Tokens
    BY <2>1 DEF Request, IdleReq
  <2>3. /\ Insert(b, req[r].slot, req[r].token, m) /\ UNCHANGED <<stale, reopened>>
        /\ status[req[r].slot] = "available"
    BY <1>2 DEF CreateBooking, BookRow, HoldsRow
  <2> QED BY <2>2, <2>3, InsertAllocates
<1>3. ASSUME NEW s \in Slots, NEW b \in Bookings, ApproveOccurrence(s, b)
      PROVE  [Allocation!Next]_(Allocation!vars)
  <2>1. /\ Insert(b, s, None, "pay_at_venue") /\ UNCHANGED <<stale, reopened>>
        /\ status[s] = "available" /\ "pay_at_venue" \in Method \ {"none"}
    BY <1>3 DEF ApproveOccurrence, Lockable, Method
  <2> QED BY <2>1, InsertAllocates
<1>4. ASSUME NEW k \in Tasks, Deactivate(k) PROVE [Allocation!Next]_(Allocation!vars)
  <2> DEFINE s == task[k].slot
  <2>1. s \in Slots
    BY <1>4 DEF Deactivate, Links, TaskLinks
  <2>2. UNCHANGED <<booking, reopened>> /\ (stale' = stale \/ stale' = stale \cup {s})
    BY <1>4 DEF Deactivate, NoteIfStale
  <2>3. Sold' = Sold /\ \A u : ActiveOn(u)' = ActiveOn(u)
    BY <2>2 DEF Sold, ActiveOn
  <2>4. \A u \in Slots : (u # s => (u \in Sound' <=> u \in Sound)) /\ (u \in Sound' => u \in Sound)
    BY <2>2 DEF Sound
  <2> QED BY <2>1, <2>3, <2>4, SlotSettles
<1>5. ASSUME NEW s \in Slots, Reactivate(s) PROVE [Allocation!Next]_(Allocation!vars)
  <2>1. UNCHANGED <<booking, stale>> /\ (reopened' = reopened \/ reopened' = reopened \cup {s})
    BY <1>5 DEF Reactivate
  <2>2. Sold' = Sold /\ \A u : ActiveOn(u)' = ActiveOn(u)
    BY <2>1 DEF Sold, ActiveOn
  <2>3. \A u \in Slots : (u # s => (u \in Sound' <=> u \in Sound)) /\ (u \in Sound' => u \in Sound)
    BY <2>1 DEF Sound
  <2> QED BY <2>2, <2>3, SlotSettles
<1>6. ASSUME NEW b \in Bookings, JobCancel(b) PROVE [Allocation!Next]_(Allocation!vars)
  <2> DEFINE s == booking[b].slot
  <2>1. s \in Slots /\ booking[b].status # "none"
    BY <1>6 DEF JobCancel, Links, JobLinks, BookingLinks, TypeOK, Job
  <2>2. /\ Settle(b, "cancelled", booking[b].txn) /\ UNCHANGED reopened
        /\ stale' = IF booking[b].status = "pending_payment" THEN stale ELSE stale \cup {s}
    BY <1>6 DEF JobCancel, NoteIfStale
  <2>3. "cancelled" \in BookingStatus \ {"none"} /\ booking[b].txn \in TxnStatus
    BY BookingTypes DEF BookingStatus
  <2>4. /\ stale' = stale \/ stale' = stale \cup {s}
        /\ booking[b].status \in Active \/ s \in stale'
    BY <2>2, StatusKinds
  <2> QED BY <2>1, <2>2, <2>3, <2>4, SettleMaps
<1>7. ASSUME NEW k \in Tasks, TaskStep(k) PROVE [Allocation!Next]_(Allocation!vars)
  <2>1. ASSUME NEW op \in BookingOp, NEW b \in Bookings, ReadBooking(k, op, b)
        PROVE  [Allocation!Next]_(Allocation!vars)
    BY <2>1, OthersStutter DEF ReadBooking
  <2>2. ASSUME NEW s \in Slots, ReadForDeactivate(k, s) PROVE [Allocation!Next]_(Allocation!vars)
    BY <2>2, OthersStutter DEF ReadForDeactivate
  <2>3. CASE TaskFails(k)
    BY <2>3, OthersStutter DEF TaskFails
  <2> QED BY <1>4, <1>7, <2>1, <2>2, <2>3, CommitMaps DEF TaskStep
<1>8. CASE JobStep
  <2>1. ASSUME NEW old \in SUBSET Bookings, JobRead(old) PROVE [Allocation!Next]_(Allocation!vars)
    BY <2>1, OthersStutter DEF JobRead
  <2>2. CASE JobKey \/ JobFails
    BY <2>2, OthersStutter DEF JobKey, JobFails
  <2> QED BY <1>6, <1>8, <2>1, <2>2 DEF JobStep
<1>9. ASSUME NEW b \in Bookings, UploadSlip(b) PROVE [Allocation!Next]_(Allocation!vars)
  BY <1>9, OthersStutter DEF UploadSlip
<1>10. CASE UNCHANGED vars
  BY <1>10, OthersStutter DEF vars
<1> QED BY <1>1, <1>2, <1>3, <1>5, <1>7, <1>8, <1>9, <1>10 DEF Next, BookStep

LEMMA InitMaps == Init => Allocation!Init
<1> SUFFICES ASSUME Init PROVE Allocation!Init
  OBVIOUS
<1>1. \A b \in Bookings : booking[b].status = "none"
  BY DEF Init, NoBooking
<1>2. \A s \in Slots : ActiveOn(s) = {} /\ s \in Sound
  BY <1>1, StatusKinds DEF ActiveOn, Init, Sound
<1>3. Owners = [s \in Slots |-> None]
  BY <1>2, OwnerIs DEF Owners
<1>4. Sold = {}
  BY <1>1 DEF Sold
<1> QED BY <1>3, <1>4 DEF Allocation!Init, Owners, Sold

(* However requests, handlers, webhooks and jobs interleave, fail and die, a slot *)
(* goes from free to one booking and back, and only a stale or staff write, which *)
(* voids it, can do anything else.                                                *)
THEOREM AllocationImplemented == Spec => ImplementsAllocation
<1>1. TypeOK /\ Links /\ SlotInv /\ [Next]_vars => [Allocation!Next]_(Allocation!vars)
  BY NextMaps
<1> QED
  BY <1>1, InitMaps, TypeCorrect, SlotInvariant, PTL DEF Spec, ImplementsAllocation, Allocation!Spec
=============================================================================
