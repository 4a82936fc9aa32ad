-------------------------- MODULE BookingLifecycle --------------------------
(***************************************************************************)
(* Bookings and payments over the slot lock: booking.service.ts,           *)
(* payment.service.ts (webhooks), the slot edits of slot.service.ts, the   *)
(* approval of permanent slots and the abandoned-booking job.              *)
(*                                                                         *)
(* Apart from the two bookings that lock the row first (createBooking and  *)
(* approveRecurringRequest) every handler has the same shape: it loads the *)
(* booking, checks its status, and later runs a transaction of updates by  *)
(* id that does not look at the status again.  Such a handler is a task: a *)
(* read step when its check passes and a commit step, with anything in     *)
(* between.  Two history variables record where that went wrong: "stale"   *)
(* holds the slots on which a handler committed although its own check     *)
(* would no longer have passed, "reopened" those that staff set back to    *)
(* available although a booking was active.                                *)
(***************************************************************************)
EXTENDS SlotLock

CONSTANTS
  Bookings,   \* rows of bookings, each with its payment transaction
  Tasks       \* handlers that can be between their read and their commit

ASSUME NoBookingIsNone == None \notin Bookings

VARIABLES
  booking,    \* booking rows, with the status of their payment transaction
  slips,      \* bookings whose latest bank slip is still to be reviewed
  task,       \* handlers between read and commit
  job,        \* the run of the abandoned-booking job in progress
  stale, reopened

bookVars == <<booking, slips, task, job, stale, reopened>>
vars     == <<status, lock, key, minted, granted, req, sweep,
              booking, slips, task, job, stale, reopened>>

Pending       == {"pending_payment", "pending_verification"}
Honoured      == {"confirmed", "checked_in"}
Active        == Pending \cup Honoured
Cancellable   == Pending \cup {"confirmed"}    \* ACTIVE_BOOKING_STATUSES
BookingStatus == {"none", "cancelled"} \cup Active
Method        == {"none", "online", "bank_transfer", "pay_at_venue"}
TxnStatus     == {"none", "pending", "paid", "failed", "cancelled"}
Booking == [status : BookingStatus, slot : Slots \cup {None}, token : Tokens \cup {None},
            method : Method, txn : TxnStatus]
NoBooking == [status |-> "none", slot |-> None, token |-> None, method |-> "none", txn |-> "none"]

BookingOp == {"cancel", "checkIn", "markPaid", "approve", "reject", "paid", "pending", "failed"}
Task == [op : BookingOp, booking : Bookings, slot : Slots \cup {None}]
          \cup [op : {"idle", "deactivate"}, booking : {None}, slot : Slots \cup {None}]
IdleTask == [op |-> "idle", booking |-> None, slot |-> None]
Job == [at : {"idle", "rows", "key"}, todo : SUBSET Bookings, slot : Slots \cup {None}]
IdleJob == [at |-> "idle", todo |-> {}, slot |-> None]

TypeOK ==
  /\ LockTypeOK
  /\ booking \in [Bookings -> Booking]
  /\ slips \in SUBSET Bookings
  /\ task \in [Tasks -> Task]
  /\ job \in Job
  /\ stale \in SUBSET Slots
  /\ reopened \in SUBSET Slots

Init ==
  /\ LockInit
  /\ booking = [b \in Bookings |-> NoBooking]
  /\ slips = {}
  /\ task = [k \in Tasks |-> IdleTask]
  /\ job = IdleJob
  /\ stale = {} /\ reopened = {}

-----------------------------------------------------------------------------
(***************************************************************************)
(* Creating bookings, with the slot's row locked.                          *)
(***************************************************************************)
(* mutant of InitialStatus: one status for everything not yet paid *)
InitialStatusPending(m) == IF m = "pay_at_venue" THEN "confirmed" ELSE "pending"
InitialStatus(m) == CASE m = "online"        -> "pending_payment"
                      [] m = "bank_transfer" -> "pending_verification"
                      [] m = "pay_at_venue"  -> "confirmed"
(* mutant of TakenAs: nothing is ever only reserved *)
TakenAsBooked(m) == "booked"
TakenAs(m) == IF m = "pay_at_venue" THEN "booked" ELSE "reserved"

Insert(b, s, t, m) ==
  /\ booking[b].status = "none"
  /\ booking' = [booking EXCEPT ![b] = [status |-> InitialStatus(m), slot |-> s, token |-> t,
                                        method |-> m, txn |-> "pending"]]

(* createBooking's transaction. *)
CreateBooking(r, b, m) ==
  /\ BookRow(r, TakenAs(m))
  /\ Insert(b, req[r].slot, req[r].token, m)
  /\ UNCHANGED <<slips, task, job, stale, reopened>>

(* approveRecurringRequest, one slot of one occurrence: no token needed. *)
ApproveOccurrence(s, b) ==
  /\ Lockable(s)
  /\ status' = [status EXCEPT ![s] = "booked"]
  /\ lock' = [lock EXCEPT ![s] = NoLock]
  /\ Insert(b, s, None, "pay_at_venue")
  /\ UNCHANGED <<key, minted, granted, req, sweep, slips, task, job, stale, reopened>>

-----------------------------------------------------------------------------
(***************************************************************************)
(* The checks the handlers make on the booking they loaded.                *)
(***************************************************************************)
Passes(op, b) ==
  LET st == booking[b].status IN
  CASE op = "cancel"   -> st \in Cancellable
    [] op = "checkIn"  -> st = "confirmed"
    [] op = "markPaid" -> st = "confirmed" /\ booking[b].method = "pay_at_venue"
    [] op \in {"approve", "reject"} -> st = "pending_verification" /\ b \in slips
    [] op \in {"paid", "pending", "failed"} -> st = "pending_payment"

(* The bookings a slot is taken by. *)
ActiveOn(s) == {b \in Bookings : booking[b].slot = s /\ booking[b].status \in Active}

(* updateSlot's check before it deactivates a slot. *)
Vacant(s) ==
  /\ status[s] # "booked"
  /\ \A b \in Bookings : booking[b].slot = s => booking[b].status = "cancelled"

(* A handler, or a delivery of the gateway's webhook, loads the booking and *)
(* its check passes; when it does not, the request ends with an error.      *)
ReadBooking(k, op, b) ==
  /\ task[k].op = "idle" /\ Passes(op, b)
  /\ task' = [task EXCEPT ![k] = [op |-> op, booking |-> b, slot |-> booking[b].slot]]
  /\ UNCHANGED <<status, lock, key, minted, granted, req, sweep, booking, slips, job, stale, reopened>>

ReadForDeactivate(k, s) ==
  /\ task[k].op = "idle" /\ Vacant(s)
  /\ task' = [task EXCEPT ![k] = [op |-> "deactivate", booking |-> None, slot |-> s]]
  /\ UNCHANGED <<status, lock, key, minted, granted, req, sweep, booking, slips, job, stale, reopened>>

(* The request dies, or its transaction is rolled back.  A webhook that    *)
(* fails this way was acknowledged with 200 and is not sent again.         *)
TaskFails(k) ==
  /\ task[k].op # "idle"
  /\ task' = [task EXCEPT ![k] = IdleTask]
  /\ UNCHANGED <<status, lock, key, minted, granted, req, sweep, booking, slips, job, stale, reopened>>

(* What the commits are made of. *)
(* mutant of Settle: forgets the booking's own status *)
SettleTxn(b, st, txn) == booking' = [booking EXCEPT ![b].txn = txn]
Settle(b, st, txn) == booking' = [booking EXCEPT ![b].status = st, ![b].txn = txn]
FreeSlot(s) == /\ status' = [status EXCEPT ![s] = "available"]
               /\ lock' = [lock EXCEPT ![s] = NoLock]
HoldSlot(s) == status' = [status EXCEPT ![s] = "booked"] /\ UNCHANGED lock
KeepSlot    == UNCHANGED <<status, lock>>
NoteIfStale(s, passes) == stale' = IF passes THEN stale ELSE stale \cup {s}

(* verifySlip also settles the slip; no other commit touches one. *)
Commit(k, op) ==
  /\ task[k].op = op
  /\ task' = [task EXCEPT ![k] = IdleTask]
  /\ NoteIfStale(task[k].slot, Passes(op, task[k].booking))
  /\ slips' = IF op \in {"approve", "reject"} THEN slips \ {task[k].booking} ELSE slips
  /\ UNCHANGED <<key, minted, granted, req, sweep, job, reopened>>

(* mutant of CancelBooking: leaves the payment transaction alone *)
CancelKeepsTxn(k) ==
  LET b == task[k].booking IN
  /\ Commit(k, "cancel")
  /\ Settle(b, "cancelled", booking[b].txn) /\ FreeSlot(task[k].slot)

(* cancelBooking; cancelRecurringRequest does the same to each booking. *)
CancelBooking(k) ==
  /\ Commit(k, "cancel")
  /\ Settle(task[k].booking, "cancelled", "cancelled") /\ FreeSlot(task[k].slot)

CheckIn(k) ==
  LET b == task[k].booking IN
  /\ Commit(k, "checkIn")
  /\ Settle(b, "checked_in", booking[b].txn) /\ KeepSlot

MarkPaid(k) ==
  LET b == task[k].booking IN
  /\ Commit(k, "markPaid")
  /\ Settle(b, booking[b].status, "paid") /\ HoldSlot(task[k].slot)

(* verifySlip with an approval, and with a rejection. *)
ApproveSlip(k) ==
  /\ Commit(k, "approve")
  /\ Settle(task[k].booking, "confirmed", "paid") /\ HoldSlot(task[k].slot)

RejectSlip(k) ==
  LET b == task[k].booking IN
  /\ Commit(k, "reject")
  /\ Settle(b, "cancelled", booking[b].txn) /\ FreeSlot(task[k].slot)

(* processWebhookPayment for each status the gateway reports. *)
WebhookPaid(k) ==
  /\ Commit(k, "paid")
  /\ Settle(task[k].booking, "confirmed", "paid") /\ HoldSlot(task[k].slot)

WebhookPending(k) ==
  LET b == task[k].booking IN
  /\ Commit(k, "pending")
  /\ Settle(b, booking[b].status, "pending") /\ KeepSlot

WebhookFailed(k) ==
  /\ Commit(k, "failed")
  /\ Settle(task[k].booking, "cancelled", "failed") /\ FreeSlot(task[k].slot)

(* uploadSlip: a new verification row, the latest and pending.  The check   *)
(* was made while the booking awaited verification, as every bank transfer *)
(* once does; by the time of the insert it may be settled.                 *)
UploadSlip(b) ==
  /\ booking[b].method = "bank_transfer" /\ b \notin slips
  /\ slips' = slips \cup {b}
  /\ UNCHANGED <<status, lock, key, minted, granted, req, sweep, booking, task, job, stale, reopened>>

-----------------------------------------------------------------------------
(***************************************************************************)
(* updateSlot by staff.                                                    *)
(***************************************************************************)
Deactivate(k) ==
  LET s == task[k].slot IN
  /\ task[k].op = "deactivate"
  /\ task' = [task EXCEPT ![k] = IdleTask]
  /\ status' = [status EXCEPT ![s] = "inactive"]
  /\ NoteIfStale(s, Vacant(s))
  /\ UNCHANGED <<lock, key, minted, granted, req, sweep, booking, slips, job, reopened>>

(* There is no check at all on the way to available. *)
Reactivate(s) ==
  /\ status' = [status EXCEPT ![s] = "available"]
  /\ reopened' = IF ActiveOn(s) = {} THEN reopened ELSE reopened \cup {s}
  /\ UNCHANGED <<lock, key, minted, granted, req, sweep, booking, slips, task, job, stale>>

-----------------------------------------------------------------------------
(***************************************************************************)
(* The abandoned-booking job.  Which of the pending_payment bookings are   *)
(* older than 30 minutes is left open.                                     *)
(***************************************************************************)
JobReadSlips(old) ==   \* mutant of JobRead: looks for the wrong status
  /\ job.at = "idle" /\ old # {}
  /\ old \subseteq {b \in Bookings : booking[b].status = "pending_verification"}
  /\ job' = [IdleJob EXCEPT !.at = "rows", !.todo = old]
  /\ UNCHANGED <<status, lock, key, minted, granted, req, sweep, booking, slips, task, stale, reopened>>

JobRead(old) ==
  /\ job.at = "idle" /\ old # {}
  /\ old \subseteq {b \in Bookings : booking[b].status = "pending_payment"}
  /\ job' = [IdleJob EXCEPT !.at = "rows", !.todo = old]
  /\ UNCHANGED <<status, lock, key, minted, granted, req, sweep, booking, slips, task, stale, reopened>>

(* One transaction per booking read, without looking at it again ... *)
JobCancel(b) ==
  LET s == booking[b].slot IN
  /\ job.at = "rows" /\ b \in job.todo
  /\ job' = [at |-> "key", todo |-> job.todo \ {b}, slot |-> s]
  /\ Settle(b, "cancelled", booking[b].txn) /\ FreeSlot(s)
  /\ NoteIfStale(s, booking[b].status = "pending_payment")
  /\ UNCHANGED <<key, minted, granted, req, sweep, slips, task, reopened>>

(* ... and then the slot's lock key is deleted, whoever's it is. *)
JobKey ==
  /\ job.at = "key"
  /\ key' = [key EXCEPT ![job.slot] = None]
  /\ job' = IF job.todo = {} THEN IdleJob ELSE [job EXCEPT !.at = "rows", !.slot = None]
  /\ UNCHANGED <<status, lock, minted, granted, req, sweep, booking, slips, task, stale, reopened>>

(* A failing transaction ends the run; the next one reads again. *)
JobFails ==
  /\ job.at # "idle"
  /\ job' = IdleJob
  /\ UNCHANGED <<status, lock, key, minted, granted, req, sweep, booking, slips, task, stale, reopened>>

-----------------------------------------------------------------------------
BookStep ==
  \/ \E r \in Requests, b \in Bookings, m \in Method \ {"none"} : CreateBooking(r, b, m)
  \/ \E s \in Slots, b \in Bookings : ApproveOccurrence(s, b)

TaskStep(k) ==
  \/ \E op \in BookingOp, b \in Bookings : ReadBooking(k, op, b)
  \/ \E s \in Slots : ReadForDeactivate(k, s)
  \/ CancelBooking(k) \/ CheckIn(k) \/ MarkPaid(k)
  \/ ApproveSlip(k) \/ RejectSlip(k)
  \/ WebhookPaid(k) \/ WebhookPending(k) \/ WebhookFailed(k)
  \/ Deactivate(k) \/ TaskFails(k)

JobStep ==
  \/ \E old \in SUBSET Bookings : JobRead(old)
  \/ \E b \in Bookings : JobCancel(b)
  \/ JobKey \/ JobFails

Next ==
  \/ LockNext /\ UNCHANGED bookVars
  \/ BookStep
  \/ \E k \in Tasks : TaskStep(k)
  \/ \E b \in Bookings : UploadSlip(b)
  \/ \E s \in Slots : Reactivate(s)
  \/ JobStep

Spec == Init /\ [][Next]_vars

-----------------------------------------------------------------------------
(***************************************************************************)
(* What the booking service promises.                                      *)
(***************************************************************************)
OneActive(s) == \A b1, b2 \in ActiveOn(s) : b1 = b2
Sound == Slots \ (stale \cup reopened)

(* Two bookings hold one slot only if a handler committed on a stale check *)
(* or staff re-opened the taken slot: the row lock of createBooking and of *)
(* approveRecurringRequest is enough whatever happens to Redis.            *)
NoDoubleBooking == \A s \in Sound : OneActive(s)

(* Under the same proviso time_slots.status and the bookings agree: a slot *)
(* is reserved exactly while a booking awaits its payment, and booked      *)
(* exactly while one is confirmed or checked in.                           *)
SlotMatchesBooking ==
  \A s \in Sound :
    /\ status[s] = "reserved" <=> \E b \in ActiveOn(s) : booking[b].status \in Pending
    /\ status[s] = "booked" <=> \E b \in ActiveOn(s) : booking[b].status \in Honoured

(* Under the same proviso money and bookings agree: nobody has paid for a  *)
(* booking that is not honoured, and a booking paid in advance is honoured *)
(* only once it is paid.                                                   *)
PaymentMatchesBooking ==
  \A b \in Bookings : booking[b].slot \in Sound =>
    /\ booking[b].txn = "paid" => booking[b].status \in Honoured
    /\ booking[b].status \in Honoured /\ booking[b].method # "pay_at_venue"
         => booking[b].txn = "paid"

(* A lock token buys at most one booking, whatever is stale: not even two  *)
(* createBooking requests with the same token both succeed.                *)
TokenBuysOneBooking ==
  \A b1, b2 \in Bookings :
    booking[b1].token # None /\ booking[b1].token = booking[b2].token => b1 = b2

(* While a customer's row lock is live on a slot that no booking holds,    *)
(* nobody else gets the slot, whatever happened to it before: it is taken  *)
(* by a booking made with that customer's token, or in the very step in    *)
(* which a handler confirms a booking that it read before it was cancelled.*)
TakenWithToken(s, t) ==
  \E b \in Bookings : booking[b].status = "none" /\ booking'[b].slot = s /\ booking'[b].token = t
TakenByStaleConfirm(s) ==
  \E k \in Tasks : /\ task[k].op \in {"markPaid", "approve", "paid"} /\ task[k].slot = s
                   /\ ~ Passes(task[k].op, task[k].booking) /\ task'[k] = IdleTask
HolderComesFirst ==
  [][\A s \in Slots : lock[s].live /\ status[s] = "available" /\ ActiveOn(s) = {}
       /\ status'[s] \in {"reserved", "booked"}
       => TakenWithToken(s, lock[s].token) \/ TakenByStaleConfirm(s)]_vars

-----------------------------------------------------------------------------
(***************************************************************************)
(* The inductive invariants behind these properties (see the proofs).      *)
(***************************************************************************)

(* Whatever refers to a booking refers to one that exists, and remembers   *)
(* its slot; a row of bookings never changes its slot.                     *)
BookingLinks ==
  \A b \in Bookings : /\ booking[b].status # "none" => booking[b].slot \in Slots
                      /\ booking[b].status = "none" => booking[b] = NoBooking
TaskLinks ==
  \A k \in Tasks :
    /\ task[k].op \in BookingOp => /\ booking[task[k].booking].status # "none"
                                   /\ task[k].slot = booking[task[k].booking].slot
    /\ task[k].op = "deactivate" => task[k].slot \in Slots
JobLinks ==
  /\ \A b \in job.todo : booking[b].status # "none"
  /\ job.at = "key" => job.slot \in Slots
Links == BookingLinks /\ TaskLinks /\ JobLinks

SlotInv == NoDoubleBooking /\ SlotMatchesBooking /\ PaymentMatchesBooking

(* A token is held by one row, by one lockSlot on its way to a row, or by  *)
(* one booking, and by no two of them.                                     *)
Spent == {booking[b].token : b \in Bookings}
OnItsWay(r, t) == req[r].at = "lockRow" /\ req[r].token = t
TokenInv ==
  /\ TokenBuysOneBooking
  /\ \A b \in Bookings : booking[b].token # None => booking[b].token \in minted
  /\ \A s \in Slots : lock[s].token # None =>
       /\ lock[s].token \in minted \ Spent
       /\ \A s2 \in Slots : lock[s2].token = lock[s].token => s2 = s
  /\ \A r \in Requests : req[r].at = "lockRow" =>
       /\ req[r].token \in minted \ Spent
       /\ \A s \in Slots : lock[s].token # req[r].token
       /\ \A r2 \in Requests : OnItsWay(r2, req[r].token) => r2 = r
=============================================================================
