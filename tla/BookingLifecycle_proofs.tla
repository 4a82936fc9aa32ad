---------------------- MODULE BookingLifecycle_proofs ----------------------
(***************************************************************************)
(* Theorems of BookingLifecycle for any slots, tokens, bookings, requests  *)
(* and tasks: types, the agreement of slots with bookings and payments,    *)
(* and that a lock token buys one booking.                                 *)
(***************************************************************************)
EXTENDS BookingLifecycle, TLAPS

-----------------------------------------------------------------------------
(* Type correctness, first of the lock's variables. *)

(* A step of lockSlot, unlockSlot or createBooking keeps the lock's types. *)
LEMMA LockServeTypes ==
  ASSUME LockTypeOK, NEW r \in Requests, LockServe(r)
  PROVE  LockTypeOK'
<1> USE DEF LockTypeOK, RowLock, NoLock, Request, IdleReq, ReqStep, Sweep,
            Begin, Continue, Finish
<1>1. ASSUME NEW s \in Slots, NEW t \in Tokens, LockKey(r, s, t) PROVE LockTypeOK'
  BY <1>1 DEF LockKey
<1>2. ASSUME NEW s \in Slots, NEW t \in Tokens, UnlockCheck(r, s, t) PROVE LockTypeOK'
  BY <1>2 DEF UnlockCheck
<1>3. ASSUME NEW s \in Slots, NEW t \in Tokens, BookCheck(r, s, t) PROVE LockTypeOK'
  BY <1>3 DEF BookCheck
<1>4. CASE LockRow(r)      BY <1>4 DEF LockRow
<1>5. CASE LockRowFails(r) BY <1>5 DEF LockRowFails
<1>6. CASE LockUndo(r)     BY <1>6 DEF LockUndo
<1>7. CASE UnlockKey(r)    BY <1>7 DEF UnlockKey
<1>8. CASE UnlockRow(r)    BY <1>8 DEF UnlockRow
<1>9. CASE BookRowFails(r) BY <1>9 DEF BookRowFails
<1>10. CASE BookKey(r)     BY <1>10 DEF BookKey
<1>11. CASE Crash(r)       BY <1>11 DEF Crash
<1> QED
  BY <1>1, <1>2, <1>3, <1>4, <1>5, <1>6, <1>7, <1>8, <1>9, <1>10, <1>11 DEF LockServe

(* So do the slot-cleanup job and the passing of time. *)
LEMMA LockBackgroundTypes ==
  ASSUME LockTypeOK, LockBackground
  PROVE  LockTypeOK'
<1> USE DEF LockTypeOK, RowLock, NoLock, Sweep, IdleSweep
<1>1. CASE SweepRead  BY <1>1 DEF SweepRead
<1>2. CASE SweepRows  BY <1>2 DEF SweepRows
<1>3. CASE SweepFails BY <1>3 DEF SweepFails
<1>4. ASSUME NEW s \in Slots, SweepKey(s)    PROVE LockTypeOK' BY <1>4 DEF SweepKey
<1>5. ASSUME NEW s \in Slots, KeyExpires(s)  PROVE LockTypeOK' BY <1>5 DEF KeyExpires
<1>6. ASSUME NEW s \in Slots, LockExpires(s) PROVE LockTypeOK' BY <1>6 DEF LockExpires
<1> QED
  BY <1>1, <1>2, <1>3, <1>4, <1>5, <1>6 DEF LockBackground

-----------------------------------------------------------------------------
(* Writes to a booking. *)

(* A transaction's update of a booking changes its status and its          *)
(* transaction, and no other booking.                                      *)
LEMMA SettleFacts ==
  ASSUME TypeOK, NEW b \in Bookings, NEW st \in BookingStatus, NEW txn \in TxnStatus,
         Settle(b, st, txn)
  PROVE  /\ booking' \in [Bookings -> Booking]
         /\ \A c \in Bookings : /\ booking'[c].slot = booking[c].slot
                                /\ booking'[c].token = booking[c].token
                                /\ booking'[c].method = booking[c].method
                                /\ c # b => booking'[c] = booking[c]
         /\ booking'[b].status = st /\ booking'[b].txn = txn
BY DEF TypeOK, Settle, Booking

(* The fields of a booking row have their types. *)
LEMMA BookingTypes ==
  ASSUME TypeOK, NEW b \in Bookings
  PROVE  /\ booking[b].status \in BookingStatus /\ booking[b].txn \in TxnStatus
         /\ booking[b].method \in Method /\ booking[b].slot \in Slots \cup {None}
         /\ booking[b].token \in Tokens \cup {None}
BY DEF TypeOK, Booking

(* What every commit of a handler's task has in common. *)
LEMMA CommitFacts ==
  ASSUME TypeOK, Links, NEW k \in Tasks, NEW op \in BookingOp, Commit(k, op)
  PROVE  /\ task[k].booking \in Bookings
         /\ booking[task[k].booking].status # "none"
         /\ task[k].slot \in Slots /\ task[k].slot = booking[task[k].booking].slot
         /\ task' \in [Tasks -> Task]
         /\ \A k2 \in Tasks : task'[k2] \in {task[k2], IdleTask}
         /\ stale' \in SUBSET Slots /\ stale \subseteq stale'
         /\ Passes(op, task[k].booking) \/ task[k].slot \in stale'
         /\ slips' \in SUBSET Bookings
         /\ UNCHANGED <<key, minted, granted, req, sweep, job, reopened>>
<1>1. task[k] \in Task /\ task[k].op = op /\ task \in [Tasks -> Task]
  BY DEF Commit, TypeOK
<1>2. task[k].booking \in Bookings
  BY <1>1 DEF Task, BookingOp
<1>3. /\ booking[task[k].booking].status # "none"
      /\ task[k].slot \in Slots /\ task[k].slot = booking[task[k].booking].slot
  BY <1>1, <1>2 DEF Links, BookingLinks, TaskLinks
<1>4. task' = [task EXCEPT ![k] = IdleTask] /\ IdleTask \in Task
  BY DEF Commit, IdleTask, Task
<1> QED
  BY <1>1, <1>2, <1>3, <1>4 DEF Commit, NoteIfStale, TypeOK

(* A commit leaves the slot's row with a known status and lock. *)
LEMMA SlotWriteTypes ==
  ASSUME TypeOK, NEW s \in Slots, FreeSlot(s) \/ HoldSlot(s) \/ KeepSlot
  PROVE  status' \in [Slots -> SlotStatus] /\ lock' \in [Slots -> RowLock]
<1> USE DEF TypeOK, LockTypeOK, SlotStatus, RowLock, NoLock
<1>1. CASE FreeSlot(s) BY <1>1 DEF FreeSlot
<1>2. CASE HoldSlot(s) BY <1>2 DEF HoldSlot
<1>3. CASE KeepSlot    BY <1>3 DEF KeepSlot
<1> QED BY <1>1, <1>2, <1>3

(* Types and links after any commit. *)
LEMMA CommitLinks ==
  ASSUME TypeOK, Links, NEW k \in Tasks, NEW op \in BookingOp, Commit(k, op),
         NEW st \in BookingStatus \ {"none"}, NEW txn \in TxnStatus,
         Settle(task[k].booking, st, txn),
         FreeSlot(task[k].slot) \/ HoldSlot(task[k].slot) \/ KeepSlot
  PROVE  TypeOK' /\ Links'
<1> DEFINE b == task[k].booking
           s == task[k].slot
<1>1. /\ b \in Bookings /\ booking[b].status # "none" /\ s \in Slots
      /\ task' \in [Tasks -> Task] /\ stale' \in SUBSET Slots
      /\ \A k2 \in Tasks : task'[k2] \in {task[k2], IdleTask}
      /\ slips' \in SUBSET Bookings
      /\ UNCHANGED <<key, minted, granted, req, sweep, job, reopened>>
  BY CommitFacts
<1>2. status' \in [Slots -> SlotStatus] /\ lock' \in [Slots -> RowLock]
  BY <1>1, SlotWriteTypes
<1>3. /\ booking' \in [Bookings -> Booking]
      /\ \A c \in Bookings : booking'[c].slot = booking[c].slot /\ (c # b => booking'[c] = booking[c])
      /\ booking'[b].status = st
  BY <1>1, SettleFacts
<1>4. TypeOK'
  BY <1>1, <1>2, <1>3 DEF TypeOK, LockTypeOK
<1>5. \A c \in Bookings : booking[c].status # "none" => booking'[c].status # "none"
  BY <1>1, <1>3
<1>6. BookingLinks'
  BY <1>1, <1>3 DEF Links, BookingLinks
<1>7. ASSUME NEW k2 \in Tasks
      PROVE  /\ task'[k2].op \in BookingOp => /\ booking'[task'[k2].booking].status # "none"
                                              /\ task'[k2].slot = booking'[task'[k2].booking].slot
             /\ task'[k2].op = "deactivate" => task'[k2].slot \in Slots
  <2>1. CASE task'[k2] = IdleTask
    BY <2>1 DEF IdleTask, BookingOp
  <2>2. CASE task'[k2] = task[k2]
    <3>1. task[k2].op \in BookingOp => task[k2].booking \in Bookings
      BY DEF TypeOK, Task, BookingOp
    <3>2. /\ task[k2].op \in BookingOp => /\ booking[task[k2].booking].status # "none"
                                         /\ task[k2].slot = booking[task[k2].booking].slot
          /\ task[k2].op = "deactivate" => task[k2].slot \in Slots
      BY DEF Links, TaskLinks
    <3>3. CASE task[k2].op \in BookingOp
      <4>1. /\ booking'[task[k2].booking].status # "none"
            /\ booking'[task[k2].booking].slot = booking[task[k2].booking].slot
        BY <3>1, <3>2, <3>3, <1>3, <1>5
      <4>2. task[k2].op # "deactivate"
        BY <3>3 DEF BookingOp
      <4> QED BY <2>2, <3>2, <3>3, <4>1, <4>2
    <3>4. CASE task[k2].op \notin BookingOp
      BY <2>2, <3>2, <3>4
    <3> QED BY <3>3, <3>4
  <2> QED BY <1>1, <2>1, <2>2
<1>8. TaskLinks'
  BY <1>7 DEF TaskLinks, BookingOp
<1>9. JobLinks'
  BY <1>1, <1>5 DEF Links, JobLinks, TypeOK, Job
<1> QED BY <1>4, <1>6, <1>8, <1>9 DEF Links

(* A new booking is inserted in place of a row that did not exist. *)
LEMMA InsertFacts ==
  ASSUME TypeOK, Links, NEW b \in Bookings, NEW s \in Slots, NEW t \in Tokens \cup {None},
         NEW m \in Method \ {"none"}, Insert(b, s, t, m)
  PROVE  /\ booking' \in [Bookings -> Booking]
         /\ booking[b] = NoBooking
         /\ booking'[b] = [status |-> InitialStatus(m), slot |-> s, token |-> t,
                           method |-> m, txn |-> "pending"]
         /\ InitialStatus(m) \in Active
         /\ \A c \in Bookings : c # b => booking'[c] = booking[c]
<1>1. InitialStatus(m) \in {"pending_payment", "pending_verification", "confirmed"}
  BY DEF InitialStatus, Method
<1>2. InitialStatus(m) \in Active /\ InitialStatus(m) \in BookingStatus
  BY <1>1 DEF Active, Pending, Honoured, BookingStatus
<1>3. booking[b] = NoBooking
  BY DEF Insert, Links, BookingLinks
<1> DEFINE new == [status |-> InitialStatus(m), slot |-> s, token |-> t,
                   method |-> m, txn |-> "pending"]
<1>4. new \in Booking
  BY <1>2 DEF Booking, TxnStatus
<1>5. booking \in [Bookings -> Booking]
  BY DEF TypeOK
<1>6. booking' = [booking EXCEPT ![b] = new]
  BY DEF Insert
<1> HIDE DEF new
<1>7. /\ booking' \in [Bookings -> Booking] /\ booking'[b] = new
      /\ \A c \in Bookings : c # b => booking'[c] = booking[c]
  BY <1>4, <1>5, <1>6
<1> QED BY <1>2, <1>3, <1>7 DEF new

(* References survive an insertion. *)
LEMMA InsertLinks ==
  ASSUME TypeOK, Links, NEW b \in Bookings, NEW s \in Slots, NEW t \in Tokens \cup {None},
         NEW m \in Method \ {"none"}, Insert(b, s, t, m), UNCHANGED <<task, job>>
  PROVE  Links'
<1>1. /\ booking[b] = NoBooking
      /\ booking'[b].status # "none" /\ booking'[b].slot = s
      /\ \A c \in Bookings : c # b => booking'[c] = booking[c]
  <2>1. "none" \notin Active
    BY DEF Active, Pending, Honoured
  <2>2. /\ booking[b] = NoBooking
        /\ booking'[b] = [status |-> InitialStatus(m), slot |-> s, token |-> t,
                          method |-> m, txn |-> "pending"]
        /\ InitialStatus(m) \in Active
        /\ \A c \in Bookings : c # b => booking'[c] = booking[c]
    BY InsertFacts
  <2>3. booking'[b].status = InitialStatus(m) /\ booking'[b].slot = s
    BY <2>2
  <2> QED BY <2>1, <2>2, <2>3
<1>2. BookingLinks'
  BY <1>1 DEF Links, BookingLinks
<1>3. booking[b].status = "none"
  BY <1>1 DEF NoBooking
<1>4. TaskLinks'
  <2>1. ASSUME NEW k \in Tasks, task[k].op \in BookingOp
        PROVE  task[k].booking \in Bookings /\ task[k].booking # b
    BY <2>1, <1>3 DEF TypeOK, Task, BookingOp, Links, TaskLinks
  <2> QED BY <2>1, <1>1 DEF Links, TaskLinks
<1>5. JobLinks'
  BY <1>1, <1>3 DEF Links, JobLinks, TypeOK, Job
<1> QED BY <1>2, <1>4, <1>5 DEF Links

(* createBooking and approveRecurringRequest keep types and links. *)
LEMMA BookStepLinks ==
  ASSUME TypeOK, Links, BookStep
  PROVE  TypeOK' /\ Links'
<1>1. ASSUME NEW r \in Requests, NEW b \in Bookings, NEW m \in Method \ {"none"},
             CreateBooking(r, b, m)
      PROVE  TypeOK' /\ Links'
  <2>1. req[r].at = "bookRow" /\ req[r] \in Request
    BY <1>1 DEF CreateBooking, BookRow, TypeOK, LockTypeOK
  <2>2. req[r].slot \in Slots /\ req[r].token \in Tokens
    BY <2>1 DEF Request, IdleReq
  <2>3. Insert(b, req[r].slot, req[r].token, m) /\ UNCHANGED <<slips, task, job, stale, reopened>>
    BY <1>1 DEF CreateBooking
  <2>4. booking' \in [Bookings -> Booking] /\ Links'
    BY <2>2, <2>3, InsertFacts, InsertLinks
  <2>5. TakenAs(m) \in SlotStatus
    BY DEF TakenAs, SlotStatus
  <2>6. LockTypeOK'
    BY <1>1, <2>1, <2>5 DEF CreateBooking, BookRow, Continue, TypeOK, LockTypeOK, RowLock,
                            NoLock, Request, IdleReq, ReqStep
  <2> QED BY <2>3, <2>4, <2>6 DEF TypeOK
<1>2. ASSUME NEW s \in Slots, NEW b \in Bookings, ApproveOccurrence(s, b)
      PROVE  TypeOK' /\ Links'
  <2>1. Insert(b, s, None, "pay_at_venue") /\ "pay_at_venue" \in Method \ {"none"}
        /\ UNCHANGED <<key, minted, granted, req, sweep, slips, task, job, stale, reopened>>
    BY <1>2 DEF ApproveOccurrence, Method
  <2>2. booking' \in [Bookings -> Booking] /\ Links'
    BY <2>1, InsertFacts, InsertLinks
  <2>3. LockTypeOK'
    BY <1>2 DEF ApproveOccurrence, TypeOK, LockTypeOK, SlotStatus, RowLock, NoLock
  <2> QED BY <2>1, <2>2, <2>3 DEF TypeOK
<1> QED BY <1>1, <1>2 DEF BookStep

(***************************************************************************)
(* The steps of the tasks.                                                 *)
(***************************************************************************)
LEMMA TaskCommitLinks ==
  ASSUME TypeOK, Links, NEW k \in Tasks,
         \/ CancelBooking(k) \/ CheckIn(k) \/ MarkPaid(k) \/ ApproveSlip(k) \/ RejectSlip(k)
         \/ WebhookPaid(k) \/ WebhookPending(k) \/ WebhookFailed(k)
  PROVE  TypeOK' /\ Links'
<1> DEFINE b == task[k].booking
<1>1. ASSUME NEW op \in BookingOp, Commit(k, op)
      PROVE  /\ booking[b].status \in BookingStatus \ {"none"}
             /\ booking[b].txn \in TxnStatus
  BY <1>1, CommitFacts, BookingTypes
<1>2. {"cancelled", "checked_in", "confirmed"} \subseteq BookingStatus \ {"none"}
  BY DEF BookingStatus, Active, Pending, Honoured
<1>3. TxnStatus = {"none", "pending", "paid", "failed", "cancelled"}
      /\ BookingOp = {"cancel", "checkIn", "markPaid", "approve", "reject", "paid", "pending", "failed"}
  BY DEF TxnStatus, BookingOp
<1>4. CASE CancelBooking(k)
  BY <1>4, <1>2, <1>3, CommitLinks DEF CancelBooking
<1>5. CASE CheckIn(k)
  BY <1>5, <1>1, <1>2, <1>3, CommitLinks DEF CheckIn
<1>6. CASE MarkPaid(k)
  BY <1>6, <1>1, <1>2, <1>3, CommitLinks DEF MarkPaid
<1>7. CASE ApproveSlip(k)
  BY <1>7, <1>2, <1>3, CommitLinks DEF ApproveSlip
<1>8. CASE RejectSlip(k)
  BY <1>8, <1>1, <1>2, <1>3, CommitLinks DEF RejectSlip
<1>9. CASE WebhookPaid(k)
  BY <1>9, <1>2, <1>3, CommitLinks DEF WebhookPaid
<1>10. CASE WebhookPending(k)
  BY <1>10, <1>1, <1>2, <1>3, CommitLinks DEF WebhookPending
<1>11. CASE WebhookFailed(k)
  BY <1>11, <1>2, <1>3, CommitLinks DEF WebhookFailed
<1> QED BY <1>4, <1>5, <1>6, <1>7, <1>8, <1>9, <1>10, <1>11

(* So does every step of a handler, its reads and failures included, ... *)
LEMMA TaskStepLinks ==
  ASSUME TypeOK, Links, NEW k \in Tasks, TaskStep(k)
  PROVE  TypeOK' /\ Links'
<1>1. ASSUME NEW op \in BookingOp, NEW b \in Bookings, ReadBooking(k, op, b)
      PROVE  TypeOK' /\ Links'
  <2> DEFINE new == [op |-> op, booking |-> b, slot |-> booking[b].slot]
  <2>1. booking[b].status # "none"
    BY <1>1 DEF ReadBooking, Passes, BookingOp, Cancellable, Pending
  <2>2. booking[b].slot \in Slots
    BY <2>1 DEF Links, BookingLinks
  <2>3. new \in Task
    BY <2>2 DEF Task
  <2>4. task' = [task EXCEPT ![k] = new] /\ task \in [Tasks -> Task]
    BY <1>1 DEF ReadBooking, TypeOK
  <2>5. op # "deactivate"
    BY DEF BookingOp
  <2> HIDE DEF new
  <2>6. /\ task' \in [Tasks -> Task] /\ task'[k] = new
        /\ \A k2 \in Tasks : k2 # k => task'[k2] = task[k2]
    BY <2>3, <2>4
  <2>7. UNCHANGED <<status, lock, key, minted, granted, req, sweep, booking, slips, job, stale, reopened>>
    BY <1>1 DEF ReadBooking
  <2>8. TypeOK'
    BY <2>6, <2>7 DEF TypeOK, LockTypeOK
  <2>9. BookingLinks' /\ JobLinks'
    BY <2>7 DEF Links, BookingLinks, JobLinks
  <2>10. TaskLinks'
    BY <2>1, <2>2, <2>5, <2>6, <2>7 DEF Links, TaskLinks, new
  <2> QED BY <2>8, <2>9, <2>10 DEF Links
<1>2. ASSUME NEW s \in Slots, ReadForDeactivate(k, s)
      PROVE  TypeOK' /\ Links'
  <2> DEFINE new == [op |-> "deactivate", booking |-> None, slot |-> s]
  <2>1. new \in Task /\ new.op \notin BookingOp
    BY DEF Task, BookingOp
  <2>2. task' = [task EXCEPT ![k] = new] /\ task \in [Tasks -> Task]
    BY <1>2 DEF ReadForDeactivate, TypeOK
  <2> HIDE DEF new
  <2>3. /\ task' \in [Tasks -> Task] /\ task'[k] = new
        /\ \A k2 \in Tasks : k2 # k => task'[k2] = task[k2]
    BY <2>1, <2>2
  <2>4. UNCHANGED <<status, lock, key, minted, granted, req, sweep, booking, slips, job, stale, reopened>>
    BY <1>2 DEF ReadForDeactivate
  <2>5. TypeOK'
    BY <2>3, <2>4 DEF TypeOK, LockTypeOK
  <2>6. BookingLinks' /\ JobLinks'
    BY <2>4 DEF Links, BookingLinks, JobLinks
  <2>7. new.slot \in Slots
    BY DEF new
  <2>8. TaskLinks'
    BY <2>1, <2>3, <2>4, <2>7 DEF Links, TaskLinks
  <2> QED BY <2>5, <2>6, <2>8 DEF Links
<1>3. CASE Deactivate(k) \/ TaskFails(k)
  <2>1. /\ task' = [task EXCEPT ![k] = IdleTask]
        /\ UNCHANGED <<lock, key, minted, granted, req, sweep, booking, slips, job, reopened>>
    BY <1>3 DEF Deactivate, TaskFails
  <2>2. IdleTask \in Task /\ IdleTask.op \notin BookingOp \cup {"deactivate"}
    BY DEF Task, IdleTask, BookingOp
  <2>3. /\ task' \in [Tasks -> Task] /\ task'[k] = IdleTask
        /\ \A k2 \in Tasks : k2 # k => task'[k2] = task[k2]
    BY <2>1, <2>2 DEF TypeOK
  <2>4. status' \in [Slots -> SlotStatus] /\ stale' \in SUBSET Slots
    <3>1. CASE Deactivate(k)
      BY <3>1 DEF Deactivate, NoteIfStale, TypeOK, LockTypeOK, SlotStatus, Links, TaskLinks
    <3>2. CASE TaskFails(k)
      BY <3>2 DEF TaskFails, TypeOK, LockTypeOK
    <3> QED BY <1>3, <3>1, <3>2
  <2>5. TypeOK'
    BY <2>1, <2>3, <2>4 DEF TypeOK, LockTypeOK
  <2>6. BookingLinks' /\ JobLinks'
    BY <2>1 DEF Links, BookingLinks, JobLinks
  <2>7. TaskLinks'
    BY <2>1, <2>2, <2>3 DEF Links, TaskLinks
  <2> QED BY <2>5, <2>6, <2>7 DEF Links
<1> QED BY <1>1, <1>2, <1>3, TaskCommitLinks DEF TaskStep

(* ... every step of the abandoned-booking job ... *)
LEMMA JobStepLinks ==
  ASSUME TypeOK, Links, JobStep
  PROVE  TypeOK' /\ Links'
<1>1. ASSUME NEW old \in SUBSET Bookings, JobRead(old)
      PROVE  TypeOK' /\ Links'
  <2>1. /\ job' = [at |-> "rows", todo |-> old, slot |-> None]
        /\ UNCHANGED <<status, lock, key, minted, granted, req, sweep, booking, slips, task, stale, reopened>>
        /\ \A b \in old : booking[b].status # "none"
    BY <1>1 DEF JobRead, IdleJob
  <2>2. TypeOK'
    BY <2>1 DEF TypeOK, LockTypeOK, Job
  <2>3. BookingLinks' /\ TaskLinks' /\ JobLinks'
    BY <2>1 DEF Links, BookingLinks, TaskLinks, JobLinks
  <2> QED BY <2>2, <2>3 DEF Links
<1>2. ASSUME NEW b \in Bookings, JobCancel(b)
      PROVE  TypeOK' /\ Links'
  <2> DEFINE s == booking[b].slot
  <2>1. b \in job.todo /\ job \in Job /\ job.todo \subseteq Bookings
    BY <1>2 DEF JobCancel, TypeOK, Job
  <2>2. booking[b].status # "none" /\ s \in Slots /\ \A c \in job.todo : booking[c].status # "none"
    BY <2>1 DEF Links, JobLinks, BookingLinks
  <2>3. /\ job' = [at |-> "key", todo |-> job.todo \ {b}, slot |-> s]
        /\ Settle(b, "cancelled", booking[b].txn) /\ FreeSlot(s)
        /\ UNCHANGED <<key, minted, granted, req, sweep, slips, task, reopened>>
        /\ stale' \in {stale, stale \cup {s}}
    BY <1>2 DEF JobCancel, NoteIfStale
  <2>4. "cancelled" \in BookingStatus /\ booking[b].txn \in TxnStatus
    BY BookingTypes DEF BookingStatus
  <2>5. /\ booking' \in [Bookings -> Booking]
        /\ \A c \in Bookings : booking'[c].slot = booking[c].slot /\ (c # b => booking'[c] = booking[c])
        /\ booking'[b].status = "cancelled"
    BY <2>3, <2>4, SettleFacts
  <2>6. status' \in [Slots -> SlotStatus] /\ lock' \in [Slots -> RowLock]
    BY <2>2, <2>3, SlotWriteTypes
  <2>7. job' \in Job
    BY <2>1, <2>2, <2>3 DEF Job
  <2>8. stale' \in SUBSET Slots
    BY <2>2, <2>3 DEF TypeOK
  <2>9. TypeOK'
    BY <2>3, <2>5, <2>6, <2>7, <2>8 DEF TypeOK, LockTypeOK
  <2>10. \A c \in Bookings : booking[c].status # "none" => booking'[c].status # "none"
    BY <2>5
  <2>11. BookingLinks'
    BY <2>2, <2>5 DEF Links, BookingLinks
  <2>12. TaskLinks'
    <3>1. ASSUME NEW k \in Tasks, task[k].op \in BookingOp PROVE task[k].booking \in Bookings
      BY <3>1 DEF TypeOK, Task, BookingOp
    <3> QED BY <3>1, <2>3, <2>5, <2>10 DEF Links, TaskLinks
  <2>13. JobLinks'
    BY <2>1, <2>2, <2>3, <2>10 DEF JobLinks
  <2> QED BY <2>9, <2>11, <2>12, <2>13 DEF Links
<1>3. CASE JobKey \/ JobFails
  <2>1. UNCHANGED <<status, lock, minted, granted, req, sweep, booking, slips, task, stale, reopened>>
    BY <1>3 DEF JobKey, JobFails
  <2>2. /\ key' \in [Slots -> Tokens \cup {None}] /\ job' \in Job
        /\ job'.at # "key" /\ job'.todo \subseteq job.todo
    <3>1. key \in [Slots -> Tokens \cup {None}] /\ job \in Job
      BY DEF TypeOK, LockTypeOK
    <3>2. IdleJob \in Job /\ IdleJob.at # "key" /\ IdleJob.todo = {}
      BY DEF Job, IdleJob
    <3>3. CASE JobKey
      <4>1. key' = [key EXCEPT ![job.slot] = None]
            /\ job' \in {IdleJob, [job EXCEPT !.at = "rows", !.slot = None]}
        BY <3>3 DEF JobKey
      <4>2. job' = IdleJob \/ job' = [at |-> "rows", todo |-> job.todo, slot |-> None]
        BY <3>1, <4>1 DEF Job
      <4>3. job' \in Job /\ job'.at # "key" /\ job'.todo \subseteq job.todo
        BY <3>1, <3>2, <4>2 DEF Job
      <4> QED BY <3>1, <4>1, <4>3
    <3>4. CASE JobFails
      BY <3>1, <3>2, <3>4 DEF JobFails
    <3> QED BY <1>3, <3>3, <3>4
  <2>3. TypeOK'
    BY <2>1, <2>2 DEF TypeOK, LockTypeOK
  <2>4. BookingLinks' /\ TaskLinks' /\ JobLinks'
    BY <2>1, <2>2 DEF Links, BookingLinks, TaskLinks, JobLinks
  <2> QED BY <2>3, <2>4 DEF Links
<1> QED BY <1>1, <1>2, <1>3 DEF JobStep

(* ... and with them every step of the system. *)
LEMMA NextLinks ==
  ASSUME TypeOK, Links, [Next]_vars
  PROVE  TypeOK' /\ Links'
<1>1. ASSUME LockTypeOK', UNCHANGED bookVars PROVE TypeOK' /\ Links'
  BY <1>1 DEF bookVars, TypeOK, Links, BookingLinks, TaskLinks, JobLinks
<1>2. CASE LockNext /\ UNCHANGED bookVars
  BY <1>1, <1>2, LockServeTypes, LockBackgroundTypes DEF LockNext, TypeOK
<1>3. ASSUME NEW b \in Bookings, UploadSlip(b) PROVE TypeOK' /\ Links'
  BY <1>3 DEF UploadSlip, TypeOK, LockTypeOK, Links, BookingLinks, TaskLinks, JobLinks
<1>4. ASSUME NEW s \in Slots, Reactivate(s) PROVE TypeOK' /\ Links'
  BY <1>4 DEF Reactivate, TypeOK, LockTypeOK, SlotStatus, Links, BookingLinks, TaskLinks, JobLinks
<1>5. CASE UNCHANGED vars
  BY <1>5 DEF vars, TypeOK, LockTypeOK, Links, BookingLinks, TaskLinks, JobLinks
<1> QED
  BY <1>2, <1>3, <1>4, <1>5, BookStepLinks, TaskStepLinks, JobStepLinks DEF Next

(* The variables keep their types, and everything that refers to a booking *)
(* (a handler, the job) refers to one that exists and knows its slot.      *)
THEOREM TypeCorrect == Spec => [](TypeOK /\ Links)
<1>1. Init => TypeOK /\ Links
  <2> SUFFICES ASSUME Init PROVE TypeOK /\ Links
    OBVIOUS
  <2>1. LockTypeOK
    BY DEF Init, LockInit, LockTypeOK, SlotStatus, RowLock, NoLock, Request, IdleReq, Sweep, IdleSweep
  <2>2. NoBooking \in Booking /\ IdleTask \in Task /\ IdleJob \in Job
    BY DEF Booking, NoBooking, BookingStatus, Method, TxnStatus, Task, IdleTask, Job, IdleJob
  <2>3. TypeOK
    BY <2>1, <2>2 DEF Init, TypeOK
  <2>4. BookingLinks /\ TaskLinks /\ JobLinks
    BY DEF Init, BookingLinks, TaskLinks, JobLinks, NoBooking, IdleTask, BookingOp, IdleJob
  <2> QED BY <2>3, <2>4 DEF Links
<1>2. TypeOK /\ Links /\ [Next]_vars => TypeOK' /\ Links'
  BY NextLinks
<1> QED BY <1>1, <1>2, PTL DEF Spec

-----------------------------------------------------------------------------
(***************************************************************************)
(* Slots, bookings and payments agree.  A step touches the bookings of one *)
(* slot at most, so what is needed of it is that it leaves that one slot   *)
(* with the status its one active booking calls for.                       *)
(***************************************************************************)
LEMMA StatusKinds ==
  /\ Active = Pending \cup Honoured
  /\ Pending = {"pending_payment", "pending_verification"} /\ Honoured = {"confirmed", "checked_in"}
  /\ Cancellable = {"pending_payment", "pending_verification", "confirmed"}
BY DEF Active, Pending, Honoured, Cancellable

(* What a handler may do to the active booking b of a slot: its new status *)
(* st and transaction txn, and the slot's new status ns, belong together.  *)
Fits(b, st, ns, txn) ==
  /\ booking[b].status \in Active
  /\ ns = "reserved" <=> st \in Pending
  /\ ns = "booked" <=> st \in Honoured
  /\ txn = "paid" => st \in Honoured
  /\ st \in Honoured /\ booking[b].method # "pay_at_venue" => txn = "paid"

(* A handler moves the booking that holds slot s0, and the slot with it.   *)
LEMMA SettleKeepsSlotInv ==
  ASSUME TypeOK, SlotInv, NEW b \in Bookings, NEW s0 \in Slots, booking[b].slot = s0,
         NEW st \in BookingStatus \ {"none"}, NEW txn \in TxnStatus, Settle(b, st, txn),
         NEW ns \in SlotStatus, status' = [status EXCEPT ![s0] = ns],
         stale \subseteq stale', reopened \subseteq reopened',
         s0 \in Sound' => Fits(b, st, ns, txn)
  PROVE  SlotInv'
<1>1. /\ \A c \in Bookings : /\ booking'[c].slot = booking[c].slot
                             /\ booking'[c].method = booking[c].method
                             /\ c # b => booking'[c] = booking[c]
      /\ booking'[b].status = st /\ booking'[b].txn = txn
  BY SettleFacts
<1>2. Sound' \subseteq Sound
  BY DEF Sound
<1>3. \A s \in Slots : status'[s] = IF s = s0 THEN ns ELSE status[s]
  BY DEF TypeOK, LockTypeOK
<1>4. ASSUME NEW s \in Sound', s # s0
      PROVE  /\ OneActive(s)'
             /\ status'[s] = "reserved" <=> \E c \in ActiveOn(s)' : booking'[c].status \in Pending
             /\ status'[s] = "booked" <=> \E c \in ActiveOn(s)' : booking'[c].status \in Honoured
  <2>1. s \in Sound /\ s \in Slots
    BY <1>2, <1>4 DEF Sound
  <2>2. \A c \in Bookings : booking[c].slot = s => c # b
    BY <1>4
  <2>3. ActiveOn(s)' = ActiveOn(s)
    BY <1>1, <2>2 DEF ActiveOn
  <2>4. \A c \in ActiveOn(s) : booking'[c] = booking[c]
    BY <1>1, <2>2 DEF ActiveOn
  <2>5. status'[s] = status[s]
    BY <1>3, <1>4, <2>1
  <2>6. /\ OneActive(s)
        /\ status[s] = "reserved" <=> \E c \in ActiveOn(s) : booking[c].status \in Pending
        /\ status[s] = "booked" <=> \E c \in ActiveOn(s) : booking[c].status \in Honoured
    BY <2>1 DEF SlotInv, NoDoubleBooking, SlotMatchesBooking
  <2>7. OneActive(s)'
    BY <2>3, <2>6 DEF OneActive
  <2> QED BY <2>3, <2>4, <2>5, <2>6, <2>7
<1>5. ASSUME s0 \in Sound'
      PROVE  /\ OneActive(s0)'
             /\ status'[s0] = "reserved" <=> \E c \in ActiveOn(s0)' : booking'[c].status \in Pending
             /\ status'[s0] = "booked" <=> \E c \in ActiveOn(s0)' : booking'[c].status \in Honoured
  <2>1. s0 \in Sound /\ booking[b].status \in Active
    BY <1>2, <1>5 DEF Fits
  <2>2. b \in ActiveOn(s0)
    BY <2>1 DEF ActiveOn
  <2>3. \A c \in ActiveOn(s0) : c = b
    BY <2>1, <2>2 DEF SlotInv, NoDoubleBooking, OneActive
  <2>4. \A c \in ActiveOn(s0)' : c = b
    BY <1>1, <2>3 DEF ActiveOn
  <2>5. b \in ActiveOn(s0)' <=> st \in Active
    BY <1>1 DEF ActiveOn
  <2>6. OneActive(s0)'
    BY <2>4 DEF OneActive
  <2> QED BY <1>1, <1>3, <1>5, <2>4, <2>5, <2>6, StatusKinds DEF Fits
<1>6. \A s \in Sound' :
        /\ OneActive(s)'
        /\ status'[s] = "reserved" <=> \E c \in ActiveOn(s)' : booking'[c].status \in Pending
        /\ status'[s] = "booked" <=> \E c \in ActiveOn(s)' : booking'[c].status \in Honoured
  BY <1>4, <1>5
<1>7. NoDoubleBooking' /\ SlotMatchesBooking'
  BY <1>6 DEF NoDoubleBooking, SlotMatchesBooking
<1>8. PaymentMatchesBooking'
  BY <1>1, <1>2 DEF SlotInv, PaymentMatchesBooking, Fits
<1> QED BY <1>7, <1>8 DEF SlotInv

(* A new booking takes a slot that was available.                          *)
LEMMA InsertKeepsSlotInv ==
  ASSUME TypeOK, Links, SlotInv, NEW b \in Bookings, NEW s0 \in Slots,
         NEW t \in Tokens \cup {None}, NEW m \in Method \ {"none"}, Insert(b, s0, t, m),
         status[s0] = "available", status' = [status EXCEPT ![s0] = TakenAs(m)],
         UNCHANGED <<stale, reopened>>
  PROVE  SlotInv'
<1>1. /\ booking[b] = NoBooking
      /\ booking'[b] = [status |-> InitialStatus(m), slot |-> s0, token |-> t,
                        method |-> m, txn |-> "pending"]
      /\ InitialStatus(m) \in Active
      /\ \A c \in Bookings : c # b => booking'[c] = booking[c]
  BY InsertFacts
<1>2. /\ booking'[b].status = InitialStatus(m) /\ InitialStatus(m) \in Active /\ booking'[b].slot = s0
      /\ booking'[b].method = m /\ booking'[b].txn = "pending"
      /\ booking[b].status = "none" /\ booking[b].slot = None
      /\ \A c \in Bookings : c # b => booking'[c] = booking[c]
  BY <1>1 DEF NoBooking
<1>3. /\ TakenAs(m) = "reserved" <=> InitialStatus(m) \in Pending
      /\ TakenAs(m) = "booked" <=> InitialStatus(m) \in Honoured
      /\ InitialStatus(m) \in Honoured => m = "pay_at_venue"
  BY StatusKinds DEF TakenAs, InitialStatus, Method
<1>4. Sound' = Sound /\ Sound \subseteq Slots
  BY DEF Sound
<1>5. \A s \in Slots : status'[s] = IF s = s0 THEN TakenAs(m) ELSE status[s]
  BY DEF TypeOK, LockTypeOK
<1>6. "none" \notin Active
  BY StatusKinds
<1>7. ASSUME NEW s \in Sound, s # s0
      PROVE  /\ OneActive(s)'
             /\ status'[s] = "reserved" <=> \E c \in ActiveOn(s)' : booking'[c].status \in Pending
             /\ status'[s] = "booked" <=> \E c \in ActiveOn(s)' : booking'[c].status \in Honoured
  <2>0. /\ \A c \in ActiveOn(s) : booking'[c] = booking[c]
        /\ \A c \in Bookings : c \in ActiveOn(s)' <=> c \in ActiveOn(s)
    BY <1>2, <1>6, <1>7 DEF ActiveOn
  <2>1. ActiveOn(s)' = ActiveOn(s) /\ \A c \in ActiveOn(s) : booking'[c] = booking[c]
    BY <2>0 DEF ActiveOn
  <2>2. status'[s] = status[s]
    BY <1>4, <1>5, <1>7
  <2>3. /\ OneActive(s)
        /\ status[s] = "reserved" <=> \E c \in ActiveOn(s) : booking[c].status \in Pending
        /\ status[s] = "booked" <=> \E c \in ActiveOn(s) : booking[c].status \in Honoured
    BY <1>7 DEF SlotInv, NoDoubleBooking, SlotMatchesBooking
  <2>4. OneActive(s)'
    BY <2>1, <2>3 DEF OneActive
  <2> QED BY <2>1, <2>2, <2>3, <2>4
<1>8. ASSUME s0 \in Sound
      PROVE  /\ OneActive(s0)'
             /\ status'[s0] = "reserved" <=> \E c \in ActiveOn(s0)' : booking'[c].status \in Pending
             /\ status'[s0] = "booked" <=> \E c \in ActiveOn(s0)' : booking'[c].status \in Honoured
  <2>1. ActiveOn(s0) = {}
    <3>1. /\ \A c \in ActiveOn(s0) : booking[c].status \notin Pending
          /\ \A c \in ActiveOn(s0) : booking[c].status \notin Honoured
      BY <1>8 DEF SlotInv, SlotMatchesBooking
    <3> QED BY <3>1, StatusKinds DEF ActiveOn
  <2>2. \A c \in Bookings : c \in ActiveOn(s0)' <=> c = b
    <3>1. \A c \in Bookings : c # b => c \notin ActiveOn(s0)'
      BY <1>2, <2>1 DEF ActiveOn
    <3>2. b \in ActiveOn(s0)'
      BY <1>2 DEF ActiveOn
    <3> QED BY <3>1, <3>2
  <2>5. ActiveOn(s0)' = {b}
    BY <2>2 DEF ActiveOn
  <2>3. OneActive(s0)'
    BY <2>5 DEF OneActive
  <2>4. status'[s0] = TakenAs(m)
    BY <1>5
  <2> QED BY <1>2, <1>3, <2>5, <2>3, <2>4
<1>9. NoDoubleBooking' /\ SlotMatchesBooking'
  BY <1>4, <1>7, <1>8 DEF NoDoubleBooking, SlotMatchesBooking
<1>10. PaymentMatchesBooking'
  BY <1>2, <1>3, <1>4 DEF SlotInv, PaymentMatchesBooking
<1> QED BY <1>9, <1>10 DEF SlotInv

(* Staff set a slot without an active booking to available or inactive.    *)
LEMMA StaffKeepsSlotInv ==
  ASSUME TypeOK, SlotInv, NEW s0 \in Slots, NEW ns \in {"available", "inactive"},
         status' = [status EXCEPT ![s0] = ns], UNCHANGED booking,
         stale \subseteq stale', reopened \subseteq reopened',
         s0 \in Sound' => ActiveOn(s0) = {}
  PROVE  SlotInv'
<1>1. Sound' \subseteq Sound /\ Sound \subseteq Slots
  BY DEF Sound
<1>2. \A s \in Slots : status'[s] = IF s = s0 THEN ns ELSE status[s]
  BY DEF TypeOK, LockTypeOK
<1>3. \A s : ActiveOn(s)' = ActiveOn(s)
  BY DEF ActiveOn
<1>4. NoDoubleBooking'
  BY <1>1, <1>3 DEF SlotInv, NoDoubleBooking, OneActive
<1>5. SlotMatchesBooking'
  BY <1>1, <1>2, <1>3 DEF SlotInv, SlotMatchesBooking
<1>6. PaymentMatchesBooking'
  BY <1>1 DEF SlotInv, PaymentMatchesBooking
<1> QED BY <1>4, <1>5, <1>6 DEF SlotInv

(* Steps that touch neither statuses nor bookings keep the agreement. *)
LEMMA OthersKeepSlotInv ==
  ASSUME SlotInv, UNCHANGED <<status, booking, stale, reopened>>
  PROVE  SlotInv'
BY DEF SlotInv, NoDoubleBooking, SlotMatchesBooking, PaymentMatchesBooking, OneActive, ActiveOn, Sound

(* The conjuncts of the invariant as a handler's commit uses them.         *)
LEMMA WhatSlotInvSays ==
  ASSUME TypeOK, SlotInv, NEW b \in Bookings, booking[b].slot \in Sound,
         booking[b].status \in Active
  PROVE  /\ status[booking[b].slot] = "reserved" <=> booking[b].status \in Pending
         /\ status[booking[b].slot] = "booked" <=> booking[b].status \in Honoured
         /\ booking[b].txn = "paid" => booking[b].status \in Honoured
         /\ booking[b].status \in Honoured /\ booking[b].method # "pay_at_venue"
              => booking[b].txn = "paid"
<1> DEFINE s == booking[b].slot
<1>1. b \in ActiveOn(s)
  BY DEF ActiveOn
<1>2. \A c \in ActiveOn(s) : c = b
  BY <1>1 DEF SlotInv, NoDoubleBooking, OneActive
<1>3. /\ status[s] = "reserved" <=> \E c \in ActiveOn(s) : booking[c].status \in Pending
      /\ status[s] = "booked" <=> \E c \in ActiveOn(s) : booking[c].status \in Honoured
  BY DEF SlotInv, SlotMatchesBooking
<1>4. /\ status[s] = "reserved" <=> booking[b].status \in Pending
      /\ status[s] = "booked" <=> booking[b].status \in Honoured
  BY <1>1, <1>2, <1>3
<1> QED BY <1>4 DEF SlotInv, PaymentMatchesBooking

(* What a commit writes to the status of its slot. *)
LEMMA SlotWrites ==
  ASSUME TypeOK, NEW s \in Slots
  PROVE  /\ FreeSlot(s) => status' = [status EXCEPT ![s] = "available"]
         /\ HoldSlot(s) => status' = [status EXCEPT ![s] = "booked"]
         /\ KeepSlot => status' = [status EXCEPT ![s] = status[s]]
         /\ {"available", "booked", status[s]} \subseteq SlotStatus
BY DEF FreeSlot, HoldSlot, KeepSlot, TypeOK, LockTypeOK, SlotStatus

(* Each handler either finds its check still true and moves booking and
   slot together, or makes the slot stale. *)
LEMMA TaskCommitSlotInv ==
  ASSUME TypeOK, Links, SlotInv, NEW k \in Tasks,
         \/ CancelBooking(k) \/ CheckIn(k) \/ MarkPaid(k) \/ ApproveSlip(k) \/ RejectSlip(k)
         \/ WebhookPaid(k) \/ WebhookPending(k) \/ WebhookFailed(k)
  PROVE  SlotInv'
<1> DEFINE b  == task[k].booking
           s0 == task[k].slot
           bk == booking[b]
<1>1. ASSUME NEW op \in BookingOp, Commit(k, op)
      PROVE  /\ b \in Bookings /\ s0 \in Slots /\ bk.slot = s0
             /\ bk.status \in BookingStatus \ {"none"} /\ bk.txn \in TxnStatus
             /\ stale \subseteq stale' /\ reopened \subseteq reopened'
             /\ s0 \in Sound' => s0 \in Sound /\ Passes(op, b)
  <2>1. /\ b \in Bookings /\ s0 \in Slots /\ bk.slot = s0 /\ bk.status # "none"
        /\ stale \subseteq stale' /\ reopened' = reopened
        /\ Passes(op, b) \/ s0 \in stale'
    BY <1>1, CommitFacts
  <2>2. s0 \in Sound' => s0 \in Sound /\ Passes(op, b)
    BY <2>1 DEF Sound
  <2> QED BY <2>1, <2>2, BookingTypes
<1>2. ASSUME s0 \in Sound, b \in Bookings, bk.slot = s0, bk.status \in Active
      PROVE  /\ status[s0] = "reserved" <=> bk.status \in Pending
             /\ status[s0] = "booked" <=> bk.status \in Honoured
             /\ bk.txn = "paid" => bk.status \in Honoured
             /\ bk.status \in Honoured /\ bk.method # "pay_at_venue" => bk.txn = "paid"
  BY <1>2, WhatSlotInvSays
<1>3. /\ BookingOp = {"cancel", "checkIn", "markPaid", "approve", "reject", "paid", "pending", "failed"}
      /\ {"cancelled", "checked_in", "confirmed"} \subseteq BookingStatus \ {"none"}
      /\ {"pending", "paid", "failed", "cancelled"} \subseteq TxnStatus
  BY DEF BookingOp, BookingStatus, Active, Pending, Honoured, TxnStatus
<1>4. ASSUME NEW op \in BookingOp, Commit(k, op),
             NEW st \in BookingStatus \ {"none"}, NEW txn \in TxnStatus, Settle(b, st, txn),
             NEW ns \in SlotStatus, status' = [status EXCEPT ![s0] = ns],
             s0 \in Sound /\ Passes(op, b) => Fits(b, st, ns, txn)
      PROVE  SlotInv'
  BY <1>1, <1>4, SettleKeepsSlotInv
<1> USE StatusKinds
<1>5. CASE CancelBooking(k)
  <2>1. Commit(k, "cancel") /\ Settle(b, "cancelled", "cancelled") /\ FreeSlot(s0)
    BY <1>5 DEF CancelBooking
  <2>2. Passes("cancel", b) => bk.status \in Active
    BY DEF Passes
  <2>3. status' = [status EXCEPT ![s0] = "available"] /\ "available" \in SlotStatus
    BY <1>1, <1>3, <2>1, SlotWrites
  <2>4. s0 \in Sound /\ Passes("cancel", b) => Fits(b, "cancelled", "available", "cancelled")
    BY <1>1, <1>2, <1>3, <2>1, <2>2 DEF Fits
  <2>5. "cancel" \in BookingOp /\ "cancelled" \in BookingStatus \ {"none"} /\ "cancelled" \in TxnStatus
    BY <1>1, <1>3, <2>1
  <2> QED BY <1>4, <2>1, <2>3, <2>4, <2>5
<1>6. CASE CheckIn(k)
  <2>1. Commit(k, "checkIn") /\ Settle(b, "checked_in", bk.txn) /\ KeepSlot
    BY <1>6 DEF CheckIn
  <2>2. Passes("checkIn", b) => bk.status = "confirmed"
    BY DEF Passes
  <2>3. status' = [status EXCEPT ![s0] = status[s0]] /\ status[s0] \in SlotStatus
    BY <1>1, <1>3, <2>1, SlotWrites
  <2>4. s0 \in Sound /\ Passes("checkIn", b) => Fits(b, "checked_in", status[s0], bk.txn)
    BY <1>1, <1>2, <1>3, <2>1, <2>2 DEF Fits
  <2>5. "checkIn" \in BookingOp /\ "checked_in" \in BookingStatus \ {"none"} /\ bk.txn \in TxnStatus
    BY <1>1, <1>3, <2>1
  <2> QED BY <1>4, <2>1, <2>3, <2>4, <2>5
<1>7. CASE MarkPaid(k)
  <2>1. Commit(k, "markPaid") /\ Settle(b, bk.status, "paid") /\ HoldSlot(s0)
    BY <1>7 DEF MarkPaid
  <2>2. Passes("markPaid", b) => bk.status = "confirmed"
    BY DEF Passes
  <2>3. status' = [status EXCEPT ![s0] = "booked"] /\ "booked" \in SlotStatus
    BY <1>1, <1>3, <2>1, SlotWrites
  <2>4. s0 \in Sound /\ Passes("markPaid", b) => Fits(b, bk.status, "booked", "paid")
    BY <1>1, <1>2, <1>3, <2>1, <2>2 DEF Fits
  <2>5. "markPaid" \in BookingOp /\ bk.status \in BookingStatus \ {"none"} /\ "paid" \in TxnStatus
    BY <1>1, <1>3, <2>1
  <2> QED BY <1>4, <2>1, <2>3, <2>4, <2>5
<1>8. CASE ApproveSlip(k)
  <2>1. Commit(k, "approve") /\ Settle(b, "confirmed", "paid") /\ HoldSlot(s0)
    BY <1>8 DEF ApproveSlip
  <2>2. Passes("approve", b) => bk.status \in Active
    BY DEF Passes
  <2>3. status' = [status EXCEPT ![s0] = "booked"] /\ "booked" \in SlotStatus
    BY <1>1, <1>3, <2>1, SlotWrites
  <2>4. s0 \in Sound /\ Passes("approve", b) => Fits(b, "confirmed", "booked", "paid")
    BY <1>1, <1>2, <1>3, <2>1, <2>2 DEF Fits
  <2>5. "approve" \in BookingOp /\ "confirmed" \in BookingStatus \ {"none"} /\ "paid" \in TxnStatus
    BY <1>1, <1>3, <2>1
  <2> QED BY <1>4, <2>1, <2>3, <2>4, <2>5
<1>9. CASE RejectSlip(k)
  <2>1. Commit(k, "reject") /\ Settle(b, "cancelled", bk.txn) /\ FreeSlot(s0)
    BY <1>9 DEF RejectSlip
  <2>2. Passes("reject", b) => bk.status = "pending_verification"
    BY DEF Passes
  <2>3. status' = [status EXCEPT ![s0] = "available"] /\ "available" \in SlotStatus
    BY <1>1, <1>3, <2>1, SlotWrites
  <2>4. s0 \in Sound /\ Passes("reject", b) => Fits(b, "cancelled", "available", bk.txn)
    BY <1>1, <1>2, <1>3, <2>1, <2>2 DEF Fits
  <2>5. "reject" \in BookingOp /\ "cancelled" \in BookingStatus \ {"none"} /\ bk.txn \in TxnStatus
    BY <1>1, <1>3, <2>1
  <2> QED BY <1>4, <2>1, <2>3, <2>4, <2>5
<1>10. CASE WebhookPaid(k)
  <2>1. Commit(k, "paid") /\ Settle(b, "confirmed", "paid") /\ HoldSlot(s0)
    BY <1>10 DEF WebhookPaid
  <2>2. Passes("paid", b) => bk.status \in Active
    BY DEF Passes
  <2>3. status' = [status EXCEPT ![s0] = "booked"] /\ "booked" \in SlotStatus
    BY <1>1, <1>3, <2>1, SlotWrites
  <2>4. s0 \in Sound /\ Passes("paid", b) => Fits(b, "confirmed", "booked", "paid")
    BY <1>1, <1>2, <1>3, <2>1, <2>2 DEF Fits
  <2>5. "paid" \in BookingOp /\ "confirmed" \in BookingStatus \ {"none"} /\ "paid" \in TxnStatus
    BY <1>1, <1>3, <2>1
  <2> QED BY <1>4, <2>1, <2>3, <2>4, <2>5
<1>11. CASE WebhookPending(k)
  <2>1. Commit(k, "pending") /\ Settle(b, bk.status, "pending") /\ KeepSlot
    BY <1>11 DEF WebhookPending
  <2>2. Passes("pending", b) => bk.status = "pending_payment"
    BY DEF Passes
  <2>3. status' = [status EXCEPT ![s0] = status[s0]] /\ status[s0] \in SlotStatus
    BY <1>1, <1>3, <2>1, SlotWrites
  <2>4. s0 \in Sound /\ Passes("pending", b) => Fits(b, bk.status, status[s0], "pending")
    BY <1>1, <1>2, <1>3, <2>1, <2>2 DEF Fits
  <2>5. "pending" \in BookingOp /\ bk.status \in BookingStatus \ {"none"} /\ "pending" \in TxnStatus
    BY <1>1, <1>3, <2>1
  <2> QED BY <1>4, <2>1, <2>3, <2>4, <2>5
<1>12. CASE WebhookFailed(k)
  <2>1. Commit(k, "failed") /\ Settle(b, "cancelled", "failed") /\ FreeSlot(s0)
    BY <1>12 DEF WebhookFailed
  <2>2. Passes("failed", b) => bk.status \in Active
    BY DEF Passes
  <2>3. status' = [status EXCEPT ![s0] = "available"] /\ "available" \in SlotStatus
    BY <1>1, <1>3, <2>1, SlotWrites
  <2>4. s0 \in Sound /\ Passes("failed", b) => Fits(b, "cancelled", "available", "failed")
    BY <1>1, <1>2, <1>3, <2>1, <2>2 DEF Fits
  <2>5. "failed" \in BookingOp /\ "cancelled" \in BookingStatus \ {"none"} /\ "failed" \in TxnStatus
    BY <1>1, <1>3, <2>1
  <2> QED BY <1>4, <2>1, <2>3, <2>4, <2>5
<1> QED BY <1>5, <1>6, <1>7, <1>8, <1>9, <1>10, <1>11, <1>12

(* Every step of the system keeps slots, bookings and payments in agreement. *)
LEMMA NextSlotInv ==
  ASSUME TypeOK, Links, SlotInv, [Next]_vars
  PROVE  SlotInv'
<1> USE StatusKinds
<1>1. CASE LockNext /\ UNCHANGED bookVars
  <2>1. UNCHANGED status
    BY <1>1 DEF LockNext, LockServe, LockBackground, LockKey, LockRow, LockRowFails, LockUndo,
                UnlockCheck, UnlockKey, UnlockRow, BookCheck, BookRowFails, BookKey, Crash,
                SweepRead, SweepRows, SweepKey, SweepFails, KeyExpires, LockExpires
  <2> QED BY <1>1, <2>1, OthersKeepSlotInv DEF bookVars
<1>2. ASSUME NEW r \in Requests, NEW b \in Bookings, NEW m \in Method \ {"none"},
             CreateBooking(r, b, m)
      PROVE  SlotInv'
  <2>1. req[r].at = "bookRow" /\ req[r] \in Request
    BY <1>2 DEF CreateBooking, BookRow, TypeOK, LockTypeOK
  <2>2. req[r].slot \in Slots /\ req[r].token \in Tokens
    BY <2>1 DEF Request, IdleReq
  <2>3. /\ Insert(b, req[r].slot, req[r].token, m) /\ UNCHANGED <<stale, reopened>>
        /\ status[req[r].slot] = "available"
        /\ status' = [status EXCEPT ![req[r].slot] = TakenAs(m)]
    BY <1>2 DEF CreateBooking, BookRow, HoldsRow
  <2> QED BY <2>2, <2>3, InsertKeepsSlotInv
<1>3. ASSUME NEW s \in Slots, NEW b \in Bookings, ApproveOccurrence(s, b)
      PROVE  SlotInv'
  <2>1. /\ Insert(b, s, None, "pay_at_venue") /\ UNCHANGED <<stale, reopened>>
        /\ status[s] = "available" /\ status' = [status EXCEPT ![s] = "booked"]
    BY <1>3 DEF ApproveOccurrence, Lockable
  <2>2. "pay_at_venue" \in Method \ {"none"} /\ TakenAs("pay_at_venue") = "booked"
    BY DEF Method, TakenAs
  <2>3. status' = [status EXCEPT ![s] = TakenAs("pay_at_venue")]
    BY <2>1, <2>2
  <2> QED BY <2>1, <2>2, <2>3, InsertKeepsSlotInv
<1>4. ASSUME NEW k \in Tasks, Deactivate(k) PROVE SlotInv'
  <2> DEFINE s == task[k].slot
  <2>1. s \in Slots
    BY <1>4 DEF Deactivate, Links, TaskLinks
  <2>2. /\ status' = [status EXCEPT ![s] = "inactive"] /\ UNCHANGED <<booking, reopened>>
        /\ stale' = IF Vacant(s) THEN stale ELSE stale \cup {s}
    BY <1>4 DEF Deactivate, NoteIfStale
  <2>3. Vacant(s) => ActiveOn(s) = {}
    BY DEF Vacant, ActiveOn
  <2>4. stale \subseteq stale' /\ (s \in Sound' => ActiveOn(s) = {})
    BY <2>2, <2>3 DEF Sound
  <2> QED BY <2>1, <2>2, <2>4, StaffKeepsSlotInv
<1>5. ASSUME NEW s \in Slots, Reactivate(s) PROVE SlotInv'
  <2>1. /\ status' = [status EXCEPT ![s] = "available"] /\ UNCHANGED <<booking, stale>>
        /\ reopened' = IF ActiveOn(s) = {} THEN reopened ELSE reopened \cup {s}
    BY <1>5 DEF Reactivate
  <2>2. reopened \subseteq reopened' /\ (s \in Sound' => ActiveOn(s) = {})
    BY <2>1 DEF Sound
  <2> QED BY <2>1, <2>2, StaffKeepsSlotInv
<1>6. ASSUME NEW b \in Bookings, JobCancel(b) PROVE SlotInv'
  <2> DEFINE s == booking[b].slot
  <2>1. s \in Slots
    BY <1>6 DEF JobCancel, Links, JobLinks, BookingLinks, TypeOK, Job
  <2>2. /\ Settle(b, "cancelled", booking[b].txn) /\ FreeSlot(s) /\ UNCHANGED reopened
        /\ stale' = IF booking[b].status = "pending_payment" THEN stale ELSE stale \cup {s}
    BY <1>6 DEF JobCancel, NoteIfStale
  <2>3. status' = [status EXCEPT ![s] = "available"] /\ "available" \in SlotStatus
    BY <2>1, <2>2, SlotWrites
  <2>4. stale \subseteq stale' /\ (s \in Sound' => s \in Sound /\ booking[b].status = "pending_payment")
    BY <2>2 DEF Sound
  <2>5. "cancelled" \in BookingStatus \ {"none"} /\ booking[b].txn \in TxnStatus
    BY BookingTypes DEF BookingStatus
  <2>6. s \in Sound' => booking[b].txn # "paid"
    BY <2>4, WhatSlotInvSays
  <2>7. s \in Sound' => Fits(b, "cancelled", "available", booking[b].txn)
    BY <2>4, <2>6 DEF Fits
  <2>8. Settle(b, "cancelled", booking[b].txn) /\ reopened \subseteq reopened' /\ stale \subseteq stale'
    BY <2>2, <2>4
  <2> QED BY <2>1, <2>3, <2>5, <2>7, <2>8, SettleKeepsSlotInv
<1>7. ASSUME UNCHANGED <<status, booking, stale, reopened>> PROVE SlotInv'
  BY <1>7, OthersKeepSlotInv
<1>8. ASSUME NEW k \in Tasks, TaskStep(k) PROVE SlotInv'
  <2>1. ASSUME NEW op \in BookingOp, NEW b \in Bookings, ReadBooking(k, op, b) PROVE SlotInv'
    BY <1>7, <2>1 DEF ReadBooking
  <2>2. ASSUME NEW s \in Slots, ReadForDeactivate(k, s) PROVE SlotInv'
    BY <1>7, <2>2 DEF ReadForDeactivate
  <2>3. CASE TaskFails(k)
    BY <1>7, <2>3 DEF TaskFails
  <2> QED BY <1>4, <1>8, <2>1, <2>2, <2>3, TaskCommitSlotInv DEF TaskStep
<1>9. CASE JobStep
  <2>1. ASSUME NEW old \in SUBSET Bookings, JobRead(old) PROVE SlotInv'
    BY <1>7, <2>1 DEF JobRead
  <2>2. CASE JobKey \/ JobFails
    BY <1>7, <2>2 DEF JobKey, JobFails
  <2> QED BY <1>6, <1>9, <2>1, <2>2 DEF JobStep
<1>10. ASSUME NEW b \in Bookings, UploadSlip(b) PROVE SlotInv'
  BY <1>7, <1>10 DEF UploadSlip
<1>11. CASE UNCHANGED vars
  BY <1>7, <1>11 DEF vars
<1> QED BY <1>1, <1>2, <1>3, <1>5, <1>8, <1>9, <1>10, <1>11 DEF Next, BookStep

(* With no booking at all everything agrees. *)
LEMMA InitSlotInv == Init => SlotInv
<1> SUFFICES ASSUME Init PROVE SlotInv
  OBVIOUS
<1>1. \A b \in Bookings : booking[b] = NoBooking
  BY DEF Init
<1>2. \A s \in Slots : ActiveOn(s) = {}
  BY <1>1, StatusKinds DEF ActiveOn, NoBooking
<1>3. \A s \in Slots : status[s] = "available"
  BY DEF Init, LockInit
<1>4. NoDoubleBooking
  BY <1>2 DEF NoDoubleBooking, OneActive, Sound
<1>5. SlotMatchesBooking
  BY <1>2, <1>3 DEF SlotMatchesBooking, Sound
<1>6. PaymentMatchesBooking
  BY <1>1, StatusKinds DEF PaymentMatchesBooking, NoBooking
<1> QED BY <1>4, <1>5, <1>6 DEF SlotInv

(* The three theorems below are the parts of this one. *)
LEMMA SlotInvariant == Spec => []SlotInv
<1>1. TypeOK /\ Links /\ SlotInv /\ [Next]_vars => SlotInv'
  BY NextSlotInv
<1> QED BY <1>1, InitSlotInv, TypeCorrect, PTL DEF Spec

(* Unless a handler committed on a stale check or staff re-opened a taken  *)
(* slot, no slot is held by two active bookings.                           *)
THEOREM SlotsAreBookedOnce == Spec => []NoDoubleBooking
<1>1. SlotInv => NoDoubleBooking
  BY DEF SlotInv
<1> QED BY <1>1, SlotInvariant, PTL

(* ... time_slots.status says what the slot's bookings say ...             *)
THEOREM SlotsAgreeWithBookings == Spec => []SlotMatchesBooking
<1>1. SlotInv => SlotMatchesBooking
  BY DEF SlotInv
<1> QED BY <1>1, SlotInvariant, PTL

(* ... and nobody has paid for a booking that is not honoured, nor is a    *)
(* booking to be paid in advance honoured unpaid.                          *)
THEOREM PaymentsAgreeWithBookings == Spec => []PaymentMatchesBooking
<1>1. SlotInv => PaymentMatchesBooking
  BY DEF SlotInv
<1> QED BY <1>1, SlotInvariant, PTL

-----------------------------------------------------------------------------
(***************************************************************************)
(* A lock token buys one booking.  A token lives in one place at a time:   *)
(* in a lockSlot on its way to the row, in the row, in a booking.  Every   *)
(* step moves it forward or drops it.                                      *)
(***************************************************************************)

(* Steps that make no booking and leave the tokens where they are, or drop *)
(* some of them.                                                           *)
LEMMA DroppingKeepsTokenInv ==
  ASSUME TypeOK, TokenInv,
         \A b \in Bookings : booking'[b].token = booking[b].token,
         minted' = minted,
         \A s \in Slots : lock'[s].token \in {lock[s].token, None},
         \A r \in Requests : req'[r].at = "lockRow" => req'[r] = req[r]
  PROVE  TokenInv'
<1>1. Spent' = Spent
  BY DEF Spent
<1>2. \A r \in Requests : req'[r].at = "lockRow" => req[r].at = "lockRow" /\ req'[r].token = req[r].token
  OBVIOUS
<1>4. TokenBuysOneBooking'
  BY DEF TokenInv, TokenBuysOneBooking
<1>5. \A b \in Bookings : booking'[b].token # None => booking'[b].token \in minted'
  BY DEF TokenInv
<1>6. ASSUME NEW s \in Slots, lock'[s].token # None
      PROVE  /\ lock'[s].token \in minted' \ Spent'
             /\ \A s2 \in Slots : lock'[s2].token = lock'[s].token => s2 = s
  BY <1>1, <1>6 DEF TokenInv
<1>7. ASSUME NEW r \in Requests, req'[r].at = "lockRow"
      PROVE  /\ req'[r].token \in minted' \ Spent'
             /\ \A s \in Slots : lock'[s].token # req'[r].token
             /\ \A r2 \in Requests :
                  req'[r2].at = "lockRow" /\ req'[r2].token = req'[r].token => r2 = r
  <2>1. req[r].at = "lockRow" /\ req'[r].token = req[r].token
    BY <1>2, <1>7
  <2>3. /\ req[r].token \in minted \ Spent
        /\ \A s \in Slots : lock[s].token # req[r].token
        /\ \A r2 \in Requests : OnItsWay(r2, req[r].token) => r2 = r
    BY <2>1 DEF TokenInv
  <2>2. req'[r].token = req[r].token /\ req[r].token # None
    BY <1>2, <1>7, <2>1, <2>3, NoneAssumption DEF TypeOK, LockTypeOK
  <2>4. \A s \in Slots : lock'[s].token # req'[r].token
    BY <2>2, <2>3
  <2>5. \A r2 \in Requests :
          req'[r2].at = "lockRow" /\ req'[r2].token = req'[r].token => r2 = r
    BY <1>2, <2>2, <2>3 DEF OnItsWay
  <2> QED BY <1>1, <2>2, <2>3, <2>4, <2>5
<1> QED BY <1>4, <1>5, <1>6, <1>7 DEF TokenInv, OnItsWay

(* The named parts of the invariant, over any two states' tokens.          *)
LEMMA WhatTokenInvSays ==
  ASSUME TypeOK, TokenInv
  PROVE  /\ None \notin minted
         /\ \A b \in Bookings : booking[b].token # None => booking[b].token \in minted
         /\ \A s \in Slots : lock[s].token # None => lock[s].token \in minted /\ lock[s].token \notin Spent
         /\ \A s, s2 \in Slots : lock[s].token # None /\ lock[s2].token = lock[s].token => s2 = s
         /\ \A r \in Requests : req[r].at = "lockRow" =>
              /\ req[r].token \in minted /\ req[r].token \notin Spent
              /\ \A s \in Slots : lock[s].token # req[r].token
         /\ \A r, r2 \in Requests : req[r].at = "lockRow" /\ req[r2].at = "lockRow"
                                      /\ req[r2].token = req[r].token => r2 = r
BY NoneAssumption DEF TypeOK, LockTypeOK, TokenInv, OnItsWay

(* lockSlot starts with a token nobody has, ... *)
LEMMA LockKeyTokenInv ==
  ASSUME TypeOK, TokenInv, NEW r \in Requests, NEW s \in Slots, NEW t \in Tokens,
         LockKey(r, s, t), UNCHANGED booking
  PROVE  TokenInv'
<1>1. t \notin minted /\ minted' = minted \cup {t} /\ UNCHANGED lock /\ t # None
  BY NoneAssumption DEF LockKey
<1>2. /\ req'[r] = [at |-> "lockRow", slot |-> s, token |-> t]
      /\ \A r2 \in Requests : r2 # r => req'[r2] = req[r2]
  BY DEF LockKey, Begin, TypeOK, LockTypeOK
<1>3. req'[r].at = "lockRow" /\ req'[r].token = t
  BY <1>2
<1>4. Spent' = Spent /\ t \notin Spent
  BY <1>1, WhatTokenInvSays DEF Spent
<1>5. TokenBuysOneBooking'
  BY DEF TokenInv, TokenBuysOneBooking
<1>6. \A b \in Bookings : booking'[b].token # None => booking'[b].token \in minted'
  BY <1>1, WhatTokenInvSays
<1>7. \A s1 \in Slots : lock'[s1].token # None =>
        /\ lock'[s1].token \in minted' \ Spent'
        /\ \A s2 \in Slots : lock'[s2].token = lock'[s1].token => s2 = s1
  BY <1>1, <1>4, WhatTokenInvSays
<1>8. ASSUME NEW q \in Requests, req'[q].at = "lockRow"
      PROVE  /\ req'[q].token \in minted' \ Spent'
             /\ \A s1 \in Slots : lock'[s1].token # req'[q].token
             /\ \A r2 \in Requests :
                  req'[r2].at = "lockRow" /\ req'[r2].token = req'[q].token => r2 = q
  <2>1. CASE q = r
    <3>1. \A s1 \in Slots : lock'[s1].token # t
      BY <1>1, WhatTokenInvSays
    <3>2. \A r2 \in Requests : r2 # r /\ req'[r2].at = "lockRow" => req'[r2].token # t
      BY <1>1, <1>2, WhatTokenInvSays
    <3> QED BY <1>1, <1>3, <1>4, <2>1, <3>1, <3>2
  <2>2. CASE q # r
    <3>1. req'[q] = req[q] /\ req[q].token \in minted /\ req[q].token # t
      BY <1>1, <1>2, <1>8, <2>2, WhatTokenInvSays
    <3>2. \A r2 \in Requests :
            req'[r2].at = "lockRow" /\ req'[r2].token = req'[q].token => r2 = q
      BY <1>2, <1>3, <1>8, <3>1, WhatTokenInvSays
    <3> QED BY <1>1, <1>4, <1>8, <3>1, <3>2, WhatTokenInvSays
  <2> QED BY <2>1, <2>2
<1> QED BY <1>5, <1>6, <1>7, <1>8 DEF TokenInv, OnItsWay

(* ... moves it into the row, ... *)
LEMMA LockRowTokenInv ==
  ASSUME TypeOK, TokenInv, NEW r \in Requests, LockRow(r), UNCHANGED booking
  PROVE  TokenInv'
<1> DEFINE s == req[r].slot
           t == req[r].token
<1>1. req[r].at = "lockRow" /\ s \in Slots /\ UNCHANGED minted
  BY DEF LockRow, TypeOK, LockTypeOK, Request, IdleReq
<1>2. t \in minted /\ t \notin Spent /\ (\A s1 \in Slots : lock[s1].token # t) /\ t # None
  BY <1>1, WhatTokenInvSays
<1>3. lock' = [lock EXCEPT ![s] = [token |-> t, live |-> TRUE]] /\ lock \in [Slots -> RowLock]
  BY DEF LockRow, TypeOK, LockTypeOK
<1>4. lock'[s].token = t /\ \A s1 \in Slots : s1 # s => lock'[s1] = lock[s1]
  BY <1>1, <1>3
<1>5. req'[r].at = "idle" /\ \A r2 \in Requests : r2 # r => req'[r2] = req[r2]
  BY DEF LockRow, Finish, IdleReq, TypeOK, LockTypeOK
<1>6. Spent' = Spent
  BY DEF Spent
<1>7. TokenBuysOneBooking'
  BY DEF TokenInv, TokenBuysOneBooking
<1>8. \A b \in Bookings : booking'[b].token # None => booking'[b].token \in minted'
  BY <1>1, WhatTokenInvSays
<1>9. ASSUME NEW s1 \in Slots, lock'[s1].token # None
      PROVE  /\ lock'[s1].token \in minted' \ Spent'
             /\ \A s2 \in Slots : lock'[s2].token = lock'[s1].token => s2 = s1
  <2>1. CASE s1 = s
    BY <1>1, <1>2, <1>4, <1>6, <2>1
  <2>2. CASE s1 # s
    BY <1>1, <1>2, <1>4, <1>6, <1>9, <2>2, WhatTokenInvSays
  <2> QED BY <2>1, <2>2
<1>10. ASSUME NEW q \in Requests, req'[q].at = "lockRow"
       PROVE  /\ req'[q].token \in minted' \ Spent'
              /\ \A s1 \in Slots : lock'[s1].token # req'[q].token
              /\ \A r2 \in Requests :
                   req'[r2].at = "lockRow" /\ req'[r2].token = req'[q].token => r2 = q
  <2>1. q # r /\ req'[q] = req[q] /\ req[q].at = "lockRow"
    BY <1>5, <1>10
  <2>2. req[q].token # t
    BY <1>1, <2>1, WhatTokenInvSays
  <2>3. \A s1 \in Slots : lock'[s1].token # req[q].token
    BY <1>4, <2>1, <2>2, WhatTokenInvSays
  <2>4. \A r2 \in Requests : req'[r2].at = "lockRow" => r2 # r /\ req'[r2] = req[r2]
    BY <1>5
  <2> QED BY <1>1, <1>6, <2>1, <2>3, <2>4, WhatTokenInvSays
<1> QED BY <1>7, <1>8, <1>9, <1>10 DEF TokenInv, OnItsWay

(* ... and createBooking moves it from the row into the booking. *)
LEMMA CreateBookingTokenInv ==
  ASSUME TypeOK, Links, TokenInv, NEW r \in Requests, NEW b \in Bookings,
         NEW m \in Method \ {"none"}, CreateBooking(r, b, m)
  PROVE  TokenInv'
<1> DEFINE s == req[r].slot
           t == req[r].token
<1>1. req[r].at = "bookRow" /\ s \in Slots /\ t \in Tokens /\ t # None /\ UNCHANGED minted
  BY NoneAssumption DEF CreateBooking, BookRow, TypeOK, LockTypeOK, Request, IdleReq
<1>2. lock[s].token = t /\ lock' = [lock EXCEPT ![s] = NoLock] /\ lock \in [Slots -> RowLock]
  BY DEF CreateBooking, BookRow, HoldsRow, TypeOK, LockTypeOK
<1>3. lock'[s].token = None /\ \A s1 \in Slots : s1 # s => lock'[s1] = lock[s1]
  BY <1>1, <1>2 DEF NoLock
<1>4. t \in minted /\ t \notin Spent /\ \A s1 \in Slots : s1 # s => lock[s1].token # t
  BY <1>1, <1>2, WhatTokenInvSays
<1>5. Insert(b, s, t, m)
  BY DEF CreateBooking
<1>6. booking'[b] = [status |-> InitialStatus(m), slot |-> s, token |-> t,
                     method |-> m, txn |-> "pending"]
      /\ \A c \in Bookings : c # b => booking'[c] = booking[c]
  BY <1>1, <1>5, InsertFacts
<1>7. booking'[b].token = t
  BY <1>6
<1>8. \A u : u \in Spent' => u \in Spent \/ u = t
  BY <1>6, <1>7 DEF Spent
<1>9. req'[r].at = "bookKey" /\ \A r2 \in Requests : r2 # r => req'[r2] = req[r2]
  BY DEF CreateBooking, BookRow, Continue, TypeOK, LockTypeOK, Request, IdleReq
<1>10. TokenBuysOneBooking'
  <2>1. \A c \in Bookings : c # b => booking'[c].token # t
    BY <1>4, <1>6 DEF Spent
  <2> QED BY <1>6, <1>7, <2>1 DEF TokenInv, TokenBuysOneBooking
<1>11. \A c \in Bookings : booking'[c].token # None => booking'[c].token \in minted'
  BY <1>1, <1>4, <1>6, <1>7, WhatTokenInvSays
<1>12. ASSUME NEW s1 \in Slots, lock'[s1].token # None
       PROVE  /\ lock'[s1].token \in minted' \ Spent'
              /\ \A s2 \in Slots : lock'[s2].token = lock'[s1].token => s2 = s1
  <2>1. s1 # s /\ lock'[s1] = lock[s1] /\ lock[s1].token # t
    BY <1>3, <1>4, <1>12
  <2>2. lock[s1].token \in minted /\ lock[s1].token \notin Spent
    BY <1>12, <2>1, WhatTokenInvSays
  <2>3. \A s2 \in Slots : lock'[s2].token = lock'[s1].token => s2 = s1
    BY <1>3, <1>12, <2>1, WhatTokenInvSays
  <2> QED BY <1>1, <1>8, <2>1, <2>2, <2>3
<1>13. ASSUME NEW q \in Requests, req'[q].at = "lockRow"
       PROVE  /\ req'[q].token \in minted' \ Spent'
              /\ \A s1 \in Slots : lock'[s1].token # req'[q].token
              /\ \A r2 \in Requests :
                   req'[r2].at = "lockRow" /\ req'[r2].token = req'[q].token => r2 = q
  <2>1. q # r /\ req'[q] = req[q] /\ req[q].at = "lockRow"
    BY <1>9, <1>13
  <2>2. /\ req[q].token \in minted /\ req[q].token \notin Spent
        /\ req[q].token # t /\ req[q].token # None
    BY <1>1, <1>2, <2>1, WhatTokenInvSays
  <2>3. \A s1 \in Slots : lock'[s1].token # req[q].token
    BY <1>3, <2>1, <2>2, WhatTokenInvSays
  <2>4. \A r2 \in Requests : req'[r2].at = "lockRow" => r2 # r /\ req'[r2] = req[r2]
    BY <1>9
  <2> QED BY <1>1, <1>8, <2>1, <2>2, <2>3, <2>4, WhatTokenInvSays
<1> QED BY <1>10, <1>11, <1>12, <1>13 DEF TokenInv, OnItsWay

(* The other steps of the lock only drop tokens.                           *)
LEMMA LockNextTokenInv ==
  ASSUME TypeOK, TokenInv, LockNext, UNCHANGED booking
  PROVE  TokenInv'
<1>1. ASSUME minted' = minted,
             \A s \in Slots : lock'[s].token \in {lock[s].token, None},
             \A q \in Requests : req'[q].at = "lockRow" => req'[q] = req[q]
      PROVE  TokenInv'
  BY <1>1, DroppingKeepsTokenInv
<1>2. req \in [Requests -> Request] /\ lock \in [Slots -> RowLock]
  BY DEF TypeOK, LockTypeOK
<1>3. ASSUME NEW r \in Requests, LockServe(r) PROVE TokenInv'
  <2>1. ASSUME NEW s \in Slots, NEW t \in Tokens, LockKey(r, s, t) PROVE TokenInv'
    BY <2>1, LockKeyTokenInv
  <2>2. CASE LockRow(r)
    BY <2>2, LockRowTokenInv
  <2>3. ASSUME NEW s \in Slots, NEW t \in Tokens, UnlockCheck(r, s, t) \/ BookCheck(r, s, t)
        PROVE  TokenInv'
    BY <1>1, <1>2, <2>3 DEF UnlockCheck, BookCheck, Begin
  <2>4. CASE LockRowFails(r) \/ LockUndo(r) \/ UnlockKey(r)
    <3>1. UNCHANGED <<minted, lock>>
      BY <2>4 DEF LockRowFails, LockUndo, UnlockKey
    <3>2. \A q \in Requests : req'[q].at = "lockRow" => req'[q] = req[q]
      <4>1. CASE LockRowFails(r)
        BY <1>2, <4>1 DEF LockRowFails, Continue, Request, IdleReq
      <4>2. CASE LockUndo(r)
        BY <1>2, <4>2 DEF LockUndo, Finish, IdleReq
      <4>3. CASE UnlockKey(r)
        BY <1>2, <4>3 DEF UnlockKey, Continue, Request, IdleReq
      <4> QED BY <2>4, <4>1, <4>2, <4>3
    <3> QED BY <1>1, <3>1, <3>2
  <2>5. CASE UnlockRow(r)
    BY <1>1, <1>2, <2>5 DEF UnlockRow, Finish, IdleReq, NoLock
  <2>6. CASE BookRowFails(r) \/ BookKey(r) \/ Crash(r)
    BY <1>1, <1>2, <2>6 DEF BookRowFails, BookKey, Crash, Finish, IdleReq
  <2> QED BY <1>3, <2>1, <2>2, <2>3, <2>4, <2>5, <2>6 DEF LockServe
<1>4. CASE LockBackground
  <2>1. UNCHANGED <<minted, req>>
    BY <1>4 DEF LockBackground, SweepRead, SweepRows, SweepKey, SweepFails, KeyExpires, LockExpires
  <2>2. \A s \in Slots : lock'[s].token \in {lock[s].token, None}
    <3>1. CASE SweepRows
      BY <3>1 DEF SweepRows, NoLock
    <3>2. ASSUME NEW s \in Slots, LockExpires(s)
          PROVE  \A s1 \in Slots : lock'[s1].token = lock[s1].token
      BY <1>2, <3>2 DEF LockExpires, RowLock
    <3>3. CASE UNCHANGED lock
      BY <3>3
    <3> QED
      BY <1>4, <3>1, <3>2, <3>3 DEF LockBackground, SweepRead, SweepKey, SweepFails, KeyExpires
  <2> QED BY <1>1, <2>1, <2>2
<1> QED BY <1>3, <1>4 DEF LockNext

(* Every other step keeps the tokens of the bookings and frees rows.       *)
LEMMA NextTokenInv ==
  ASSUME TypeOK, Links, TokenInv, [Next]_vars
  PROVE  TokenInv'
<1>1. ASSUME UNCHANGED <<minted, req>>,
             \A s \in Slots : lock'[s].token \in {lock[s].token, None},
             \A b \in Bookings : booking'[b].token = booking[b].token
      PROVE  TokenInv'
  BY <1>1, DroppingKeepsTokenInv
<1>2. ASSUME NEW s \in Slots, FreeSlot(s) \/ HoldSlot(s) \/ KeepSlot
      PROVE  \A s1 \in Slots : lock'[s1].token \in {lock[s1].token, None}
  BY <1>2 DEF FreeSlot, HoldSlot, KeepSlot, NoLock, TypeOK, LockTypeOK
<1>3. ASSUME NEW b \in Bookings, NEW st, NEW txn, Settle(b, st, txn)
      PROVE  \A c \in Bookings : booking'[c].token = booking[c].token
  BY <1>3 DEF Settle, TypeOK, Booking
<1>4. CASE LockNext /\ UNCHANGED bookVars
  BY <1>4, LockNextTokenInv DEF bookVars
<1>5. ASSUME NEW r \in Requests, NEW b \in Bookings, NEW m \in Method \ {"none"},
             CreateBooking(r, b, m)
      PROVE  TokenInv'
  BY <1>5, CreateBookingTokenInv
<1>6. ASSUME NEW s \in Slots, NEW b \in Bookings, ApproveOccurrence(s, b)
      PROVE  TokenInv'
  <2>1. Insert(b, s, None, "pay_at_venue") /\ "pay_at_venue" \in Method \ {"none"}
        /\ UNCHANGED <<minted, req>> /\ lock' = [lock EXCEPT ![s] = NoLock]
    BY <1>6 DEF ApproveOccurrence, Method
  <2>2. /\ booking[b] = NoBooking
        /\ booking'[b] = [status |-> InitialStatus("pay_at_venue"), slot |-> s, token |-> None,
                          method |-> "pay_at_venue", txn |-> "pending"]
        /\ \A c \in Bookings : c # b => booking'[c] = booking[c]
    BY <2>1, InsertFacts
  <2>3. booking'[b].token = None /\ booking[b].token = None
    BY <2>2 DEF NoBooking
  <2>4. \A s1 \in Slots : lock'[s1].token \in {lock[s1].token, None}
    BY <2>1 DEF NoLock, TypeOK, LockTypeOK
  <2> QED BY <1>1, <2>1, <2>2, <2>3, <2>4
<1>7. ASSUME NEW k \in Tasks, NEW op \in BookingOp, Commit(k, op), NEW st, NEW txn,
             Settle(task[k].booking, st, txn),
             FreeSlot(task[k].slot) \/ HoldSlot(task[k].slot) \/ KeepSlot
      PROVE  TokenInv'
  <2>1. /\ task[k].booking \in Bookings /\ task[k].slot \in Slots /\ UNCHANGED <<minted, req>>
    BY <1>7, CommitFacts
  <2> QED BY <1>1, <1>2, <1>3, <1>7, <2>1
<1>8. ASSUME NEW k \in Tasks, TaskStep(k) PROVE TokenInv'
  <2> USE DEF BookingOp
  <2>1. CASE CancelBooking(k)  BY <1>7, <2>1 DEF CancelBooking
  <2>2. CASE CheckIn(k)        BY <1>7, <2>2 DEF CheckIn
  <2>3. CASE MarkPaid(k)       BY <1>7, <2>3 DEF MarkPaid
  <2>4. CASE ApproveSlip(k)    BY <1>7, <2>4 DEF ApproveSlip
  <2>5. CASE RejectSlip(k)     BY <1>7, <2>5 DEF RejectSlip
  <2>6. CASE WebhookPaid(k)    BY <1>7, <2>6 DEF WebhookPaid
  <2>7. CASE WebhookPending(k) BY <1>7, <2>7 DEF WebhookPending
  <2>8. CASE WebhookFailed(k)  BY <1>7, <2>8 DEF WebhookFailed
  <2>9. CASE \/ \E op \in BookingOp, b \in Bookings : ReadBooking(k, op, b)
             \/ \E s \in Slots : ReadForDeactivate(k, s)
             \/ Deactivate(k) \/ TaskFails(k)
    <3>1. UNCHANGED <<minted, req, lock, booking>>
      BY <2>9 DEF ReadBooking, ReadForDeactivate, Deactivate, TaskFails
    <3> QED BY <1>1, <3>1
  <2> QED BY <1>8, <2>1, <2>2, <2>3, <2>4, <2>5, <2>6, <2>7, <2>8, <2>9 DEF TaskStep
<1>9. CASE JobStep
  <2>1. ASSUME NEW b \in Bookings, JobCancel(b) PROVE TokenInv'
    <3>1. booking[b].slot \in Slots
      BY <2>1 DEF JobCancel, Links, JobLinks, BookingLinks, TypeOK, Job
    <3>2. /\ Settle(b, "cancelled", booking[b].txn) /\ FreeSlot(booking[b].slot)
          /\ UNCHANGED <<minted, req>>
      BY <2>1 DEF JobCancel
    <3> QED BY <1>1, <1>2, <1>3, <3>1, <3>2
  <2>2. CASE (\E old \in SUBSET Bookings : JobRead(old)) \/ JobKey \/ JobFails
    <3>1. UNCHANGED <<minted, req, lock, booking>>
      BY <2>2 DEF JobRead, JobKey, JobFails
    <3> QED BY <1>1, <3>1
  <2> QED BY <1>9, <2>1, <2>2 DEF JobStep
<1>10. CASE \/ \E b \in Bookings : UploadSlip(b)
            \/ \E s \in Slots : Reactivate(s)
            \/ UNCHANGED vars
  <2>1. UNCHANGED <<minted, req, lock, booking>>
    BY <1>10 DEF UploadSlip, Reactivate, vars
  <2> QED BY <1>1, <2>1
<1> QED BY <1>4, <1>5, <1>6, <1>8, <1>9, <1>10 DEF Next, BookStep

(* No two bookings were ever made with one lock token, whatever requests   *)
(* are retried, overtake each other or die half-way.                       *)
THEOREM TokensAreSpentOnce == Spec => []TokenBuysOneBooking
<1>1. Init => TokenInv
  BY DEF Init, LockInit, NoBooking, NoLock, IdleReq, TokenInv, TokenBuysOneBooking
<1>2. TypeOK /\ Links /\ TokenInv /\ [Next]_vars => TokenInv'
  BY NextTokenInv
<1>3. TokenInv => TokenBuysOneBooking
  BY DEF TokenInv
<1> QED BY <1>1, <1>2, <1>3, TypeCorrect, PTL DEF Spec

-----------------------------------------------------------------------------
(***************************************************************************)
(* The holder of a live row lock is not overtaken.                         *)
(***************************************************************************)

(* A handler that takes an available slot on which no booking is active    *)
(* confirms a booking that its own check no longer lets through.           *)
LEMMA CommitsTakeNoFreeSlot ==
  ASSUME TypeOK, Links, NEW k \in Tasks, TaskStep(k),
         NEW s \in Slots, status[s] = "available", ActiveOn(s) = {},
         status'[s] \in {"reserved", "booked"}
  PROVE  TakenByStaleConfirm(s)
<1>1. status \in [Slots -> SlotStatus]
  BY DEF TypeOK, LockTypeOK
<1>2. CASE UNCHANGED status
  BY <1>2
<1>3. ASSUME NEW t, NEW ns \in {"available", "inactive"}, status' = [status EXCEPT ![t] = ns]
      PROVE  FALSE
  BY <1>1, <1>3
<1>4. ASSUME NEW op \in {"markPaid", "approve", "paid"}, Commit(k, op), HoldSlot(task[k].slot)
      PROVE  TakenByStaleConfirm(s)
  <2> DEFINE b == task[k].booking
  <2>1. b \in Bookings /\ task[k].slot = booking[b].slot
    BY <1>4, CommitFacts DEF BookingOp
  <2>2. task[k].slot = s
    BY <1>1, <1>4 DEF HoldSlot
  <2>3. ~ Passes(op, b)
    <3>1. Passes(op, b) => booking[b].status \in Active
      BY <1>4, StatusKinds DEF Passes
    <3>2. booking[b].status \notin Active
      BY <2>1, <2>2 DEF ActiveOn
    <3> QED BY <3>1, <3>2
  <2>4. task[k].op = op /\ task' = [task EXCEPT ![k] = IdleTask]
    BY <1>4 DEF Commit
  <2>5. task'[k] = IdleTask
    BY <2>4 DEF TypeOK
  <2> QED BY <1>4, <2>2, <2>3, <2>4, <2>5 DEF TakenByStaleConfirm
<1>5. CASE CancelBooking(k)  BY <1>3, <1>5 DEF CancelBooking, FreeSlot
<1>6. CASE RejectSlip(k)     BY <1>3, <1>6 DEF RejectSlip, FreeSlot
<1>7. CASE WebhookFailed(k)  BY <1>3, <1>7 DEF WebhookFailed, FreeSlot
<1>8. CASE Deactivate(k)     BY <1>3, <1>8 DEF Deactivate
<1>9. CASE CheckIn(k)        BY <1>2, <1>9 DEF CheckIn, KeepSlot
<1>10. CASE WebhookPending(k) BY <1>2, <1>10 DEF WebhookPending, KeepSlot
<1>11. CASE MarkPaid(k)      BY <1>4, <1>11 DEF MarkPaid
<1>12. CASE ApproveSlip(k)   BY <1>4, <1>12 DEF ApproveSlip
<1>13. CASE WebhookPaid(k)   BY <1>4, <1>13 DEF WebhookPaid
<1>14. CASE \/ \E op \in BookingOp, b \in Bookings : ReadBooking(k, op, b)
            \/ \E t \in Slots : ReadForDeactivate(k, t)
            \/ TaskFails(k)
  BY <1>2, <1>14 DEF ReadBooking, ReadForDeactivate, TaskFails
<1> QED
  BY <1>5, <1>6, <1>7, <1>8, <1>9, <1>10, <1>11, <1>12, <1>13, <1>14 DEF TaskStep

(* While a row lock is live on a slot without an active booking the slot   *)
(* goes to its holder, whatever was stale or re-opened before; the only    *)
(* exception is the step in which a handler confirms on a stale check.     *)
THEOREM HolderIsFirst == Spec => HolderComesFirst
<1>1. ASSUME TypeOK, Links, [Next]_vars,
             NEW s \in Slots, lock[s].live, status[s] = "available", ActiveOn(s) = {},
             status'[s] \in {"reserved", "booked"}
      PROVE  TakenWithToken(s, lock[s].token) \/ TakenByStaleConfirm(s)
  <2>1. status \in [Slots -> SlotStatus]
    BY <1>1 DEF TypeOK, LockTypeOK
  <2>2. ~ UNCHANGED status
    BY <1>1
  <2>3. ASSUME NEW r \in Requests, NEW b \in Bookings, NEW m \in Method \ {"none"},
               CreateBooking(r, b, m)
        PROVE  TakenWithToken(s, lock[s].token)
    <3>1. req[r].at = "bookRow" /\ req[r] \in Request
      BY <1>1, <2>3 DEF CreateBooking, BookRow, TypeOK, LockTypeOK
    <3>2. req[r].slot \in Slots /\ req[r].token \in Tokens
      BY <3>1 DEF Request, IdleReq
    <3>3. /\ Insert(b, req[r].slot, req[r].token, m)
          /\ lock[req[r].slot].token = req[r].token
          /\ status' = [status EXCEPT ![req[r].slot] = TakenAs(m)]
      BY <2>3 DEF CreateBooking, BookRow, HoldsRow
    <3>4. req[r].slot = s
      BY <1>1, <2>1, <3>3
    <3>5. booking'[b] = [status |-> InitialStatus(m), slot |-> s, token |-> req[r].token,
                         method |-> m, txn |-> "pending"]
      BY <1>1, <3>2, <3>3, <3>4, InsertFacts
    <3>6. booking'[b].slot = s /\ booking'[b].token = req[r].token
      BY <3>5
    <3> QED BY <3>3, <3>4, <3>6 DEF Insert, TakenWithToken
  <2>4. ASSUME NEW s1 \in Slots, NEW b \in Bookings, ApproveOccurrence(s1, b) PROVE FALSE
    BY <1>1, <2>1, <2>4 DEF ApproveOccurrence, Lockable
  <2>5. ASSUME NEW s1 \in Slots, Reactivate(s1) PROVE FALSE
    BY <1>1, <2>1, <2>5 DEF Reactivate
  <2>6. ASSUME NEW b \in Bookings, JobCancel(b) PROVE FALSE
    BY <1>1, <2>1, <2>6 DEF JobCancel, FreeSlot
  <2>7. ASSUME NEW k \in Tasks, TaskStep(k) PROVE TakenByStaleConfirm(s)
    BY <1>1, <2>7, CommitsTakeNoFreeSlot
  <2>8. CASE JobStep
    BY <2>2, <2>6, <2>8 DEF JobStep, JobRead, JobKey, JobFails
  <2>9. ~ LockNext
    BY <2>2 DEF LockNext, LockServe, LockBackground, LockKey, LockRow, LockRowFails, LockUndo,
                UnlockCheck, UnlockKey, UnlockRow, BookCheck, BookRowFails, BookKey, Crash,
                SweepRead, SweepRows, SweepKey, SweepFails, KeyExpires, LockExpires
  <2>10. ~ UNCHANGED vars /\ ~ (\E b \in Bookings : UploadSlip(b))
    BY <2>2 DEF vars, UploadSlip
  <2>11. CASE BookStep
    BY <2>3, <2>4, <2>11 DEF BookStep
  <2> QED BY <1>1, <2>5, <2>7, <2>8, <2>9, <2>10, <2>11 DEF Next
<1>2. TypeOK /\ Links /\ [Next]_vars =>
        (\A s \in Slots : lock[s].live /\ status[s] = "available" /\ ActiveOn(s) = {}
           /\ status'[s] \in {"reserved", "booked"}
           => TakenWithToken(s, lock[s].token) \/ TakenByStaleConfirm(s))
  BY <1>1
<1> QED BY <1>2, TypeCorrect, PTL DEF Spec, HolderComesFirst
=============================================================================
