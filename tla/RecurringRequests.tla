------------------------- MODULE RecurringRequests -------------------------
(***************************************************************************)
(* Permanent slots: recurring-request.service.ts.  A customer asks for the *)
(* same window of a court every week; staff approve the request, which     *)
(* books the window on every date where all of it is free, or reject it;   *)
(* customer or staff cancel it.                                            *)
(*                                                                         *)
(* Each of these handlers loads the request, checks its status, and writes *)
(* the new status later, by id, without looking again.  Only approval does *)
(* its work on slots under row locks: date after date it locks the day's   *)
(* rows (SELECT ... FOR UPDATE) and keeps them until it commits.           *)
(*                                                                         *)
(* Dates are 1 .. Last; on each, time passes from before its slots begin   *)
(* to after.  Other customers lock, book and cancel single slots as in     *)
(* BookingLifecycle, here in one step each.                                *)
(***************************************************************************)
EXTENDS Integers, FiniteSets

CONSTANTS
  Wanted,     \* rows of recurring_booking_requests
  Handlers,   \* API requests served at the same time
  Slots,      \* rows of time_slots of the court
  Last,       \* the last date of every request
  DateOf,     \* the date of a slot
  Window,     \* the slots a request wants on a date; {} if they do not line up
  Wish,       \* what two requests of a customer must share to be duplicates
  None

ASSUME CalendarAssumption ==
  /\ Last \in Nat
  /\ DateOf \in [Slots -> 1..Last]
  /\ Window \in [Wanted -> [1..Last -> SUBSET Slots]]
  /\ \A q \in Wanted, d \in 1..Last : \A s \in Window[q][d] : DateOf[s] = d
  /\ None \notin Wanted \cup Handlers

VARIABLES
  request,    \* recurring_booking_requests.status
  slot,       \* time_slots.status; "held" is available with a live lock
  series,     \* the status of a request's booking of a slot
  guest,      \* slots booked by other customers
  now,        \* 2 * d - 1 before the slots of date d begin, 2 * d after
  hand,       \* the handlers' progress
  rowLock,    \* the handler whose transaction has a slot's row locked
  crossed,    \* requests whose status had changed when a handler wrote it
  stale       \* slots freed by a handler although their booking had changed

vars == <<request, slot, series, guest, now, hand, rowLock, crossed, stale>>

Dates == 1..Last
Today == (now + 1) \div 2
Status == {"none", "pending", "approved", "rejected", "cancelled"}
SlotState == {"absent", "available", "held", "booked"}
BookingState == {"none", "confirmed", "checked_in", "cancelled"}
Op == {"submit", "generate", "approve", "reject", "cancel", "cancelTx"}
Idle == [op |-> "idle", req |-> None, from |-> "none", dates |-> {}, picked |-> {}]
Hand == [op : Op, req : Wanted, from : Status, dates : SUBSET Dates, picked : SUBSET Slots]
          \cup {Idle}

TypeOK ==
  /\ request \in [Wanted -> Status]
  /\ slot \in [Slots -> SlotState]
  /\ series \in [Wanted -> [Slots -> BookingState]]
  /\ guest \in SUBSET Slots
  /\ now \in 1..(2 * Last + 1)
  /\ hand \in [Handlers -> Hand]
  /\ rowLock \in [Slots -> Handlers \cup {None}]
  /\ crossed \in SUBSET Wanted
  /\ stale \in SUBSET Slots

Init ==
  /\ request = [q \in Wanted |-> "none"]
  /\ slot \in [Slots -> {"absent", "available"}]
  /\ series = [q \in Wanted |-> [s \in Slots |-> "none"]]
  /\ guest = {}
  /\ now = 1
  /\ hand = [h \in Handlers |-> Idle]
  /\ rowLock = [s \in Slots |-> None]
  /\ crossed = {} /\ stale = {}

-----------------------------------------------------------------------------
Start(h, op, q, from, dates) ==
  /\ hand[h] = Idle
  /\ hand' = [hand EXCEPT ![h] = [op |-> op, req |-> q, from |-> from,
                                  dates |-> dates, picked |-> {}]]
Finish(h) == hand' = [hand EXCEPT ![h] = Idle]
(* The row locks of a transaction go when it ends. *)
Unlock(h) == rowLock' = [s \in Slots |-> IF rowLock[s] = h THEN None ELSE rowLock[s]]

(* A status is written by id, whatever it is by now. *)
Write(h, st) ==
  LET q == hand[h].req IN
  /\ request' = [request EXCEPT ![q] = st]
  /\ crossed' = IF request[q] = hand[h].from THEN crossed ELSE crossed \cup {q}

(* createRecurringRequest: no duplicate is pending ... *)
SubmitRead(h, q) ==
  /\ request[q] = "none" /\ \A k \in Handlers : hand[k].req # q
  /\ Today <= Last
  /\ ~ \E p \in Wanted : Wish[p] = Wish[q] /\ request[p] = "pending"
  /\ Start(h, "submit", q, "none", {})
  /\ UNCHANGED <<request, slot, series, guest, now, rowLock, crossed, stale>>

(* ... and the request is inserted. *)
SubmitCommit(h) ==
  /\ hand[h].op = "submit"
  /\ Write(h, "pending") /\ Finish(h)
  /\ UNCHANGED <<slot, series, guest, now, rowLock, stale>>

-----------------------------------------------------------------------------
(* mutant of Occurrences: runs a week past the end date *)
OccurrencesPastEnd == Today..(Last + 1)
(* occurrenceDates: from today on, and today also when its slots have begun. *)
Occurrences == Today..Last

(* approveRecurringRequest: the request is pending. *)
ApproveRead(h, q) ==
  /\ request[q] = "pending"
  /\ Start(h, "generate", q, "pending", Occurrences)
  /\ UNCHANGED <<request, slot, series, guest, now, rowLock, crossed, stale>>

(* generateSlotsForDate for each date: the missing slots of the dates that *)
(* have a schedule are inserted; nothing that exists is touched.           *)
Generate(h) ==
  /\ hand[h].op = "generate"
  /\ \E scheduled \in SUBSET hand[h].dates :
       slot' = [s \in Slots |-> IF slot[s] = "absent" /\ DateOf[s] \in scheduled
                                THEN "available" ELSE slot[s]]
  /\ hand' = [hand EXCEPT ![h].op = "approve"]
  /\ UNCHANGED <<request, series, guest, now, rowLock, crossed, stale>>

(* evaluateWindow: the window is tiled by slots, all of them free. *)
Free(q, d) == IF \A s \in Window[q][d] : slot[s] = "available" THEN Window[q][d] ELSE {}

(* mutant of LockDate: a plain SELECT *)
LockNothing(h, d) == UNCHANGED rowLock
(* SELECT ... FOR UPDATE of the day's rows waits for other transactions. *)
LockDate(h, d) ==
  LET day == {s \in Slots : DateOf[s] = d /\ slot[s] # "absent"} IN
  /\ \A s \in day : rowLock[s] \in {None, h}
  /\ rowLock' = [s \in Slots |-> IF s \in day THEN h ELSE rowLock[s]]

(* One turn of the transaction's loop: the earliest date left. *)
ApproveDate(h) ==
  /\ hand[h].op = "approve"
  /\ \E d \in hand[h].dates :
       /\ \A e \in hand[h].dates : d <= e
       /\ LockDate(h, d)
       /\ hand' = [hand EXCEPT ![h].dates = @ \ {d}, ![h].picked = @ \cup Free(hand[h].req, d)]
  /\ UNCHANGED <<request, slot, series, guest, now, crossed, stale>>

(* The transaction commits: bookings, slots and the request's status.  The *)
(* last guard is a bound: a request books a slot once.                     *)
ApproveCommit(h) ==
  LET q == hand[h].req  new == hand[h].picked IN
  /\ hand[h].op = "approve" /\ hand[h].dates = {} /\ new # {}
  /\ \A s \in new : series[q][s] = "none"
  /\ series' = [series EXCEPT ![q] = [s \in Slots |-> IF s \in new THEN "confirmed" ELSE @[s]]]
  /\ slot' = [s \in Slots |-> IF s \in new THEN "booked" ELSE slot[s]]
  /\ Write(h, "approved") /\ Finish(h) /\ Unlock(h)
  /\ UNCHANGED <<guest, now, stale>>

-----------------------------------------------------------------------------
(* rejectRecurringRequest. *)
RejectRead(h, q) ==
  /\ request[q] = "pending"
  /\ Start(h, "reject", q, "pending", {})
  /\ UNCHANGED <<request, slot, series, guest, now, rowLock, crossed, stale>>

RejectCommit(h) ==
  /\ hand[h].op = "reject"
  /\ Write(h, "rejected") /\ Finish(h)
  /\ UNCHANGED <<slot, series, guest, now, rowLock, stale>>

(* cancelRecurringRequest: pending requests are withdrawn, approved ones   *)
(* are ended ...                                                           *)
CancelRead(h, q) ==
  /\ request[q] \in {"pending", "approved"}
  /\ Start(h, "cancel", q, request[q], {})
  /\ UNCHANGED <<request, slot, series, guest, now, rowLock, crossed, stale>>

(* The active bookings of a series that have not begun. *)
Future(q) == {s \in Slots : series[q][s] = "confirmed" /\ 2 * DateOf[s] > now}

(* mutant of CancelFind: looks at later dates only *)
CancelFindLater(h) ==
  /\ hand[h].op = "cancel"
  /\ hand' = [hand EXCEPT ![h].op = "cancelTx",
                          ![h].picked = {s \in Future(hand[h].req) : DateOf[s] > Today}]
  /\ UNCHANGED <<request, slot, series, guest, now, rowLock, crossed, stale>>

(* ... the transaction finds the future bookings ... *)
CancelFind(h) ==
  /\ hand[h].op = "cancel"
  /\ hand' = [hand EXCEPT ![h].op = "cancelTx", ![h].picked = Future(hand[h].req)]
  /\ UNCHANGED <<request, slot, series, guest, now, rowLock, crossed, stale>>

(* ... and cancels them by id, one by one, then the request. *)
CancelCommit(h) ==
  LET q == hand[h].req  old == hand[h].picked IN
  /\ hand[h].op = "cancelTx"
  /\ \A s \in old : rowLock[s] = None
  /\ series' = [series EXCEPT ![q] = [s \in Slots |-> IF s \in old THEN "cancelled" ELSE @[s]]]
  /\ slot' = [s \in Slots |-> IF s \in old THEN "available" ELSE slot[s]]
  /\ stale' = stale \cup {s \in old : series[q][s] # "confirmed"}
  /\ Write(h, "cancelled") /\ Finish(h)
  /\ UNCHANGED <<guest, now, rowLock>>

(* A check, the database or the 30 s limit of a transaction ends a handler *)
(* without effect.                                                         *)
Fails(h) ==
  /\ hand[h] # Idle
  /\ Finish(h) /\ Unlock(h)
  /\ UNCHANGED <<request, slot, series, guest, now, crossed, stale>>

-----------------------------------------------------------------------------
(***************************************************************************)
(* Everybody else: lockSlot, its end, createBooking and cancelBooking of   *)
(* other customers, and single bookings of a series.                       *)
(***************************************************************************)
Move(s, from, to) ==
  /\ slot[s] = from /\ rowLock[s] = None
  /\ slot' = [slot EXCEPT ![s] = to]

GuestLocks(s) ==
  /\ Move(s, "available", "held")
  /\ UNCHANGED <<request, series, guest, now, hand, rowLock, crossed, stale>>

(* unlockSlot, or the lock expires. *)
LockEnds(s) ==
  /\ slot[s] = "held" /\ slot' = [slot EXCEPT ![s] = "available"]
  /\ UNCHANGED <<request, series, guest, now, hand, rowLock, crossed, stale>>

GuestBooks(s) ==
  /\ Move(s, "held", "booked") /\ guest' = guest \cup {s}
  /\ UNCHANGED <<request, series, now, hand, rowLock, crossed, stale>>

GuestCancels(s) ==
  /\ s \in guest /\ guest' = guest \ {s}
  /\ rowLock[s] = None /\ slot' = [slot EXCEPT ![s] = "available"]
  /\ UNCHANGED <<request, series, now, hand, rowLock, crossed, stale>>

CheckIn(q, s) ==
  /\ series[q][s] = "confirmed"
  /\ series' = [series EXCEPT ![q][s] = "checked_in"]
  /\ UNCHANGED <<request, slot, guest, now, hand, rowLock, crossed, stale>>

CancelOne(q, s) ==
  /\ series[q][s] = "confirmed"
  /\ series' = [series EXCEPT ![q][s] = "cancelled"]
  /\ rowLock[s] = None /\ slot' = [slot EXCEPT ![s] = "available"]
  /\ UNCHANGED <<request, guest, now, hand, rowLock, crossed, stale>>

TimePasses ==
  /\ Today <= Last /\ now' = now + 1
  /\ UNCHANGED <<request, slot, series, guest, hand, rowLock, crossed, stale>>

Serve(h) ==
  \/ \E q \in Wanted : SubmitRead(h, q) \/ ApproveRead(h, q) \/ RejectRead(h, q) \/ CancelRead(h, q)
  \/ SubmitCommit(h) \/ RejectCommit(h)
  \/ Generate(h) \/ ApproveDate(h) \/ ApproveCommit(h)
  \/ CancelFind(h) \/ CancelCommit(h)
  \/ Fails(h)

Next ==
  \/ \E h \in Handlers : Serve(h)
  \/ \E s \in Slots : GuestLocks(s) \/ LockEnds(s) \/ GuestBooks(s) \/ GuestCancels(s)
  \/ \E q \in Wanted, s \in Slots : CheckIn(q, s) \/ CancelOne(q, s)
  \/ TimePasses

Spec == Init /\ [][Next]_vars

-----------------------------------------------------------------------------
Taken == {"confirmed", "checked_in"}
Holders(s) == {q \in Wanted : series[q][s] \in Taken} \cup (IF s \in guest THEN {None} ELSE {})

(* Approvals that overlap, with each other or with other customers, never  *)
(* book a slot twice, and a slot is booked exactly while someone holds it; *)
(* but for slots freed on a stale read.                                    *)
NoSlotTwice ==
  \A s \in Slots \ stale :
    /\ \A x, y \in Holders(s) : x = y
    /\ slot[s] = "booked" <=> Holders(s) # {}

(* A series is booked if and only if its request is approved: rejected and *)
(* withdrawn requests leave nothing behind and ended ones lose what has    *)
(* not begun, unless two reviews of one request overlapped.                *)
SeriesFollowsRequest ==
  \A q \in Wanted \ crossed :
    /\ Future(q) # {} => request[q] = "approved"
    /\ request[q] = "approved" => \E s \in Slots : series[q][s] # "none"

(* Approval books a window whole or not at all.                            *)
WholeWindows ==
  [][\A q \in Wanted, d \in Dates :
       LET new == {s \in Slots : DateOf[s] = d /\ series[q][s] = "none" /\ series'[q][s] # "none"}
       IN  new \in {{}, Window[q][d]}]_vars
=============================================================================
