---------------------------- MODULE SlotCalendar ----------------------------
(***************************************************************************)
(* The slots of one court on one day: generateSlotsForDate with and        *)
(* without overwrite, and deleteSlot (slot.service.ts), against customers  *)
(* who lock, book and cancel and staff who change rules and hours.         *)
(*                                                                         *)
(* A generation is four awaits: schedule, existing rows, deleteMany of the *)
(* free ones (with overwrite), createMany of what is missing.  None of     *)
(* them locks a row, and the deletes go by id.  What protects the day is   *)
(* the database: start times are unique and a row with a booking, whatever *)
(* its status, cannot be deleted (ON DELETE RESTRICT).                     *)
(***************************************************************************)
EXTENDS SlotPlan

CONSTANTS
  Schedules,  \* schedules the staff may set up
  Busy,       \* bound: those under which slots are generated
  Staff,      \* requests of staff served at the same time
  Versions,   \* bound: how often a slot may be created at one start time
  None

ASSUME ScheduleAssumption ==
  /\ Schedules \subseteq Schedule /\ Busy \subseteq Schedules
  /\ Versions \in Nat \ {0}
  /\ None \notin Busy

VARIABLES
  schedule,   \* opening hours and pricing rules of the day
  row,        \* time_slots by start time; n numbers the rows created there
  hand,       \* staff requests in progress
  steady,     \* FALSE once the schedule changed
  calm        \* FALSE once the schedule changed, or slots were lost or deleted

vars == <<schedule, row, hand, steady, calm>>

Starts == 0..(Day - 1)
RowId  == Starts \X (1..Versions)
Row == [n : 0..Versions, end : 0..Day, status : {"absent", "available", "booked", "inactive"},
        lock : {"none", "live", "expired"}, booking : {"never", "active", "past"}]
NoRow == [n |-> 0, end |-> 0, status |-> "absent", lock |-> "none", booking |-> "never"]
Hand == [at : {"idle", "read", "delete", "create", "deleteOne"}, made : Busy \cup {None},
         overwrite : BOOLEAN, gone : SUBSET RowId, kept : SUBSET Starts]
Idle == [at |-> "idle", made |-> None, overwrite |-> FALSE, gone |-> {}, kept |-> {}]

TypeOK ==
  /\ schedule \in Schedule
  /\ row \in [Starts -> Row]
  /\ \A s \in Starts : row[s].status = "absent" => row[s] = [NoRow EXCEPT !.n = row[s].n]
  /\ hand \in [Staff -> Hand]
  /\ steady \in BOOLEAN /\ calm \in BOOLEAN

Init ==
  /\ schedule \in Schedules
  /\ row = [s \in Starts |-> NoRow]
  /\ hand = [h \in Staff |-> Idle]
  /\ steady = TRUE /\ calm = TRUE

Existing == {s \in Starts : row[s].status # "absent"}

-----------------------------------------------------------------------------
(* The schedule is read and the day planned; no slots, no generation. *)
GenPlan(h, overwrite) ==
  /\ hand[h] = Idle /\ schedule \in Busy /\ Plan(schedule) # {}
  /\ hand' = [hand EXCEPT ![h] = [Idle EXCEPT !.at = "read", !.made = schedule,
                                              !.overwrite = overwrite]]
  /\ UNCHANGED <<schedule, row, steady, calm>>

(* mutant of Kept: does not count out what is to be deleted *)
KeptAll(removable) == Existing
Kept(removable) == Existing \ removable

(* The day's rows are read; overwriting will delete the free ones. *)
GenRead(h) ==
  LET removable == IF hand[h].overwrite
                   THEN {s \in Existing : row[s].status = "available" /\ row[s].lock # "live"}
                   ELSE {} IN
  /\ hand[h].at = "read"
  /\ hand' = [hand EXCEPT ![h].at = IF removable # {} THEN "delete" ELSE "create",
                          ![h].gone = {<<s, row[s].n>> : s \in removable},
                          ![h].kept = Kept(removable)]
  /\ UNCHANGED <<schedule, row, steady, calm>>

(* mutant of Deletable: bookings are deleted with their slot *)
DeletableAlways(ids) == TRUE
(* The rows with these ids, of those that still exist; the foreign key of  *)
(* bookings lets the statement delete all of them or none.                 *)
Found(ids)     == {s \in Existing : <<s, row[s].n>> \in ids}
Deletable(ids) == \A s \in Found(ids) : row[s].booking = "never"
DeleteRows(ids) == row' = [s \in Starts |-> IF s \in Found(ids) THEN [NoRow EXCEPT !.n = row[s].n]
                                            ELSE row[s]]

(* deleteMany by id, whatever has become of the rows. *)
GenDelete(h) ==
  /\ hand[h].at = "delete" /\ Deletable(hand[h].gone)
  /\ DeleteRows(hand[h].gone)
  /\ hand' = [hand EXCEPT ![h].at = "create", ![h].gone = {}]
  /\ UNCHANGED <<schedule, steady, calm>>

(* One of the rows has a booking: the request ends with an error. *)
GenRefused(h) ==
  /\ hand[h].at = "delete" /\ ~ Deletable(hand[h].gone)
  /\ hand' = [hand EXCEPT ![h] = Idle]
  /\ UNCHANGED <<schedule, row, steady, calm>>

(* createMany: what was not kept, skipping what the unique index refuses. *)
Missing(h) == {i \in Plan(hand[h].made) : i.start \notin hand[h].kept \cup Existing}

GenCreate(h) ==
  LET new == Missing(h) IN
  /\ hand[h].at = "create"
  /\ \A i \in new : row[i.start].n < Versions
  /\ row' = [s \in Starts |->
               IF \E i \in new : i.start = s
               THEN [NoRow EXCEPT !.n = row[s].n + 1, !.status = "available",
                                  !.end = (CHOOSE i \in new : i.start = s).end]
               ELSE row[s]]
  /\ hand' = [hand EXCEPT ![h] = Idle]
  /\ UNCHANGED <<schedule, steady, calm>>

(* deleteSlot: the slot is free and nobody's token is on it ... *)
DeleteRead(h, s) ==
  /\ hand[h] = Idle
  /\ row[s].status = "available" /\ row[s].lock = "none"
  /\ hand' = [hand EXCEPT ![h] = [Idle EXCEPT !.at = "deleteOne", !.gone = {<<s, row[s].n>>}]]
  /\ UNCHANGED <<schedule, row, steady, calm>>

(* ... and it is deleted by id. *)
DeleteCommit(h) ==
  /\ hand[h].at = "deleteOne"
  /\ Found(hand[h].gone) # {} /\ Deletable(hand[h].gone)
  /\ DeleteRows(hand[h].gone)
  /\ hand' = [hand EXCEPT ![h] = Idle]
  /\ calm' = FALSE
  /\ UNCHANGED <<schedule, steady>>

(* A request dies, or deleteSlot finds its row gone or booked. *)
Fails(h) ==
  /\ hand[h] # Idle
  /\ hand' = [hand EXCEPT ![h] = Idle]
  /\ calm' = FALSE
  /\ UNCHANGED <<schedule, row, steady>>

-----------------------------------------------------------------------------
(***************************************************************************)
(* Everybody else, one transaction each; BookingLifecycle has their        *)
(* detail, and what happens when staff re-open a booked slot.              *)
(***************************************************************************)
Edit(s, new) == row' = [row EXCEPT ![s] = new] /\ UNCHANGED <<schedule, hand, steady, calm>>

LockAnySlot(s) ==   \* mutant of LockSlot: the status is not looked at
  /\ row[s].lock # "live"
  /\ Edit(s, [row[s] EXCEPT !.lock = "live"])

LockSlot(s) ==
  /\ row[s].status = "available" /\ row[s].lock # "live"
  /\ Edit(s, [row[s] EXCEPT !.lock = "live"])
LockExpires(s) ==
  /\ row[s].lock = "live"
  /\ Edit(s, [row[s] EXCEPT !.lock = "expired"])
Unlock(s) ==
  /\ row[s].lock # "none"
  /\ Edit(s, [row[s] EXCEPT !.lock = "none"])
(* createBooking with the lock, or the approval of a permanent slot. *)
Book(s) ==
  /\ row[s].status = "available"
  /\ Edit(s, [row[s] EXCEPT !.status = "booked", !.lock = "none", !.booking = "active"])
Cancel(s) ==
  /\ row[s].booking = "active"
  /\ Edit(s, [row[s] EXCEPT !.status = "available", !.lock = "none", !.booking = "past"])
Deactivate(s) ==
  /\ row[s].status = "available" /\ row[s].booking # "active"
  /\ Edit(s, [row[s] EXCEPT !.status = "inactive"])
Reactivate(s) ==
  /\ row[s].status = "inactive"
  /\ Edit(s, [row[s] EXCEPT !.status = "available"])

(* Pricing rules, opening hours and holidays are edited at any time. *)
ChangeSchedule(s) ==
  /\ schedule' = s /\ steady' = FALSE /\ calm' = FALSE
  /\ UNCHANGED <<row, hand>>

Next ==
  \/ \E h \in Staff :
       \/ \E overwrite \in BOOLEAN : GenPlan(h, overwrite)
       \/ GenRead(h) \/ GenDelete(h) \/ GenRefused(h) \/ GenCreate(h)
       \/ \E s \in Starts : DeleteRead(h, s)
       \/ DeleteCommit(h) \/ Fails(h)
  \/ \E s \in Starts : \/ LockSlot(s) \/ LockExpires(s) \/ Unlock(s)
                       \/ Book(s) \/ Cancel(s) \/ Deactivate(s) \/ Reactivate(s)
  \/ \E s \in Busy : ChangeSchedule(s)

Spec == Init /\ [][Next]_vars

-----------------------------------------------------------------------------
(* The plan of a day is lawful for all hours and rules: its slots fit,     *)
(* have the length and rule they should, and leave out nothing they could  *)
(* sell.                                                                   *)
PlanIsLawful == Lawful(schedule, Plan(schedule))

(* The rows of the court never overlap in time, whatever generations,      *)
(* deletions and failures cross, unless the schedule changed: then a       *)
(* generation adds slots beside those of the old schedule.  And any number *)
(* of generations, overwriting or not, in any order leave a complete day:  *)
(* whoever deletes slots puts as many back, unless a request died, a slot  *)
(* was deleted on purpose or the schedule changed.                         *)
DayIsAsPlanned ==
  /\ steady => \A s, t \in Existing : s < t => row[s].end <= t
  /\ calm /\ (\E s \in Starts : row[s].n > 0) /\ (\A h \in Staff : hand[h] = Idle)
       => \A i \in Plan(schedule) : row[i.start].status # "absent"

(* No createMany replaces a row: without overwriting, existing slots are   *)
(* left as they are, and start times that are missing are added.  And a    *)
(* slot keeps its row as long as a booking of any status refers to it,     *)
(* whatever was read before the booking was made.                          *)
RowsSurvive ==
  [][/\ \A h \in Staff : hand[h].at = "create" /\ row' # row =>
          \A s \in Existing : row'[s].n = row[s].n
     /\ \A s \in Starts : row[s].booking # "never" =>
          row'[s].n = row[s].n /\ row'[s].status # "absent"]_vars
=============================================================================
