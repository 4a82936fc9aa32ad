------------------------------ MODULE SlotLock ------------------------------
(***************************************************************************)
(* The slot lock of apps/api/src/services/slot.service.ts together with    *)
(* the steps of createBooking that use it and the slot-cleanup job.        *)
(*                                                                         *)
(* A slot is protected twice: by the Redis key slot:lock:<slotId>, set     *)
(* with NX EX 600, and by the columns lock_token / locked_until of its     *)
(* row in time_slots, which are read and written under SELECT FOR UPDATE.  *)
(* The two stores are not updated together, so every Redis call and every  *)
(* database transaction is a step of its own here and a request is a       *)
(* process that can be overtaken, or die, between any two of them.         *)
(*                                                                         *)
(* Time is abstracted to expiry: a key may expire at any moment after it   *)
(* was set, and a row lock stops being "live" (locked_until <= now) at any *)
(* moment after it was written.                                            *)
(***************************************************************************)
EXTENDS FiniteSets

CONSTANTS
  Slots,      \* rows of time_slots
  Tokens,     \* values crypto.randomUUID() can return
  Requests,   \* HTTP requests the API can serve at the same time
  None        \* SQL NULL, a missing Redis key, an absent argument

ASSUME NoneAssumption == None \notin Slots \cup Tokens

VARIABLES
  status,     \* time_slots.status
  lock,       \* time_slots.lock_token, and whether locked_until lies ahead
  key,        \* the Redis string slot:lock:<slotId>
  minted,     \* tokens generated so far
  granted,    \* <<slot, token>> pairs returned to a client by lockSlot
  req,        \* the step a request is at, with its arguments
  sweep       \* the run of the slot-cleanup job in progress

lockVars == <<status, lock, key, minted, granted, req, sweep>>

SlotStatus == {"available", "reserved", "booked", "inactive"}
RowLock    == [token : Tokens \cup {None}, live : BOOLEAN]
NoLock     == [token |-> None, live |-> FALSE]

(* The steps of a request: lockSlot (lockRow, lockUndo), unlockSlot        *)
(* (unlockKey, unlockRow) and createBooking (bookRow, bookKey).            *)
ReqStep == {"lockRow", "lockUndo", "unlockKey", "unlockRow", "bookRow", "bookKey"}
IdleReq == [at |-> "idle", slot |-> None, token |-> None]
Request == [at : ReqStep, slot : Slots, token : Tokens] \cup {IdleReq}
Sweep   == [at : {"idle", "rows", "keys"}, ids : SUBSET Slots]
IdleSweep == [at |-> "idle", ids |-> {}]

LockTypeOK ==
  /\ status \in [Slots -> SlotStatus]
  /\ lock \in [Slots -> RowLock]
  /\ key \in [Slots -> Tokens \cup {None}]
  /\ minted \in SUBSET Tokens
  /\ granted \in SUBSET (Slots \X Tokens)
  /\ req \in [Requests -> Request]
  /\ sweep \in Sweep

(* Slots as createMany leaves them: available and unlocked. *)
LockInit ==
  /\ status = [s \in Slots |-> "available"]
  /\ lock = [s \in Slots |-> NoLock]
  /\ key = [s \in Slots |-> None]
  /\ minted = {} /\ granted = {}
  /\ req = [r \in Requests |-> IdleReq]
  /\ sweep = IdleSweep

(***************************************************************************)
(* The checks the transactions make on the locked row.                     *)
(***************************************************************************)
(* mutant of Lockable: locked_until is not looked at *)
LockableByStatus(s) == status[s] = "available"
Lockable(s)      == status[s] = "available" /\ ~lock[s].live
(* mutants of HoldsRow: trust the Redis key, or the status, alone *)
HoldsRowByKey(s, t)    == key[s] = t
HoldsRowByStatus(s, t) == status[s] = "available"
HoldsRow(s, t)   == status[s] = "available" /\ lock[s].token = t /\ lock[s].live

Begin(r, step, s, t) ==
  /\ req[r].at = "idle"
  /\ req' = [req EXCEPT ![r] = [at |-> step, slot |-> s, token |-> t]]
Continue(r, step) == req' = [req EXCEPT ![r].at = step]
Finish(r)         == req' = [req EXCEPT ![r] = IdleReq]

-----------------------------------------------------------------------------
(* lockSlot: SET NX EX 600; when the key exists the request ends with 409. *)
LockKey(r, s, t) ==
  /\ t \notin minted /\ key[s] = None
  /\ Begin(r, "lockRow", s, t)
  /\ key' = [key EXCEPT ![s] = t]
  /\ minted' = minted \cup {t}
  /\ UNCHANGED <<status, lock, granted, sweep>>

(* lockSlot's transaction: the row is free, so it takes the token. *)
LockRow(r) ==
  LET s == req[r].slot  t == req[r].token IN
  /\ req[r].at = "lockRow" /\ Lockable(s)
  /\ lock' = [lock EXCEPT ![s] = [token |-> t, live |-> TRUE]]
  /\ granted' = granted \cup {<<s, t>>}
  /\ Finish(r)
  /\ UNCHANGED <<status, key, minted, sweep>>

(* lockSlot's transaction throws: the row is taken, or the database fails. *)
LockRowFails(r) ==
  /\ req[r].at = "lockRow"
  /\ Continue(r, "lockUndo")
  /\ UNCHANGED <<status, lock, key, minted, granted, sweep>>

(* The catch block deletes the key, whoever's it is by now. *)
LockUndo(r) ==
  /\ req[r].at = "lockUndo"
  /\ key' = [key EXCEPT ![req[r].slot] = None]
  /\ Finish(r)
  /\ UNCHANGED <<status, lock, minted, granted, sweep>>

(* unlockSlot: the token is compared with the key ... *)
UnlockCheck(r, s, t) ==
  /\ <<s, t>> \in granted /\ key[s] = t
  /\ Begin(r, "unlockKey", s, t)
  /\ UNCHANGED <<status, lock, key, minted, granted, sweep>>

(* ... then the key is deleted without comparing again ... *)
UnlockKey(r) ==
  /\ req[r].at = "unlockKey"
  /\ key' = [key EXCEPT ![req[r].slot] = None]
  /\ Continue(r, "unlockRow")
  /\ UNCHANGED <<status, lock, minted, granted, sweep>>

(* ... and the row's lock is cleared, whoever's it is. *)
UnlockRow(r) ==
  /\ req[r].at = "unlockRow"
  /\ lock' = [lock EXCEPT ![req[r].slot] = NoLock]
  /\ Finish(r)
  /\ UNCHANGED <<status, key, minted, granted, sweep>>

(* createBooking: the token is compared with the key ... *)
BookCheck(r, s, t) ==
  /\ <<s, t>> \in granted /\ key[s] = t
  /\ Begin(r, "bookRow", s, t)
  /\ UNCHANGED <<status, lock, key, minted, granted, sweep>>

(* ... the transaction checks the row under FOR UPDATE and takes it ... *)
BookRow(r, st) ==
  LET s == req[r].slot IN
  /\ req[r].at = "bookRow" /\ HoldsRow(s, req[r].token)
  /\ status' = [status EXCEPT ![s] = st]
  /\ lock' = [lock EXCEPT ![s] = NoLock]
  /\ Continue(r, "bookKey")
  /\ UNCHANGED <<key, minted, granted, sweep>>

(* ... or throws: lock lost, payment method not accepted, database error. *)
BookRowFails(r) ==
  /\ req[r].at = "bookRow"
  /\ Finish(r)
  /\ UNCHANGED <<status, lock, key, minted, granted, sweep>>

(* After the commit the key is deleted, whoever's it is. *)
BookKey(r) ==
  /\ req[r].at = "bookKey"
  /\ key' = [key EXCEPT ![req[r].slot] = None]
  /\ Finish(r)
  /\ UNCHANGED <<status, lock, minted, granted, sweep>>

(* The API process dies, or a call throws: the request goes no further. *)
Crash(r) ==
  /\ req[r].at # "idle"
  /\ Finish(r)
  /\ UNCHANGED <<status, lock, key, minted, granted, sweep>>

-----------------------------------------------------------------------------
(* mutant of SweepRead: compares locked_until the wrong way round *)
SweepReadLive ==
  LET held == {s \in Slots : status[s] = "available" /\ lock[s].live} IN
  /\ sweep.at = "idle" /\ held # {}
  /\ sweep' = [at |-> "rows", ids |-> held]
  /\ UNCHANGED <<status, lock, key, minted, granted, req>>

(* slot-cleanup job: the ids of available rows whose lock has expired. *)
SweepRead ==
  LET expired == {s \in Slots : /\ status[s] = "available"
                                /\ lock[s].token # None /\ ~lock[s].live} IN
  /\ sweep.at = "idle" /\ expired # {}
  /\ sweep' = [at |-> "rows", ids |-> expired]
  /\ UNCHANGED <<status, lock, key, minted, granted, req>>

(* updateMany by id only: the rows are not checked again. *)
SweepRows ==
  /\ sweep.at = "rows"
  /\ lock' = [s \in Slots |-> IF s \in sweep.ids THEN NoLock ELSE lock[s]]
  /\ sweep' = [sweep EXCEPT !.at = "keys"]
  /\ UNCHANGED <<status, key, minted, granted, req>>

(* Promise.all of redis.del: one key at a time, in any order. *)
SweepKey(s) ==
  /\ sweep.at = "keys" /\ s \in sweep.ids
  /\ key' = [key EXCEPT ![s] = None]
  /\ sweep' = IF sweep.ids = {s} THEN IdleSweep ELSE [sweep EXCEPT !.ids = @ \ {s}]
  /\ UNCHANGED <<status, lock, minted, granted, req>>

(* The worker dies or a call throws; the next repeat starts from the read. *)
SweepFails ==
  /\ sweep.at # "idle"
  /\ sweep' = IdleSweep
  /\ UNCHANGED <<status, lock, key, minted, granted, req>>

(* Redis drops a key whose 600 seconds are over. *)
KeyExpires(s) ==
  /\ key[s] # None
  /\ key' = [key EXCEPT ![s] = None]
  /\ UNCHANGED <<status, lock, minted, granted, req, sweep>>

(* locked_until passes. *)
LockExpires(s) ==
  /\ lock[s].live
  /\ lock' = [lock EXCEPT ![s].live = FALSE]
  /\ UNCHANGED <<status, key, minted, granted, req, sweep>>

LockServe(r) ==
  \/ \E s \in Slots, t \in Tokens : LockKey(r, s, t) \/ UnlockCheck(r, s, t) \/ BookCheck(r, s, t)
  \/ LockRow(r) \/ LockRowFails(r) \/ LockUndo(r)
  \/ UnlockKey(r) \/ UnlockRow(r)
  \/ BookRowFails(r) \/ BookKey(r) \/ Crash(r)

LockBackground ==
  \/ SweepRead \/ SweepRows \/ SweepFails
  \/ \E s \in Slots : SweepKey(s) \/ KeyExpires(s) \/ LockExpires(s)

(* Every step but the booking itself, which also writes the bookings. *)
LockNext == (\E r \in Requests : LockServe(r)) \/ LockBackground
=============================================================================
