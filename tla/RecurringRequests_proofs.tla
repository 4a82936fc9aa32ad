---------------------- MODULE RecurringRequests_proofs ----------------------
(***************************************************************************)
(* Theorems of RecurringRequests for any requests, handlers, slots, dates  *)
(* and windows: types; that approvals which overlap with each other, with  *)
(* cancellations and with other customers book no slot twice; that a       *)
(* series is booked if and only if its request is approved; and that a     *)
(* window is booked whole or not at all.                                   *)
(***************************************************************************)
EXTENDS RecurringRequests, TLAPS

-----------------------------------------------------------------------------
(* Type correctness. *)

(* A handler that is not idle has a request. *)
LEMMA HandFacts ==
  ASSUME TypeOK, NEW h \in Handlers, hand[h].op # "idle"
  PROVE  /\ hand[h] \in [op : Op, req : Wanted, from : Status, dates : SUBSET Dates, picked : SUBSET Slots]
         /\ hand[h].req \in Wanted
BY DEF TypeOK, Hand, Idle

LEMMA StartTypes ==
  ASSUME TypeOK, NEW h \in Handlers, NEW op \in Op, NEW q \in Wanted, NEW from \in Status,
         NEW dates \in SUBSET Dates, Start(h, op, q, from, dates)
  PROVE  hand' \in [Handlers -> Hand]
BY DEF TypeOK, Start, Hand

LEMMA FinishTypes ==
  ASSUME TypeOK, NEW h \in Handlers, Finish(h)
  PROVE  hand' \in [Handlers -> Hand]
BY DEF TypeOK, Finish, Hand

LEMMA WriteTypes ==
  ASSUME TypeOK, NEW h \in Handlers, hand[h].op # "idle", NEW st \in Status, Write(h, st)
  PROVE  request' \in [Wanted -> Status] /\ crossed' \in SUBSET Wanted
BY HandFacts DEF TypeOK, Write

LEMMA TodayFacts ==
  ASSUME TypeOK
  PROVE  Occurrences \subseteq Dates /\ (Today <= Last => now + 1 \in 1..(2 * Last + 1))
BY CalendarAssumption DEF TypeOK, Today, Occurrences, Dates

LEMMA TypesKept ==
  ASSUME TypeOK, [Next]_vars
  PROVE  TypeOK'
<1> USE DEF Op, Status
<1>1. ASSUME NEW h \in Handlers, NEW q \in Wanted,
             SubmitRead(h, q) \/ ApproveRead(h, q) \/ RejectRead(h, q) \/ CancelRead(h, q)
      PROVE  TypeOK'
  <2>1. hand' \in [Handlers -> Hand]
    BY <1>1, StartTypes, TodayFacts DEF SubmitRead, ApproveRead, RejectRead, CancelRead
  <2> QED BY <1>1, <2>1 DEF SubmitRead, ApproveRead, RejectRead, CancelRead, TypeOK
<1>2. ASSUME NEW h \in Handlers, SubmitCommit(h) \/ RejectCommit(h) PROVE TypeOK'
  <2>1. request' \in [Wanted -> Status] /\ crossed' \in SUBSET Wanted
    BY <1>2, WriteTypes DEF SubmitCommit, RejectCommit
  <2>2. hand' \in [Handlers -> Hand]
    BY <1>2, FinishTypes DEF SubmitCommit, RejectCommit
  <2> QED BY <1>2, <2>1, <2>2 DEF SubmitCommit, RejectCommit, TypeOK
<1>3. ASSUME NEW h \in Handlers, Generate(h) PROVE TypeOK'
  <2>1. hand[h] \in [op : Op, req : Wanted, from : Status, dates : SUBSET Dates, picked : SUBSET Slots]
    BY <1>3, HandFacts DEF Generate
  <2>2. [hand[h] EXCEPT !.op = "approve"] \in Hand
    BY <2>1 DEF Hand
  <2>3. hand' = [hand EXCEPT ![h] = [hand[h] EXCEPT !.op = "approve"]]
    BY <1>3 DEF Generate, TypeOK
  <2>4. slot' \in [Slots -> SlotState]
    BY <1>3 DEF Generate, TypeOK, SlotState
  <2> QED BY <1>3, <2>2, <2>3, <2>4 DEF Generate, TypeOK
<1>4. ASSUME NEW h \in Handlers, ApproveDate(h) PROVE TypeOK'
  <2>1. PICK d \in hand[h].dates : LockDate(h, d) /\
          hand' = [hand EXCEPT ![h].dates = @ \ {d}, ![h].picked = @ \cup Free(hand[h].req, d)]
    BY <1>4 DEF ApproveDate
  <2>2. hand[h] \in [op : Op, req : Wanted, from : Status, dates : SUBSET Dates, picked : SUBSET Slots]
    BY <1>4, HandFacts DEF ApproveDate
  <2>3. Free(hand[h].req, d) \subseteq Slots
    BY <2>1, <2>2, CalendarAssumption DEF Free, Dates
  <2>4. [hand[h] EXCEPT !.dates = @ \ {d}, !.picked = @ \cup Free(hand[h].req, d)] \in Hand
    BY <2>2, <2>3 DEF Hand
  <2>5. hand' = [hand EXCEPT ![h] = [hand[h] EXCEPT !.dates = @ \ {d}, !.picked = @ \cup Free(hand[h].req, d)]]
    BY <2>1, <2>2 DEF TypeOK
  <2>6. rowLock' \in [Slots -> Handlers \cup {None}]
    BY <2>1 DEF LockDate, TypeOK
  <2> QED BY <1>4, <2>4, <2>5, <2>6 DEF ApproveDate, TypeOK
<1>5. ASSUME NEW h \in Handlers, ApproveCommit(h) PROVE TypeOK'
  <2>1. request' \in [Wanted -> Status] /\ crossed' \in SUBSET Wanted
    BY <1>5, WriteTypes DEF ApproveCommit
  <2>2. hand' \in [Handlers -> Hand]
    BY <1>5, FinishTypes DEF ApproveCommit
  <2>3. hand[h].req \in Wanted
    BY <1>5, HandFacts DEF ApproveCommit
  <2>4. series' \in [Wanted -> [Slots -> BookingState]]
    BY <1>5, <2>3 DEF ApproveCommit, TypeOK, BookingState
  <2>5. slot' \in [Slots -> SlotState]
    BY <1>5 DEF ApproveCommit, TypeOK, SlotState
  <2>6. rowLock' \in [Slots -> Handlers \cup {None}]
    BY <1>5 DEF ApproveCommit, Unlock, TypeOK
  <2> QED BY <1>5, <2>1, <2>2, <2>4, <2>5, <2>6 DEF ApproveCommit, TypeOK
<1>6. ASSUME NEW h \in Handlers, CancelFind(h) PROVE TypeOK'
  <2>1. hand[h] \in [op : Op, req : Wanted, from : Status, dates : SUBSET Dates, picked : SUBSET Slots]
    BY <1>6, HandFacts DEF CancelFind
  <2>2. Future(hand[h].req) \subseteq Slots
    BY DEF Future
  <2>3. [hand[h] EXCEPT !.op = "cancelTx", !.picked = Future(hand[h].req)] \in Hand
    BY <2>1, <2>2 DEF Hand
  <2>4. hand' = [hand EXCEPT ![h] = [hand[h] EXCEPT !.op = "cancelTx", !.picked = Future(hand[h].req)]]
    BY <1>6, <2>1 DEF CancelFind, TypeOK
  <2> QED BY <1>6, <2>3, <2>4 DEF CancelFind, TypeOK
<1>7. ASSUME NEW h \in Handlers, CancelCommit(h) PROVE TypeOK'
  <2>1. request' \in [Wanted -> Status] /\ crossed' \in SUBSET Wanted
    BY <1>7, WriteTypes DEF CancelCommit
  <2>2. hand' \in [Handlers -> Hand]
    BY <1>7, FinishTypes DEF CancelCommit
  <2>3. /\ hand[h].req \in Wanted /\ hand[h].picked \subseteq Slots
    BY <1>7, HandFacts DEF CancelCommit
  <2>4. series' \in [Wanted -> [Slots -> BookingState]]
    BY <1>7, <2>3 DEF CancelCommit, TypeOK, BookingState
  <2>5. slot' \in [Slots -> SlotState] /\ stale' \in SUBSET Slots
    BY <1>7, <2>3 DEF CancelCommit, TypeOK, SlotState
  <2> QED BY <1>7, <2>1, <2>2, <2>4, <2>5 DEF CancelCommit, TypeOK
<1>8. ASSUME NEW h \in Handlers, Fails(h) PROVE TypeOK'
  BY <1>8, FinishTypes DEF Fails, Unlock, TypeOK
<1>9. ASSUME NEW s \in Slots, GuestLocks(s) \/ LockEnds(s) \/ GuestBooks(s) \/ GuestCancels(s) PROVE TypeOK'
  BY <1>9 DEF GuestLocks, LockEnds, GuestBooks, GuestCancels, Move, TypeOK, SlotState
<1>10. ASSUME NEW q \in Wanted, NEW s \in Slots, CheckIn(q, s) \/ CancelOne(q, s) PROVE TypeOK'
  BY <1>10 DEF CheckIn, CancelOne, TypeOK, SlotState, BookingState
<1>11. CASE TimePasses
  BY <1>11, TodayFacts DEF TimePasses, TypeOK
<1>12. CASE UNCHANGED vars
  BY <1>12 DEF vars, TypeOK
<1> QED
  BY <1>1, <1>2, <1>3, <1>4, <1>5, <1>6, <1>7, <1>8, <1>9, <1>10, <1>11, <1>12 DEF Next, Serve

(* Requests, slots, series and handlers have their types in every reachable state. *)
THEOREM RequestTypes == Spec => []TypeOK
<1>1. Init => TypeOK
  BY CalendarAssumption DEF Init, TypeOK, Status, SlotState, BookingState, Hand
<1> QED BY <1>1, TypesKept, PTL DEF Spec

-----------------------------------------------------------------------------
(* No slot is taken twice. *)

Has(q, s) == series[q][s] \in Taken

(* NoSlotTwice for one slot, without the set of its holders. *)
Sound(s) ==
  /\ \A p, q \in Wanted : Has(p, s) /\ Has(q, s) => p = q
  /\ s \in guest => \A q \in Wanted : ~ Has(q, s)
  /\ slot[s] = "booked" <=> (s \in guest \/ \E q \in Wanted : Has(q, s))

LEMMA SoundMeans == NoSlotTwice <=> \A s \in Slots \ stale : Sound(s)
<1> SUFFICES ASSUME NEW s \in Slots
             PROVE  ((\A x, y \in Holders(s) : x = y) /\ (slot[s] = "booked" <=> Holders(s) # {}))
                      <=> Sound(s)
  BY DEF NoSlotTwice
<1>1. \A x : x \in Holders(s) <=> (x \in Wanted /\ Has(x, s)) \/ (x = None /\ s \in guest)
  BY DEF Holders, Has
<1>2. None \notin Wanted
  BY CalendarAssumption
<1> QED BY <1>1, <1>2 DEF Sound

(* What an approval under way has picked is free, and locked by it. *)
PickedIsLocked ==
  \A h \in Handlers : \A s \in hand[h].picked :
    hand[h].op \in {"generate", "approve"} => rowLock[s] = h /\ slot[s] = "available"

LEMMA StartsWithNothing ==
  ASSUME TypeOK, PickedIsLocked, NEW h \in Handlers, NEW op, NEW q, NEW from, NEW dates,
         Start(h, op, q, from, dates), UNCHANGED <<rowLock, slot>>
  PROVE  PickedIsLocked'
BY DEF TypeOK, PickedIsLocked, Start

(* A handler that ends unlocks only its own rows. *)
LEMMA OthersKeepTheirs ==
  ASSUME TypeOK, NEW h \in Handlers, Finish(h)
  PROVE  /\ hand'[h] = Idle
         /\ \A k \in Handlers : k # h => hand'[k] = hand[k]
         /\ Unlock(h) => \A s \in Slots : rowLock[s] # h => rowLock'[s] = rowLock[s]
BY DEF TypeOK, Finish, Unlock

(* A slot nobody has locked may change, and so may one that is not free. *)
LEMMA MoveLeavesPicked ==
  ASSUME TypeOK, PickedIsLocked, NEW s \in Slots, NEW v, slot' = [slot EXCEPT ![s] = v],
         rowLock[s] = None \/ v = "available", UNCHANGED <<hand, rowLock>>
  PROVE  PickedIsLocked'
<1> SUFFICES ASSUME NEW h \in Handlers, NEW t \in hand[h].picked,
                    hand[h].op \in {"generate", "approve"}
             PROVE  slot'[t] = "available"
  BY DEF PickedIsLocked
<1>1. rowLock[t] = h /\ slot[t] = "available" /\ t \in Slots
  BY HandFacts DEF PickedIsLocked, TypeOK
<1>2. h # None
  BY CalendarAssumption
<1> QED BY <1>1, <1>2 DEF TypeOK

LEMMA FreeSlots ==
  ASSUME TypeOK, NEW q \in Wanted, NEW d \in Dates, NEW s \in Free(q, d)
  PROVE  s \in Slots /\ slot[s] = "available" /\ DateOf[s] = d
BY CalendarAssumption DEF Free, Dates

LEMMA PicksKept ==
  ASSUME TypeOK, PickedIsLocked, [Next]_vars
  PROVE  PickedIsLocked'
<1>0. None \notin Handlers
  BY CalendarAssumption
<1>1. ASSUME NEW h \in Handlers, NEW q \in Wanted,
             SubmitRead(h, q) \/ ApproveRead(h, q) \/ RejectRead(h, q) \/ CancelRead(h, q)
      PROVE  PickedIsLocked'
  BY <1>1, StartsWithNothing DEF SubmitRead, ApproveRead, RejectRead, CancelRead
<1>2. ASSUME NEW h \in Handlers, SubmitCommit(h) \/ RejectCommit(h) PROVE PickedIsLocked'
  BY <1>2, OthersKeepTheirs DEF SubmitCommit, RejectCommit, PickedIsLocked, Idle
<1>3. ASSUME NEW h \in Handlers, Generate(h) PROVE PickedIsLocked'
  <2> SUFFICES ASSUME NEW k \in Handlers, NEW s \in hand'[k].picked,
                      hand'[k].op \in {"generate", "approve"}
               PROVE  rowLock'[s] = k /\ slot'[s] = "available"
    BY DEF PickedIsLocked
  <2>1. hand'[k].picked = hand[k].picked /\ hand[k].op \in {"generate", "approve"}
    BY <1>3 DEF Generate, TypeOK
  <2>2. rowLock[s] = k /\ slot[s] = "available" /\ s \in Slots
    BY <2>1, HandFacts DEF PickedIsLocked
  <2> QED BY <1>3, <2>2 DEF Generate
<1>4. ASSUME NEW h \in Handlers, ApproveDate(h) PROVE PickedIsLocked'
  <2>1. PICK d \in hand[h].dates :
          /\ LockDate(h, d)
          /\ hand' = [hand EXCEPT ![h].dates = @ \ {d}, ![h].picked = @ \cup Free(hand[h].req, d)]
    BY <1>4 DEF ApproveDate
  <2>2. /\ hand[h] \in [op : Op, req : Wanted, from : Status, dates : SUBSET Dates, picked : SUBSET Slots]
        /\ hand[h].req \in Wanted /\ d \in Dates
    BY <1>4, <2>1, HandFacts DEF ApproveDate
  <2>3. \A k \in Handlers : k # h => hand'[k] = hand[k]
    BY <2>1 DEF TypeOK
  <2>4. hand'[h].picked = hand[h].picked \cup Free(hand[h].req, d)
    BY <2>1, <2>2 DEF TypeOK
  <2>5. \A s \in Free(hand[h].req, d) : rowLock'[s] = h /\ slot[s] = "available"
    BY <2>1, <2>2, FreeSlots DEF LockDate
  <2>6. \A s \in Slots : rowLock[s] \notin {None, h} => rowLock'[s] = rowLock[s]
    BY <2>1 DEF LockDate
  <2>7. \A s \in Slots : rowLock[s] = h => rowLock'[s] = h
    BY <2>1 DEF LockDate
  <2>8. ASSUME NEW k \in Handlers, NEW s \in hand[k].picked, hand[k].op \in {"generate", "approve"}
        PROVE  rowLock'[s] = k /\ slot[s] = "available"
    <3>1. rowLock[s] = k /\ slot[s] = "available" /\ s \in Slots
      BY <2>8, HandFacts DEF PickedIsLocked
    <3> QED BY <1>0, <2>6, <2>7, <3>1
  <2>9. hand[h].op = "approve" /\ UNCHANGED slot
    BY <1>4 DEF ApproveDate
  <2> SUFFICES ASSUME NEW k \in Handlers, NEW s \in hand'[k].picked,
                      hand'[k].op \in {"generate", "approve"}
               PROVE  rowLock'[s] = k /\ slot[s] = "available"
    BY <2>9 DEF PickedIsLocked
  <2>10. CASE k = h
    BY <2>4, <2>5, <2>8, <2>9, <2>10
  <2>11. CASE k # h
    BY <2>3, <2>8, <2>11
  <2> QED BY <2>10, <2>11
<1>5. ASSUME NEW h \in Handlers, ApproveCommit(h) PROVE PickedIsLocked'
  <2> SUFFICES ASSUME NEW k \in Handlers, NEW s \in hand'[k].picked,
                      hand'[k].op \in {"generate", "approve"}
               PROVE  rowLock'[s] = k /\ slot'[s] = "available"
    BY DEF PickedIsLocked
  <2>1. Finish(h) /\ Unlock(h)
    BY <1>5 DEF ApproveCommit
  <2>2. k # h /\ hand'[k] = hand[k]
    BY <2>1, OthersKeepTheirs DEF Idle
  <2>3. rowLock[s] = k /\ slot[s] = "available" /\ s \in Slots
    BY <2>2, HandFacts DEF PickedIsLocked
  <2>4. s \notin hand[h].picked
    BY <1>5, <2>2, <2>3 DEF ApproveCommit, PickedIsLocked
  <2>5. slot'[s] = slot[s]
    BY <1>5, <2>3, <2>4 DEF ApproveCommit
  <2> QED BY <2>1, <2>2, <2>3, <2>5, OthersKeepTheirs
<1>6. ASSUME NEW h \in Handlers, CancelFind(h) PROVE PickedIsLocked'
  <2>1. hand'[h].op = "cancelTx" /\ \A k \in Handlers : k # h => hand'[k] = hand[k]
    <3>1. hand[h] \in [op : Op, req : Wanted, from : Status, dates : SUBSET Dates, picked : SUBSET Slots]
      BY <1>6, HandFacts DEF CancelFind
    <3> QED BY <1>6, <3>1 DEF CancelFind, TypeOK
  <2> QED BY <1>6, <2>1 DEF CancelFind, PickedIsLocked
<1>7. ASSUME NEW h \in Handlers, CancelCommit(h) PROVE PickedIsLocked'
  <2> SUFFICES ASSUME NEW k \in Handlers, NEW s \in hand'[k].picked,
                      hand'[k].op \in {"generate", "approve"}
               PROVE  rowLock[s] = k /\ slot'[s] = "available"
    BY <1>7 DEF PickedIsLocked, CancelCommit
  <2>1. k # h /\ hand'[k] = hand[k]
    BY <1>7, OthersKeepTheirs DEF CancelCommit, Idle
  <2>2. rowLock[s] = k /\ slot[s] = "available" /\ s \in Slots
    BY <2>1, HandFacts DEF PickedIsLocked
  <2> QED BY <1>7, <2>2 DEF CancelCommit
<1>8. ASSUME NEW h \in Handlers, Fails(h) PROVE PickedIsLocked'
  <2> SUFFICES ASSUME NEW k \in Handlers, NEW s \in hand'[k].picked,
                      hand'[k].op \in {"generate", "approve"}
               PROVE  rowLock'[s] = k /\ slot[s] = "available"
    BY <1>8 DEF PickedIsLocked, Fails
  <2>1. Finish(h) /\ Unlock(h)
    BY <1>8 DEF Fails
  <2>2. k # h /\ hand'[k] = hand[k]
    BY <2>1, OthersKeepTheirs DEF Idle
  <2>3. rowLock[s] = k /\ slot[s] = "available" /\ s \in Slots
    BY <2>2, HandFacts DEF PickedIsLocked
  <2> QED BY <2>1, <2>2, <2>3, OthersKeepTheirs
<1>9. ASSUME NEW s \in Slots, GuestLocks(s) \/ LockEnds(s) \/ GuestBooks(s) \/ GuestCancels(s)
      PROVE  PickedIsLocked'
  BY <1>9, MoveLeavesPicked DEF GuestLocks, LockEnds, GuestBooks, GuestCancels, Move
<1>10. ASSUME NEW q \in Wanted, NEW s \in Slots, CheckIn(q, s) PROVE PickedIsLocked'
  BY <1>10 DEF CheckIn, PickedIsLocked
<1>11. ASSUME NEW q \in Wanted, NEW s \in Slots, CancelOne(q, s) PROVE PickedIsLocked'
  BY <1>11, MoveLeavesPicked DEF CancelOne
<1>12. CASE TimePasses
  BY <1>12 DEF TimePasses, PickedIsLocked
<1>13. CASE UNCHANGED vars
  BY <1>13 DEF vars, PickedIsLocked
<1> QED
  BY <1>1, <1>2, <1>3, <1>4, <1>5, <1>6, <1>7, <1>8, <1>9, <1>10, <1>11, <1>12, <1>13 DEF Next, Serve

LEMMA SoundKept ==
  ASSUME TypeOK, PickedIsLocked, [Next]_vars, NEW s \in Slots, s \notin stale', Sound(s)
  PROVE  Sound(s)'
<1> USE DEF Has, Taken
<1>1. ASSUME UNCHANGED <<slot, series, guest>> PROVE Sound(s)'
  BY <1>1 DEF Sound
<1>2. ASSUME NEW h \in Handlers, Generate(h) PROVE Sound(s)'
  BY <1>2 DEF Generate, Sound
<1>3. ASSUME NEW h \in Handlers, ApproveCommit(h) PROVE Sound(s)'
  <2> DEFINE q == hand[h].req  new == hand[h].picked
  <2>1. q \in Wanted /\ \A p \in Wanted : p # q => series'[p] = series[p]
    BY <1>3, HandFacts DEF ApproveCommit, TypeOK
  <2>2. series'[q][s] = IF s \in new THEN "confirmed" ELSE series[q][s]
    BY <1>3, <2>1 DEF ApproveCommit, TypeOK
  <2>3. /\ slot'[s] = IF s \in new THEN "booked" ELSE slot[s]
        /\ guest' = guest
    BY <1>3 DEF ApproveCommit
  <2>4. CASE s \in new
    <3>1. slot[s] = "available"
      BY <1>3, <2>4 DEF ApproveCommit, PickedIsLocked
    <3>2. s \notin guest /\ \A p \in Wanted : ~ Has(p, s)
      BY <3>1 DEF Sound
    <3> QED BY <2>1, <2>2, <2>3, <2>4, <3>2 DEF Sound
  <2>5. CASE s \notin new
    BY <2>1, <2>2, <2>3, <2>5 DEF Sound
  <2> QED BY <2>4, <2>5
<1>4. ASSUME NEW h \in Handlers, CancelCommit(h) PROVE Sound(s)'
  <2> DEFINE q == hand[h].req  old == hand[h].picked
  <2>1. q \in Wanted /\ \A p \in Wanted : p # q => series'[p] = series[p]
    BY <1>4, HandFacts DEF CancelCommit, TypeOK
  <2>2. series'[q][s] = IF s \in old THEN "cancelled" ELSE series[q][s]
    BY <1>4, <2>1 DEF CancelCommit, TypeOK
  <2>3. /\ slot'[s] = IF s \in old THEN "available" ELSE slot[s]
        /\ guest' = guest
    BY <1>4 DEF CancelCommit
  <2>4. CASE s \in old
    <3>1. series[q][s] = "confirmed"
      BY <1>4, <2>4 DEF CancelCommit
    <3>2. s \notin guest /\ \A p \in Wanted : p # q => ~ Has(p, s)
      BY <2>1, <3>1 DEF Sound
    <3> QED BY <2>1, <2>2, <2>3, <2>4, <3>2 DEF Sound
  <2>5. CASE s \notin old
    BY <2>1, <2>2, <2>3, <2>5 DEF Sound
  <2> QED BY <2>4, <2>5
<1>5. ASSUME NEW t \in Slots, GuestLocks(t) \/ LockEnds(t) \/ GuestBooks(t) \/ GuestCancels(t)
      PROVE  Sound(s)'
  BY <1>5 DEF GuestLocks, LockEnds, GuestBooks, GuestCancels, Move, Sound, TypeOK
<1>6. ASSUME NEW q \in Wanted, NEW t \in Slots, CheckIn(q, t) PROVE Sound(s)'
  <2>1. \A p \in Wanted : Has(p, s)' <=> Has(p, s)
    BY <1>6 DEF CheckIn, TypeOK
  <2> QED BY <1>6, <2>1 DEF CheckIn, Sound
<1>7. ASSUME NEW q \in Wanted, NEW t \in Slots, CancelOne(q, t) PROVE Sound(s)'
  <2>1. \A p \in Wanted : p # q => series'[p] = series[p]
    BY <1>7 DEF CancelOne, TypeOK
  <2>2. series'[q][s] = IF s = t THEN "cancelled" ELSE series[q][s]
    BY <1>7 DEF CancelOne, TypeOK
  <2>3. slot'[s] = IF s = t THEN "available" ELSE slot[s]
    BY <1>7 DEF CancelOne, TypeOK
  <2>4. guest' = guest /\ series[q][t] = "confirmed"
    BY <1>7 DEF CancelOne
  <2>5. CASE s = t
    BY <2>1, <2>2, <2>3, <2>4, <2>5 DEF Sound
  <2>6. CASE s # t
    BY <2>1, <2>2, <2>3, <2>4, <2>6 DEF Sound
  <2> QED BY <2>5, <2>6
<1>8. ASSUME NEW h \in Handlers, Serve(h), ~ Generate(h), ~ ApproveCommit(h), ~ CancelCommit(h)
      PROVE  UNCHANGED <<slot, series, guest>>
  BY <1>8 DEF Serve, SubmitRead, ApproveRead, RejectRead, CancelRead, SubmitCommit, RejectCommit,
              ApproveDate, CancelFind, Fails
<1>9. TimePasses \/ UNCHANGED vars => UNCHANGED <<slot, series, guest>>
  BY DEF TimePasses, vars
<1> QED
  BY <1>1, <1>2, <1>3, <1>4, <1>5, <1>6, <1>7, <1>8, <1>9 DEF Next

(* A slot freed on a stale read stays marked. *)
LEMMA StaleGrows ==
  ASSUME [Next]_vars
  PROVE  stale \subseteq stale'
BY DEF Next, vars, Serve, SubmitRead, ApproveRead, RejectRead, CancelRead, SubmitCommit, RejectCommit,
       Generate, ApproveDate, ApproveCommit, CancelFind, CancelCommit, Fails, GuestLocks, LockEnds,
       GuestBooks, GuestCancels, CheckIn, CancelOne, TimePasses

(* Approvals that overlap, with each other or with other customers, never  *)
(* book a slot twice: the row locks approveRecurringRequest takes, date by *)
(* date, keep what it has picked free until it commits.                    *)
THEOREM NoSlotIsTakenTwice == Spec => []NoSlotTwice
<1> DEFINE Inv == TypeOK /\ PickedIsLocked /\ \A s \in Slots \ stale : Sound(s)
<1>1. Init => Inv
  <2> SUFFICES ASSUME Init PROVE Inv
    OBVIOUS
  <2>1. TypeOK
    BY CalendarAssumption DEF Init, TypeOK, Status, SlotState, BookingState, Hand
  <2>2. PickedIsLocked
    BY DEF Init, PickedIsLocked, Idle
  <2>3. \A s \in Slots : Sound(s)
    BY DEF Init, Sound, Has, Taken
  <2> QED BY <2>1, <2>2, <2>3
<1>2. Inv /\ [Next]_vars => Inv'
  <2> SUFFICES ASSUME Inv, [Next]_vars PROVE Inv'
    OBVIOUS
  <2>1. TypeOK' /\ PickedIsLocked'
    BY TypesKept, PicksKept
  <2>2. ASSUME NEW s \in Slots \ stale' PROVE Sound(s)'
    BY <2>2, SoundKept, StaleGrows
  <2> QED BY <2>1, <2>2
<1>3. Inv => NoSlotTwice
  BY SoundMeans
<1> QED BY <1>1, <1>2, <1>3, PTL DEF Spec

-----------------------------------------------------------------------------
(* A series follows its request. *)

(* The status a handler remembers is one its check lets through, and while *)
(* no two reviews of the request have crossed, one that saw the request    *)
(* approved finds it approved still, or ended; a cancellation that may go  *)
(* ahead has found every booking it has to cancel.                         *)
Remembers(h) ==
  LET q == hand[h].req IN
  /\ hand[h].op = "submit" => hand[h].from = "none"
  /\ hand[h].op \in {"generate", "approve", "reject"} => hand[h].from = "pending"
  /\ hand[h].op \in {"cancel", "cancelTx"} => hand[h].from \in {"pending", "approved"}
  /\ hand[h].op # "idle" /\ request[q] = "none" => hand[h].from = "none"
  /\ hand[h].op # "idle" /\ hand[h].from = "approved" /\ q \notin crossed
       => request[q] \in {"approved", "cancelled"}
  /\ hand[h].op = "cancelTx" /\ q \notin crossed /\ request[q] = hand[h].from
       => Future(q) \subseteq hand[h].picked

Follows(q) ==
  /\ Future(q) # {} => request[q] = "approved"
  /\ request[q] = "approved" => \E s \in Slots : series[q][s] # "none"

ReviewInv ==
  /\ TypeOK
  /\ \A h \in Handlers : Remembers(h)
  /\ \A q \in Wanted \ crossed : Follows(q)

(* A step that touches neither requests nor series, and lets no time pass  *)
(* backwards, disturbs no handler it does not move.                        *)
LEMMA QuietKeeps ==
  ASSUME ReviewInv, UNCHANGED <<request, series, crossed>>,
         now' = now \/ (TimePasses /\ now' = now + 1)
  PROVE  /\ \A q \in Wanted \ crossed : Follows(q)'
         /\ \A h \in Handlers : hand'[h] = hand[h] => Remembers(h)'
<1>1. \A q \in Wanted : Future(q)' \subseteq Future(q)
  BY CalendarAssumption DEF Future, ReviewInv, TypeOK
<1>2. ASSUME NEW q \in Wanted \ crossed PROVE Follows(q)'
  BY <1>1, <1>2 DEF ReviewInv, Follows
<1>3. ASSUME NEW h \in Handlers, hand'[h] = hand[h] PROVE Remembers(h)'
  <2>1. CASE hand[h].op = "idle"
    BY <1>3, <2>1 DEF Remembers
  <2>2. CASE hand[h].op # "idle"
    <3> DEFINE q == hand[h].req
    <3>1. q \in Wanted /\ Remembers(h)
      BY <2>2, HandFacts DEF ReviewInv
    <3>2. PICK r \in Wanted : r = q
      BY <3>1
    <3>3. Future(r)' \subseteq Future(r)
      BY <1>1
    <3> QED BY <1>3, <2>2, <3>1, <3>2, <3>3 DEF Remembers
  <2> QED BY <2>1, <2>2
<1> QED BY <1>2, <1>3

(* A handler's write crosses another, or the request is as it saw it. *)
LEMMA WriteMeans ==
  ASSUME TypeOK, NEW h \in Handlers, hand[h].op # "idle", NEW st, Write(h, st)
  PROVE  /\ request'[hand[h].req] = st
         /\ \A q \in Wanted : q # hand[h].req => request'[q] = request[q]
         /\ crossed \subseteq crossed'
         /\ \A q \in Wanted : q # hand[h].req /\ q \in crossed' => q \in crossed
         /\ hand[h].req \notin crossed' => request[hand[h].req] = hand[h].from
BY HandFacts DEF Write, TypeOK

(* Such a write leaves the other handlers' memories right: of an approved  *)
(* request it is a cancellation, and nothing is written over a cancelled   *)
(* one; only an approval adds bookings, and only to a pending request.     *)
LEMMA OthersRemember ==
  ASSUME ReviewInv, NEW h \in Handlers, hand[h].op # "idle", NEW q \in Wanted, hand[h].req = q,
         NEW st \in {"pending", "approved", "rejected", "cancelled"}, Write(h, st), Finish(h),
         now' = now,
         hand[h].from = "approved" => st = "cancelled",
         st = "pending" => hand[h].from = "none",
         \A p \in Wanted : p # q => series'[p] = series[p],
         st # "approved" => Future(q)' \subseteq Future(q)
  PROVE  \A k \in Handlers : Remembers(k)'
<1>1. q \in Wanted /\ hand[h].from \in {"none", "pending", "approved"} /\ TypeOK
  <2>1. hand[h].op \in Op
    BY HandFacts DEF ReviewInv
  <2> QED BY <2>1, HandFacts DEF ReviewInv, Remembers, Op
<1>2. /\ hand'[h] = Idle
      /\ \A k \in Handlers : k # h => hand'[k] = hand[k]
  BY <1>1, OthersKeepTheirs
<1>3. Remembers(h)'
  BY <1>2 DEF Remembers, Idle
<1>4. ASSUME NEW k \in Handlers, k # h PROVE Remembers(k)'
  <2>1. hand'[k] = hand[k] /\ Remembers(k)
    BY <1>2, <1>4 DEF ReviewInv
  <2>2. CASE hand[k].op = "idle"
    BY <2>1, <2>2 DEF Remembers
  <2>3. CASE hand[k].op # "idle" /\ hand[k].req # q
    <3>1. hand[k].req \in Wanted
      BY <1>1, <2>3, HandFacts
    <3>2. /\ request'[hand[k].req] = request[hand[k].req]
          /\ hand[k].req \in crossed' <=> hand[k].req \in crossed
      BY <1>1, <2>3, <3>1, WriteMeans
    <3>3. PICK p \in Wanted : p = hand[k].req
      BY <3>1
    <3>4. Future(p)' = Future(p)
      BY <2>3, <3>3 DEF Future
    <3> QED BY <2>1, <3>2, <3>3, <3>4 DEF Remembers
  <2>4. CASE hand[k].op # "idle" /\ hand[k].req = q /\ q \in crossed'
    <3>1. request'[q] # "none"
      BY <1>1, WriteMeans
    <3> QED BY <2>1, <2>4, <3>1 DEF Remembers
  <2>5. CASE hand[k].op # "idle" /\ hand[k].req = q /\ q \notin crossed'
    <3>1. request[q] = hand[h].from /\ request'[q] = st /\ q \notin crossed
      BY <1>1, <2>5, WriteMeans
    <3>2. hand[k].from = "approved" => st = "cancelled"
      BY <1>1, <2>1, <2>5, <3>1 DEF Remembers
    <3>3. hand[k].op = "cancelTx" => st # hand[k].from
      BY <1>1, <2>1, <2>5, <3>1, <3>2 DEF Remembers
    <3>4. hand[k].from = "approved" => request'[q] \in {"approved", "cancelled"}
      BY <3>1, <3>2
    <3>5. request'[q] # "none"
      BY <3>1
    <3> QED BY <2>1, <2>5, <3>1, <3>3, <3>4, <3>5 DEF Remembers
  <2> QED BY <2>2, <2>3, <2>4, <2>5
<1> QED BY <1>3, <1>4

(* A handler that begins remembers what it reads. *)
LEMMA Begins ==
  ASSUME ReviewInv, NEW h \in Handlers, NEW q \in Wanted,
         SubmitRead(h, q) \/ ApproveRead(h, q) \/ RejectRead(h, q) \/ CancelRead(h, q)
  PROVE  \A k \in Handlers : Remembers(k)'
<1>1. UNCHANGED <<request, series, crossed, now>>
  BY DEF SubmitRead, ApproveRead, RejectRead, CancelRead
<1>2. \A k \in Handlers : k # h => hand'[k] = hand[k]
  BY DEF ReviewInv, TypeOK, SubmitRead, ApproveRead, RejectRead, CancelRead, Start
<1>3. /\ hand'[h].req = q /\ hand'[h].from = request[q]
      /\ \/ hand'[h].op = "submit" /\ request[q] = "none"
         \/ hand'[h].op \in {"generate", "reject"} /\ request[q] = "pending"
         \/ hand'[h].op = "cancel" /\ request[q] \in {"pending", "approved"}
  BY DEF ReviewInv, TypeOK, SubmitRead, ApproveRead, RejectRead, CancelRead, Start
<1>4. Remembers(h)'
  BY <1>1, <1>3 DEF Remembers
<1> QED BY <1>1, <1>2, <1>4, QuietKeeps

(* A handler that goes on without writing a request. *)
LEMMA GoesOn ==
  ASSUME ReviewInv, NEW h \in Handlers, Generate(h) \/ ApproveDate(h) \/ CancelFind(h) \/ Fails(h)
  PROVE  \A k \in Handlers : Remembers(k)'
<1>1. UNCHANGED <<request, series, crossed, now>>
  BY DEF Generate, ApproveDate, CancelFind, Fails
<1>2. \A k \in Handlers : k # h => hand'[k] = hand[k]
  BY DEF ReviewInv, TypeOK, Generate, ApproveDate, CancelFind, Fails, Finish
<1>3. Remembers(h)'
  <2>1. CASE Fails(h)
    <3>1. hand'[h] = Idle
      BY <2>1 DEF Fails, Finish, ReviewInv, TypeOK
    <3> QED BY <3>1 DEF Remembers, Idle
  <2>2. CASE Generate(h) \/ ApproveDate(h)
    <3>1. hand[h].op # "idle" /\ hand[h].op \in {"generate", "approve"}
      BY <2>2 DEF Generate, ApproveDate
    <3>2. hand[h] \in [op : Op, req : Wanted, from : Status, dates : SUBSET Dates, picked : SUBSET Slots]
      BY <3>1, HandFacts DEF ReviewInv
    <3>3. hand'[h].req = hand[h].req /\ hand'[h].from = hand[h].from /\ hand'[h].op = "approve"
      <4>1. CASE Generate(h)
        BY <3>2, <4>1 DEF Generate, ReviewInv, TypeOK
      <4>2. CASE ApproveDate(h)
        <5>1. PICK d \in Dates : hand' = [hand EXCEPT ![h].dates = @ \ {d}, ![h].picked = @ \cup Free(hand[h].req, d)]
          BY <3>2, <4>2 DEF ApproveDate
        <5>2. hand[h].op = "approve"
          BY <4>2 DEF ApproveDate
        <5> QED BY <3>2, <5>1, <5>2 DEF ReviewInv, TypeOK
      <4> QED BY <2>2, <4>1, <4>2
    <3>4. hand[h].from = "pending" /\ (request[hand[h].req] = "none" => hand[h].from = "none")
      BY <3>1 DEF ReviewInv, Remembers
    <3> QED BY <1>1, <3>3, <3>4 DEF Remembers
  <2>3. CASE CancelFind(h)
    <3>1. hand[h].op = "cancel"
      BY <2>3 DEF CancelFind
    <3>2. hand[h] \in [op : Op, req : Wanted, from : Status, dates : SUBSET Dates, picked : SUBSET Slots]
      BY <3>1, HandFacts DEF ReviewInv
    <3>3. /\ hand'[h].req = hand[h].req /\ hand'[h].from = hand[h].from
          /\ hand'[h].op = "cancelTx" /\ hand'[h].picked = Future(hand[h].req)
      BY <2>3, <3>2 DEF CancelFind, ReviewInv, TypeOK
    <3>4. PICK q \in Wanted : q = hand[h].req /\ Future(q)' = Future(q)
      BY <1>1, <3>2 DEF Future
    <3>5. /\ request[hand[h].req] = "none" => hand[h].from = "none"
          /\ hand[h].from \in {"pending", "approved"}
          /\ hand[h].from = "approved" /\ hand[h].req \notin crossed
               => request[hand[h].req] \in {"approved", "cancelled"}
      BY <3>1 DEF ReviewInv, Remembers
    <3> QED BY <1>1, <3>3, <3>4, <3>5 DEF Remembers
  <2> QED BY <2>1, <2>2, <2>3
<1> QED BY <1>1, <1>2, <1>3, QuietKeeps

(* Where a review's write crosses no other, the series follows it. *)
LEMMA WritesFollow ==
  ASSUME ReviewInv, NEW h \in Handlers, SubmitCommit(h) \/ RejectCommit(h)
  PROVE  ReviewInv'
<1>0. PICK st \in {"pending", "rejected"} :
        /\ Write(h, st) /\ Finish(h)
        /\ st = "pending" <=> hand[h].op = "submit"
        /\ hand[h].op \in {"submit", "reject"}
  BY DEF SubmitCommit, RejectCommit
<1>1. UNCHANGED <<series, now>> /\ hand[h].op # "idle" /\ TypeOK
  BY DEF SubmitCommit, RejectCommit, ReviewInv
<1>2. /\ hand[h].from # "approved" /\ (st = "pending" => hand[h].from = "none")
  BY <1>0 DEF ReviewInv, Remembers
<1>3. \A q \in Wanted : Future(q)' = Future(q)
  BY <1>1 DEF Future
<1>4. hand[h].req \in Wanted
  BY <1>1, HandFacts
<1>5. \A k \in Handlers : Remembers(k)'
  <2>1. PICK q \in Wanted : hand[h].req = q
    BY <1>4
  <2> QED BY <1>0, <1>1, <1>2, <1>3, <2>1, OthersRemember
<1>6. ASSUME NEW q \in Wanted \ crossed' PROVE Follows(q)'
  <2>1. CASE q = hand[h].req
    <3>1. request[q] \in {"none", "pending"} /\ request'[q] = st /\ q \notin crossed
      <4>1. hand[h].from \in {"none", "pending"}
        BY <1>0 DEF ReviewInv, Remembers
      <4> QED BY <1>0, <1>1, <1>6, <2>1, <4>1, WriteMeans
    <3>2. Future(q) = {}
      BY <3>1 DEF ReviewInv, Follows
    <3> QED BY <1>3, <3>1, <3>2 DEF Follows
  <2>2. CASE q # hand[h].req
    <3>1. request'[q] = request[q] /\ q \notin crossed
      BY <1>0, <1>1, <1>6, <2>2, WriteMeans
    <3> QED BY <1>1, <1>3, <3>1 DEF ReviewInv, Follows
  <2> QED BY <2>1, <2>2
<1>7. TypeOK'
  BY <1>1, TypesKept DEF Next, Serve
<1> QED BY <1>5, <1>6, <1>7 DEF ReviewInv

LEMMA ApprovalFollows ==
  ASSUME ReviewInv, NEW h \in Handlers, ApproveCommit(h)
  PROVE  ReviewInv'
<1>1. /\ hand[h].op = "approve" /\ TypeOK /\ TypeOK' /\ now' = now
      /\ Write(h, "approved") /\ Finish(h)
  BY TypesKept DEF ApproveCommit, ReviewInv, Next, Serve
<1>2. PICK q \in Wanted : hand[h].req = q
  BY <1>1, HandFacts
<1>3. hand[h].from = "pending" /\ hand[h].picked \subseteq Slots /\ hand[h].picked # {}
  BY <1>1, HandFacts DEF ApproveCommit, ReviewInv, Remembers
<1>4. /\ \A p \in Wanted : p # q => series'[p] = series[p]
      /\ \A s \in hand[h].picked : series'[q][s] = "confirmed"
  BY <1>1, <1>2, <1>3 DEF ApproveCommit, TypeOK
<1>5. \A k \in Handlers : Remembers(k)'
  BY <1>1, <1>2, <1>3, <1>4, OthersRemember
<1>6. ASSUME NEW p \in Wanted \ crossed' PROVE Follows(p)'
  <2>1. CASE p = q
    <3>1. request'[p] = "approved"
      BY <1>1, <1>2, <2>1, WriteMeans
    <3>2. \E s \in Slots : series'[p][s] # "none"
      BY <1>3, <1>4, <2>1
    <3> QED BY <3>1, <3>2 DEF Follows
  <2>2. CASE p # q
    <3>1. request'[p] = request[p] /\ p \notin crossed
      BY <1>1, <1>2, <1>6, <2>2, WriteMeans
    <3>2. series'[p] = series[p] /\ Future(p)' = Future(p)
      BY <1>1, <1>4, <2>2 DEF Future
    <3> QED BY <3>1, <3>2 DEF ReviewInv, Follows
  <2> QED BY <2>1, <2>2
<1> QED BY <1>1, <1>5, <1>6 DEF ReviewInv

LEMMA CancellationFollows ==
  ASSUME ReviewInv, NEW h \in Handlers, CancelCommit(h)
  PROVE  ReviewInv'
<1>1. /\ hand[h].op = "cancelTx" /\ TypeOK /\ TypeOK' /\ now' = now
      /\ Write(h, "cancelled") /\ Finish(h)
  BY TypesKept DEF CancelCommit, ReviewInv, Next, Serve
<1>2. PICK q \in Wanted : hand[h].req = q
  BY <1>1, HandFacts
<1>3. /\ \A p \in Wanted : p # q => series'[p] = series[p]
      /\ \A s \in Slots : series'[q][s] = IF s \in hand[h].picked THEN "cancelled" ELSE series[q][s]
  BY <1>1, <1>2 DEF CancelCommit, TypeOK
<1>4. Future(q)' \subseteq Future(q) \ hand[h].picked
  BY <1>1, <1>3 DEF Future
<1>5. \A k \in Handlers : Remembers(k)'
  BY <1>1, <1>2, <1>3, <1>4, OthersRemember
<1>6. ASSUME NEW p \in Wanted \ crossed' PROVE Follows(p)'
  <2>1. CASE p = q
    <3>1. request'[p] = "cancelled" /\ request[p] = hand[h].from /\ p \notin crossed
      BY <1>1, <1>2, <1>6, <2>1, WriteMeans
    <3>2. Future(p) \subseteq hand[h].picked
      BY <1>1, <1>2, <2>1, <3>1 DEF ReviewInv, Remembers
    <3>3. Future(p)' = {}
      BY <1>4, <2>1, <3>2
    <3> QED BY <3>1, <3>3 DEF Follows
  <2>2. CASE p # q
    <3>1. request'[p] = request[p] /\ p \notin crossed
      BY <1>1, <1>2, <1>6, <2>2, WriteMeans
    <3>2. series'[p] = series[p] /\ Future(p)' = Future(p)
      BY <1>1, <1>3, <2>2 DEF Future
    <3> QED BY <3>1, <3>2 DEF ReviewInv, Follows
  <2> QED BY <2>1, <2>2
<1> QED BY <1>1, <1>5, <1>6 DEF ReviewInv

(* Checking in or cancelling one booking takes it out of what is to come.  *)
LEMMA OneBookingFollows ==
  ASSUME ReviewInv, NEW q \in Wanted, NEW s \in Slots, CheckIn(q, s) \/ CancelOne(q, s)
  PROVE  ReviewInv'
<1>1. /\ TypeOK /\ TypeOK' /\ UNCHANGED <<request, crossed, now, hand>>
      /\ \E to \in {"checked_in", "cancelled"} : series' = [series EXCEPT ![q][s] = to]
  BY TypesKept DEF CheckIn, CancelOne, ReviewInv, Next
<1>2. ASSUME NEW p \in Wanted
      PROVE  /\ Future(p)' \subseteq Future(p)
             /\ \A t \in Slots : series'[p][t] = "none" => series[p][t] = "none"
  BY <1>1 DEF Future, TypeOK
<1>3. ASSUME NEW p \in Wanted \ crossed' PROVE Follows(p)'
  BY <1>1, <1>2 DEF ReviewInv, Follows
<1>4. ASSUME NEW h \in Handlers PROVE Remembers(h)'
  <2>1. CASE hand[h].op = "idle"
    BY <1>1, <2>1 DEF Remembers
  <2>2. CASE hand[h].op # "idle"
    <3>1. PICK p \in Wanted : hand[h].req = p
      BY <1>1, <2>2, HandFacts
    <3>2. Future(p)' \subseteq Future(p)
      BY <1>2
    <3>3. Remembers(h)
      BY DEF ReviewInv
    <3> QED BY <1>1, <2>2, <3>1, <3>2, <3>3 DEF Remembers
  <2> QED BY <2>1, <2>2
<1> QED BY <1>1, <1>3, <1>4 DEF ReviewInv

(* A series is booked if and only if its request is approved, unless two   *)
(* reviews of the request overlapped: approveRecurringRequest,             *)
(* rejectRecurringRequest and cancelRecurringRequest check a status they   *)
(* do not look at again, so the theorem says where that is enough.         *)
THEOREM SeriesKeepsToRequest == Spec => []SeriesFollowsRequest
<1>1. Init => ReviewInv
  <2> SUFFICES ASSUME Init PROVE ReviewInv
    OBVIOUS
  <2>1. TypeOK
    BY CalendarAssumption DEF Init, TypeOK, Status, SlotState, BookingState, Hand
  <2>2. \A h \in Handlers : Remembers(h)
    BY DEF Init, Remembers, Idle
  <2>3. \A q \in Wanted : Follows(q)
    BY DEF Init, Follows, Future
  <2> QED BY <2>1, <2>2, <2>3 DEF ReviewInv
<1>2. ReviewInv /\ [Next]_vars => ReviewInv'
  <2> SUFFICES ASSUME ReviewInv, [Next]_vars PROVE ReviewInv'
    OBVIOUS
  <2>1. TypeOK'
    BY TypesKept DEF ReviewInv
  <2>2. ASSUME NEW h \in Handlers, NEW q \in Wanted,
               SubmitRead(h, q) \/ ApproveRead(h, q) \/ RejectRead(h, q) \/ CancelRead(h, q)
        PROVE  ReviewInv'
    <3>1. UNCHANGED <<request, series, crossed, now>>
      BY <2>2 DEF SubmitRead, ApproveRead, RejectRead, CancelRead
    <3> QED BY <2>1, <2>2, <3>1, Begins, QuietKeeps DEF ReviewInv
  <2>3. ASSUME NEW h \in Handlers, Generate(h) \/ ApproveDate(h) \/ CancelFind(h) \/ Fails(h)
        PROVE  ReviewInv'
    <3>1. UNCHANGED <<request, series, crossed, now>>
      BY <2>3 DEF Generate, ApproveDate, CancelFind, Fails
    <3> QED BY <2>1, <2>3, <3>1, GoesOn, QuietKeeps DEF ReviewInv
  <2>4. ASSUME NEW s \in Slots, GuestLocks(s) \/ LockEnds(s) \/ GuestBooks(s) \/ GuestCancels(s)
        PROVE  ReviewInv'
    <3>1. UNCHANGED <<request, series, crossed, now, hand>>
      BY <2>4 DEF GuestLocks, LockEnds, GuestBooks, GuestCancels
    <3> QED BY <2>1, <3>1, QuietKeeps DEF ReviewInv
  <2>5. CASE TimePasses
    <3>1. UNCHANGED <<request, series, crossed, hand>> /\ now' = now + 1
      BY <2>5 DEF TimePasses
    <3> QED BY <2>1, <2>5, <3>1, QuietKeeps DEF ReviewInv
  <2>6. CASE UNCHANGED vars
    <3>1. UNCHANGED <<request, series, crossed, now, hand>>
      BY <2>6 DEF vars
    <3> QED BY <2>1, <3>1, QuietKeeps DEF ReviewInv
  <2> QED
    BY <2>2, <2>3, <2>4, <2>5, <2>6, WritesFollow, ApprovalFollows, CancellationFollows,
       OneBookingFollows DEF Next, Serve
<1>3. ReviewInv => SeriesFollowsRequest
  BY DEF ReviewInv, Follows, SeriesFollowsRequest
<1> QED BY <1>1, <1>2, <1>3, PTL DEF Spec
-----------------------------------------------------------------------------
(* Windows are booked whole. *)

PickedOn(h, d) == {s \in hand[h].picked : DateOf[s] = d}

(* What an approval under way has picked on a date is the window or nothing, *)
(* and nothing as long as the date is still to be looked at; and a           *)
(* cancellation has picked what is booked or was.                            *)
Picks(h) ==
  /\ hand[h].op \in {"generate", "approve"} =>
       \A d \in Dates : /\ PickedOn(h, d) \in {{}, Window[hand[h].req][d]}
                        /\ d \in hand[h].dates => PickedOn(h, d) = {}
  /\ hand[h].op = "cancelTx" => \A s \in hand[h].picked : series[hand[h].req][s] # "none"

(* Bookings are rows: none of them is deleted. *)
LEMMA BookedOnce ==
  ASSUME TypeOK, [Next]_vars, NEW q \in Wanted, NEW s \in Slots, series[q][s] # "none"
  PROVE  series'[q][s] # "none"
<1>1. ASSUME NEW h \in Handlers, ApproveCommit(h) \/ CancelCommit(h) PROVE series'[q][s] # "none"
  <2>1. hand[h].req \in Wanted
    BY <1>1, HandFacts DEF ApproveCommit, CancelCommit
  <2> QED BY <1>1, <2>1 DEF ApproveCommit, CancelCommit, TypeOK
<1>2. ASSUME NEW p \in Wanted, NEW t \in Slots, CheckIn(p, t) \/ CancelOne(p, t)
      PROVE  series'[q][s] # "none"
  BY <1>2 DEF CheckIn, CancelOne, TypeOK
<1>3. ASSUME NEW h \in Handlers, Serve(h), ~ ApproveCommit(h), ~ CancelCommit(h) PROVE UNCHANGED series
  BY <1>3 DEF Serve, SubmitRead, ApproveRead, RejectRead, CancelRead, SubmitCommit, RejectCommit,
              Generate, ApproveDate, CancelFind, Fails
<1>4. ASSUME NEW t \in Slots, GuestLocks(t) \/ LockEnds(t) \/ GuestBooks(t) \/ GuestCancels(t)
      PROVE  UNCHANGED series
  BY <1>4 DEF GuestLocks, LockEnds, GuestBooks, GuestCancels
<1>5. TimePasses \/ UNCHANGED vars => UNCHANGED series
  BY DEF TimePasses, vars
<1> QED BY <1>1, <1>2, <1>3, <1>4, <1>5 DEF Next

(* A handler that does not move keeps its picks. *)
LEMMA PicksStay ==
  ASSUME TypeOK, [Next]_vars, NEW h \in Handlers, Picks(h), hand'[h] = hand[h]
  PROVE  Picks(h)'
<1>1. CASE hand[h].op = "cancelTx"
  <2>1. hand[h].req \in Wanted /\ hand[h].picked \subseteq Slots
    BY <1>1, HandFacts
  <2>2. \A s \in hand[h].picked : series'[hand[h].req][s] # "none"
    BY <1>1, <2>1, BookedOnce DEF Picks
  <2> QED BY <1>1, <2>2 DEF Picks
<1>2. CASE hand[h].op # "cancelTx"
  BY <1>2 DEF Picks, PickedOn
<1> QED BY <1>1, <1>2

(* evaluateWindow gives all of the window or nothing. *)
LEMMA WindowWhole ==
  ASSUME NEW q \in Wanted, NEW d \in Dates
  PROVE  /\ Free(q, d) \in {{}, Window[q][d]}
         /\ \A s \in Free(q, d) : DateOf[s] = d
BY CalendarAssumption DEF Free, Dates

LEMMA PicksWhole ==
  ASSUME TypeOK, NEW h \in Handlers, Picks(h), ApproveDate(h)
  PROVE  Picks(h)' /\ \A k \in Handlers : k # h => hand'[k] = hand[k]
<1>1. PICK d \in hand[h].dates :
        hand' = [hand EXCEPT ![h].dates = @ \ {d}, ![h].picked = @ \cup Free(hand[h].req, d)]
  BY DEF ApproveDate
<1>2. /\ hand[h] \in [op : Op, req : Wanted, from : Status, dates : SUBSET Dates, picked : SUBSET Slots]
      /\ hand[h].req \in Wanted /\ d \in Dates /\ hand[h].op = "approve"
  BY <1>1, HandFacts DEF ApproveDate
<1>3. /\ hand'[h].op = "approve" /\ hand'[h].req = hand[h].req
      /\ hand'[h].dates = hand[h].dates \ {d}
      /\ hand'[h].picked = hand[h].picked \cup Free(hand[h].req, d)
  BY <1>1, <1>2 DEF TypeOK
<1>4. \A k \in Handlers : k # h => hand'[k] = hand[k]
  BY <1>1 DEF TypeOK
<1>5. ASSUME NEW e \in Dates
      PROVE  /\ PickedOn(h, e)' \in {{}, Window[hand[h].req][e]}
             /\ e \in hand'[h].dates => PickedOn(h, e)' = {}
  <2>1. /\ PickedOn(h, e) \in {{}, Window[hand[h].req][e]}
        /\ e \in hand[h].dates => PickedOn(h, e) = {}
    BY <1>2 DEF Picks
  <2>2. CASE e = d
    <3>1. PickedOn(h, d)' = Free(hand[h].req, d)
      BY <1>2, <1>3, <2>1, <2>2, WindowWhole DEF PickedOn
    <3> QED BY <1>2, <1>3, <2>2, <3>1, WindowWhole
  <2>3. CASE e # d
    <3>1. PickedOn(h, e)' = PickedOn(h, e)
      BY <1>2, <1>3, <2>3, WindowWhole DEF PickedOn
    <3> QED BY <1>3, <2>1, <2>3, <3>1
  <2> QED BY <2>2, <2>3
<1>6. Picks(h)'
  BY <1>3, <1>5 DEF Picks
<1> QED BY <1>4, <1>6

LEMMA WholeKept ==
  ASSUME TypeOK, \A h \in Handlers : Picks(h), [Next]_vars
  PROVE  \A h \in Handlers : Picks(h)'
<1> DEFINE Others(h) == \A k \in Handlers : k # h => hand'[k] = hand[k]
<1>1. ASSUME NEW h \in Handlers, Picks(h)', Others(h) PROVE \A k \in Handlers : Picks(k)'
  BY <1>1, PicksStay
<1>2. ASSUME NEW h \in Handlers, Finish(h) PROVE \A k \in Handlers : Picks(k)'
  <2>1. hand'[h] = Idle /\ Others(h)
    BY <1>2 DEF Finish, TypeOK
  <2>2. Picks(h)'
    BY <2>1 DEF Picks, Idle
  <2> QED BY <1>1, <2>1, <2>2
<1>3. ASSUME NEW h \in Handlers, NEW op \in Op, NEW q, NEW from, NEW dates, Start(h, op, q, from, dates),
             op # "cancelTx"
      PROVE  \A k \in Handlers : Picks(k)'
  <2>1. hand'[h].op = op /\ hand'[h].picked = {} /\ Others(h)
    BY <1>3 DEF Start, TypeOK
  <2>2. Picks(h)'
    BY <1>3, <2>1 DEF Picks, PickedOn
  <2> QED BY <1>1, <2>1, <2>2
<1>4. ASSUME NEW h \in Handlers, Generate(h) PROVE \A k \in Handlers : Picks(k)'
  <2>1. hand[h] \in [op : Op, req : Wanted, from : Status, dates : SUBSET Dates, picked : SUBSET Slots]
    BY <1>4, HandFacts DEF Generate
  <2>2. /\ hand'[h].op = "approve" /\ hand'[h].req = hand[h].req /\ hand'[h].dates = hand[h].dates
        /\ hand'[h].picked = hand[h].picked /\ Others(h)
    BY <1>4, <2>1 DEF Generate, TypeOK
  <2>3. Picks(h)'
    BY <1>4, <2>2 DEF Generate, Picks, PickedOn
  <2> QED BY <1>1, <2>2, <2>3
<1>5. ASSUME NEW h \in Handlers, ApproveDate(h) PROVE \A k \in Handlers : Picks(k)'
  BY <1>1, <1>5, PicksWhole
<1>6. ASSUME NEW h \in Handlers, CancelFind(h) PROVE \A k \in Handlers : Picks(k)'
  <2>1. hand[h] \in [op : Op, req : Wanted, from : Status, dates : SUBSET Dates, picked : SUBSET Slots]
    BY <1>6, HandFacts DEF CancelFind
  <2>2. /\ hand'[h].op = "cancelTx" /\ hand'[h].req = hand[h].req
        /\ hand'[h].picked = Future(hand[h].req) /\ Others(h)
    BY <1>6, <2>1 DEF CancelFind, TypeOK
  <2>3. Picks(h)'
    BY <1>6, <2>2 DEF CancelFind, Picks, Future
  <2> QED BY <1>1, <2>2, <2>3
<1>7. ASSUME NEW h \in Handlers, Serve(h) PROVE \A k \in Handlers : Picks(k)'
  <2>1. {"submit", "generate", "reject", "cancel"} \subseteq Op \ {"cancelTx"}
    BY DEF Op
  <2> QED BY <1>2, <1>3, <1>4, <1>5, <1>6, <1>7, <2>1
          DEF Serve, SubmitRead, ApproveRead, RejectRead, CancelRead, SubmitCommit, RejectCommit,
              ApproveCommit, CancelCommit, Fails
<1>8. CASE UNCHANGED hand
  BY <1>8, PicksStay
<1>9. ASSUME NEW s \in Slots, GuestLocks(s) \/ LockEnds(s) \/ GuestBooks(s) \/ GuestCancels(s)
      PROVE  UNCHANGED hand
  BY <1>9 DEF GuestLocks, LockEnds, GuestBooks, GuestCancels
<1>10. ASSUME NEW q \in Wanted, NEW s \in Slots, CheckIn(q, s) \/ CancelOne(q, s)
       PROVE  UNCHANGED hand
  BY <1>10 DEF CheckIn, CancelOne
<1>11. TimePasses \/ UNCHANGED vars => UNCHANGED hand
  BY DEF TimePasses, vars
<1> QED BY <1>7, <1>8, <1>9, <1>10, <1>11 DEF Next

(* What a step books of a request on a date. *)
Gained(q, d) == {s \in Slots : DateOf[s] = d /\ series[q][s] = "none" /\ series'[q][s] # "none"}

LEMMA BooksWhole ==
  ASSUME TypeOK, \A h \in Handlers : Picks(h), [Next]_vars, NEW q \in Wanted, NEW d \in Dates
  PROVE  Gained(q, d) \in {{}, Window[q][d]}
<1>1. ASSUME NEW h \in Handlers, ApproveCommit(h) PROVE Gained(q, d) \in {{}, Window[q][d]}
  <2>1. hand[h].req \in Wanted /\ hand[h].picked \subseteq Slots /\ hand[h].op = "approve"
    BY <1>1, HandFacts DEF ApproveCommit
  <2>2. CASE q # hand[h].req
    BY <1>1, <2>1, <2>2 DEF ApproveCommit, TypeOK, Gained
  <2>3. CASE q = hand[h].req
    <3>1. /\ \A s \in hand[h].picked : series[q][s] = "none"
          /\ \A s \in Slots : series'[q][s] = IF s \in hand[h].picked THEN "confirmed" ELSE series[q][s]
      BY <1>1, <2>1, <2>3 DEF ApproveCommit, TypeOK
    <3>2. Gained(q, d) = PickedOn(h, d)
      BY <2>1, <3>1 DEF Gained, PickedOn
    <3> QED BY <2>1, <2>3, <3>2 DEF Picks
  <2> QED BY <2>2, <2>3
<1>2. ASSUME NEW h \in Handlers, CancelCommit(h) PROVE Gained(q, d) = {}
  <2>1. hand[h].req \in Wanted /\ hand[h].op = "cancelTx" /\ Picks(h)
    BY <1>2, HandFacts DEF CancelCommit
  <2>2. CASE q # hand[h].req
    BY <1>2, <2>1, <2>2 DEF CancelCommit, TypeOK, Gained
  <2>3. CASE q = hand[h].req
    <3>1. \A s \in hand[h].picked : series[q][s] # "none"
      BY <2>1, <2>3 DEF Picks
    <3>2. \A s \in Slots : series'[q][s] = IF s \in hand[h].picked THEN "cancelled" ELSE series[q][s]
      BY <1>2, <2>1, <2>3 DEF CancelCommit, TypeOK
    <3> QED BY <3>1, <3>2 DEF Gained
  <2> QED BY <2>2, <2>3
<1>3. ASSUME NEW p \in Wanted, NEW t \in Slots, CheckIn(p, t) \/ CancelOne(p, t)
      PROVE  Gained(q, d) = {}
  BY <1>3 DEF CheckIn, CancelOne, TypeOK, Gained
<1>4. UNCHANGED series => Gained(q, d) = {}
  BY DEF Gained
<1>5. ASSUME NEW h \in Handlers, Serve(h), ~ ApproveCommit(h), ~ CancelCommit(h) PROVE UNCHANGED series
  BY <1>5 DEF Serve, SubmitRead, ApproveRead, RejectRead, CancelRead, SubmitCommit, RejectCommit,
              Generate, ApproveDate, CancelFind, Fails
<1>6. ASSUME NEW t \in Slots, GuestLocks(t) \/ LockEnds(t) \/ GuestBooks(t) \/ GuestCancels(t)
      PROVE  UNCHANGED series
  BY <1>6 DEF GuestLocks, LockEnds, GuestBooks, GuestCancels
<1>7. TimePasses \/ UNCHANGED vars => UNCHANGED series
  BY DEF TimePasses, vars
<1> QED BY <1>1, <1>2, <1>3, <1>4, <1>5, <1>6, <1>7 DEF Next

(* Approval books a window whole or not at all, on every date: what it saw *)
(* free when it locked the day is what it books when it commits, whatever  *)
(* dates come in between, and no other step adds to a series.              *)
THEOREM WindowsAreWhole == Spec => WholeWindows
<1> DEFINE Inv == TypeOK /\ \A h \in Handlers : Picks(h)
           Whole == \A q \in Wanted, d \in Dates :
                      LET new == {s \in Slots : DateOf[s] = d /\ series[q][s] = "none"
                                                            /\ series'[q][s] # "none"}
                      IN  new \in {{}, Window[q][d]}
<1>1. Init => Inv
  <2>1. Init => TypeOK
    BY CalendarAssumption DEF Init, TypeOK, Status, SlotState, BookingState, Hand
  <2> QED BY <2>1 DEF Init, Picks, Idle
<1>2. Inv /\ [Next]_vars => Inv'
  BY TypesKept, WholeKept
<1>3. Inv /\ [Next]_vars => Whole
  BY BooksWhole DEF Gained
<1>4. Spec => [][Whole]_vars
  BY <1>1, <1>2, <1>3, PTL DEF Spec
<1> QED BY <1>4, PTL DEF WholeWindows
=============================================================================
