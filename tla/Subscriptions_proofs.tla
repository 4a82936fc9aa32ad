------------------------ MODULE Subscriptions_proofs ------------------------
(***************************************************************************)
(* Theorems of Subscriptions for any plans, prices, cycles, periods,       *)
(* invoices and number of requests served at once: the types, no period is *)
(* invoiced twice, and what was paid is never voided.                      *)
(***************************************************************************)
EXTENDS Subscriptions, TLAPS

(* What most arguments need of the types: the shape of the records.        *)
AnyInvoice == [status : {"none", "pending", "paid", "void"}, plan : Plans, cycle : Cycles,
               start : Int, end : Int, renewal : BOOLEAN]
AnyHand == [at : {"idle", "schedule", "trial", "invoice", "clear", "pay"}, plan : Plans, cycle : Cycles,
            time : Int, free : BOOLEAN, paying : Invoices \cup {None}]
AnyJob == [at : {"idle", "suspend", "downgrade", "look", "create", "move"}, plan : Plans,
           cycle : Cycles, base : Int, moves : BOOLEAN]
AnyCompany == [plan : Plans, cycle : Cycles, expires : Int, scheduled : Plans \cup {None},
               status : {"active", "suspended"}, trialUsed : BOOLEAN]
Shape ==
  /\ company \in AnyCompany
  /\ invoice \in [Invoices -> AnyInvoice]
  /\ hand \in [Staff -> AnyHand]
  /\ job \in AnyJob

LEMMA Times ==
  /\ Old \in Int /\ Old < -Grace /\ -Grace < 0
  /\ \A t \in Int : Age(t) \in Int
  /\ \A t \in Int, c \in Cycles : PeriodEnd(t, c) \in Int
BY SubscriptionAssumption DEF Old, Age, PeriodEnd

LEMMA Blank == NoInvoice \in AnyInvoice /\ Idle \in AnyHand /\ IdleJob \in AnyJob
BY SubscriptionAssumption, Times DEF NoInvoice, AnyInvoice, Idle, AnyHand, IdleJob, AnyJob

(* An invoice is issued over a row of the model and pending.               *)
LEMMA Issued ==
  ASSUME Shape, NEW i \in Invoices, NEW p \in Plans, NEW c \in Cycles, NEW t \in Int,
         NEW r \in BOOLEAN, Issue(i, p, c, t, r)
  PROVE  /\ invoice' \in [Invoices -> AnyInvoice]
         /\ invoice'[i].start = t /\ invoice'[i].renewal = r
         /\ \A j \in Invoices : j # i => invoice'[j] = invoice[j]
<1>1. PeriodEnd(t, c) \in Int
  BY Times
<1> QED BY <1>1 DEF Issue, Shape, AnyInvoice

(* createManualInvoice issues one that begins now.                         *)
LEMMA IssuedNow ==
  ASSUME Shape, NEW i \in Invoices, NEW p \in Plans, NEW c \in Cycles, Issue(i, p, c, 0, FALSE)
  PROVE  /\ invoice' \in [Invoices -> AnyInvoice]
         /\ ~ invoice'[i].renewal
         /\ \A j \in Invoices : j # i => invoice'[j] = invoice[j]
<1>1. PeriodEnd(0, c) \in Int
  BY Times
<1> QED BY <1>1 DEF Issue, Shape, AnyInvoice

LEMMA ShapeKept ==
  ASSUME Shape, [Next]_vars
  PROVE  Shape'
<1>0. /\ company \in AnyCompany /\ invoice \in [Invoices -> AnyInvoice]
      /\ hand \in [Staff -> AnyHand] /\ job \in AnyJob
  BY DEF Shape
<1>1. ASSUME NEW h \in Staff, NEW p \in Plans, NEW c \in Cycles, UpgradeRead(h, p, c) PROVE Shape'
  <2>1. Decision(p) \in {"schedule", "trial", "invoice"} /\ CreditCovers(p, c) \in BOOLEAN
    BY DEF Decision, CreditCovers
  <2>2. [at |-> Decision(p), plan |-> p, cycle |-> c, time |-> 0, free |-> CreditCovers(p, c),
         paying |-> None] \in AnyHand
    BY <2>1 DEF AnyHand
  <2> QED BY <1>0, <1>1, <2>2 DEF UpgradeRead, Shape
<1>2. ASSUME NEW h \in Staff, CancelRead(h) PROVE Shape'
  <2>1. [Idle EXCEPT !.at = "schedule"] \in AnyHand
    BY Blank DEF AnyHand
  <2> QED BY <1>0, <1>2, <2>1 DEF CancelRead, Shape
<1>3. ASSUME NEW h \in Staff, SchedulePlan(h) PROVE Shape'
  BY <1>0, <1>3, Blank DEF SchedulePlan, Shape, AnyCompany, AnyHand
<1>4. ASSUME NEW h \in Staff, GrantTrial(h) PROVE Shape'
  <2>1. hand[h].time \in Int /\ hand[h].plan \in Plans /\ hand[h].cycle \in Cycles
    BY <1>0 DEF AnyHand
  <2>2. hand[h].time + Trial[hand[h].plan] \in Int
    BY <2>1, SubscriptionAssumption
  <2>3. company' \in AnyCompany
    BY <1>0, <1>4, <2>1, <2>2 DEF GrantTrial, AnyCompany
  <2> QED BY <1>0, <1>4, <2>3, Blank DEF GrantTrial, Shape
<1>5. ASSUME NEW h \in Staff, MakeInvoice(h) PROVE Shape'
  <2>1. PICK i \in Reusable :
          /\ Issue(i, hand[h].plan, hand[h].cycle, hand[h].time, FALSE)
          /\ hand' = [hand EXCEPT ![h].at = "clear", ![h].paying = i,
                                  ![h].time = PeriodEnd(hand[h].time, hand[h].cycle)]
    BY <1>5 DEF MakeInvoice
  <2>2. hand[h].time \in Int /\ hand[h].plan \in Plans /\ hand[h].cycle \in Cycles /\ i \in Invoices
    BY <1>0, <2>1 DEF AnyHand, Reusable
  <2>3. invoice' \in [Invoices -> AnyInvoice]
    BY <2>1, <2>2, Issued
  <2>4. PeriodEnd(hand[h].time, hand[h].cycle) \in Int
    BY <2>2, Times
  <2> DEFINE later == PeriodEnd(hand[h].time, hand[h].cycle)
  <2>5. hand' = [hand EXCEPT ![h].at = "clear", ![h].paying = i, ![h].time = later] /\ later \in Int
    BY <2>1, <2>4
  <2> HIDE DEF later
  <2>6. hand' \in [Staff -> AnyHand]
    BY <1>0, <2>2, <2>5 DEF AnyHand
  <2> QED BY <1>0, <1>5, <2>3, <2>6 DEF MakeInvoice, Shape
<1>6. ASSUME NEW h \in Staff, ClearSchedule(h) PROVE Shape'
  <2>1. company' \in AnyCompany
    BY <1>0, <1>6 DEF ClearSchedule, AnyCompany
  <2>2. [hand[h] EXCEPT !.at = "pay", !.free = FALSE] \in AnyHand
    BY <1>0 DEF AnyHand
  <2>3. hand' \in [Staff -> AnyHand]
    BY <1>0, <1>6, <2>2, Blank DEF ClearSchedule
  <2> QED BY <1>0, <1>6, <2>1, <2>3 DEF ClearSchedule, Shape
<1>7. ASSUME NEW h \in Staff, NEW i \in Invoices, PayRead(h, i) PROVE Shape'
  <2>1. [at |-> "pay", plan |-> invoice[i].plan, cycle |-> invoice[i].cycle,
         time |-> invoice[i].end, free |-> FALSE, paying |-> i] \in AnyHand
    BY <1>0 DEF AnyHand, AnyInvoice
  <2> QED BY <1>0, <1>7, <2>1 DEF PayRead, Shape
<1>8. ASSUME NEW h \in Staff, Pay(h) PROVE Shape'
  <2>1. PaidInvoice \in AnyInvoice
    BY Blank DEF PaidInvoice, AnyInvoice
  <2>2. invoice' \in [Invoices -> AnyInvoice]
    BY <1>0, <1>8, <2>1 DEF Pay
  <2>3. company' \in AnyCompany
    BY <1>0, <1>8 DEF Pay, Paid, AnyCompany, AnyHand
  <2> QED BY <1>0, <1>8, <2>2, <2>3, Blank DEF Pay, Shape
<1>9. ASSUME NEW h \in Staff, Fails(h) PROVE Shape'
  BY <1>0, <1>9, Blank DEF Fails, Shape
<1>10. CASE AdminEdits
  BY <1>0, <1>10 DEF AdminEdits, AdminEdit, Shape, AnyCompany
<1>11. ASSUME NEW p \in Plans, NEW c \in Cycles, AdminInvoice(p, c) PROVE Shape'
  <2>1. invoice' \in [Invoices -> AnyInvoice]
    <3>1. PICK i \in Invoices : Issue(i, p, c, 0, FALSE)
      BY <1>11 DEF AdminInvoice, Reusable
    <3> QED BY <3>1, IssuedNow
  <2> QED BY <1>0, <1>11, <2>1 DEF AdminInvoice, Shape
<1>12. CASE JobRead
  <2>1. Verdict \in {"look", "suspend", "downgrade"}
    BY DEF Verdict
  <2>2. [IdleJob EXCEPT !.at = Verdict] \in AnyJob
    BY <2>1, Blank DEF AnyJob
  <2>3. [at |-> Verdict, plan |-> IF company.scheduled = None THEN company.plan ELSE company.scheduled,
         cycle |-> company.cycle, base |-> company.expires, moves |-> company.scheduled # None] \in AnyJob
    BY <1>0, <2>1 DEF AnyJob, AnyCompany
  <2>4. job' \in AnyJob
    BY <1>12, <2>2, <2>3 DEF JobRead
  <2> QED BY <1>0, <1>12, <2>4 DEF JobRead, Shape
<1>13. CASE JobSuspend
  BY <1>0, <1>13, Blank DEF JobSuspend, Shape, AnyCompany
<1>14. CASE JobDowngrade
  <2>1. \A i \in Invoices : VoidInvoice(i) \in AnyInvoice
    BY <1>0, Times DEF VoidInvoice, AnyInvoice
  <2>2. invoice' \in [Invoices -> AnyInvoice]
    BY <1>0, <1>14, <2>1 DEF JobDowngrade
  <2>3. PeriodEnd(job.base, "monthly") \in Int
    BY <1>0, Times, SubscriptionAssumption DEF AnyJob
  <2>4. company' \in AnyCompany
    BY <1>0, <1>14, <2>3, SubscriptionAssumption DEF JobDowngrade, AnyCompany
  <2> QED BY <1>0, <1>14, <2>2, <2>4, Blank DEF JobDowngrade, Shape
<1>15. CASE JobLook
  <2>1. [job EXCEPT !.at = "create"] \in AnyJob
    BY <1>0 DEF AnyJob
  <2> QED BY <1>0, <1>15, <2>1, Blank DEF JobLook, Shape
<1>16. CASE JobCreate
  <2>1. invoice' \in [Invoices -> AnyInvoice]
    BY <1>0, <1>16, Issued DEF JobCreate, Reusable, AnyJob
  <2>2. [job EXCEPT !.at = "move"] \in AnyJob
    BY <1>0 DEF AnyJob
  <2> QED BY <1>0, <1>16, <2>1, <2>2, Blank DEF JobCreate, Shape
<1>17. CASE JobMove
  BY <1>0, <1>17, Blank DEF JobMove, Shape, AnyCompany, AnyJob
<1>18. CASE JobFails
  BY <1>0, <1>18, Blank DEF JobFails, Shape
<1>19. CASE Tick
  <2>1. company' \in AnyCompany
    BY <1>0, <1>19, Times DEF Tick, AnyCompany
  <2>2. \A i \in Invoices : [invoice[i] EXCEPT !.start = Age(@), !.end = Age(@)] \in AnyInvoice
    <3> SUFFICES ASSUME NEW i \in Invoices
                 PROVE  [invoice[i] EXCEPT !.start = Age(@), !.end = Age(@)] \in AnyInvoice
      OBVIOUS
    <3> DEFINE a == Age(invoice[i].start)  b == Age(invoice[i].end)
    <3>1. a \in Int /\ b \in Int
      BY <1>0, Times DEF AnyInvoice
    <3> HIDE DEF a, b
    <3>2. [invoice[i] EXCEPT !.start = a, !.end = b] \in AnyInvoice
      BY <1>0, <3>1 DEF AnyInvoice
    <3> QED BY <3>2 DEF a, b
  <2>3. invoice' \in [Invoices -> AnyInvoice]
    BY <1>19, <2>2 DEF Tick
  <2>4. \A h \in Staff : [hand[h] EXCEPT !.time = Age(@)] \in AnyHand
    BY <1>0, Times DEF AnyHand
  <2>5. hand' \in [Staff -> AnyHand]
    BY <1>0, <1>19, <2>4 DEF Tick
  <2>6. [job EXCEPT !.base = Age(@)] \in AnyJob
    BY <1>0, Times DEF AnyJob
  <2>7. job' \in AnyJob
    BY <1>19, <2>6, Blank DEF Tick
  <2> QED BY <2>1, <2>3, <2>5, <2>7 DEF Shape
<1>20. CASE UNCHANGED vars
  BY <1>0, <1>20 DEF vars, Shape
<1> QED
  BY <1>1, <1>2, <1>3, <1>4, <1>5, <1>6, <1>7, <1>8, <1>9, <1>10, <1>11, <1>12, <1>13, <1>14,
     <1>15, <1>16, <1>17, <1>18, <1>19, <1>20 DEF Next, Serve, JobStep

LEMMA ShapeAtFirst == Init => Shape
BY SubscriptionAssumption, Blank DEF Init, Shape, AnyCompany

-----------------------------------------------------------------------------
(* Times stay within the bounds of the model. *)

(* Every time kept is one of Time; and a period begins, for a request that still has to write its
   invoice and for the job, now or earlier, so that its end is no later than the longest period. *)
InTime ==
  /\ company.expires \in Time
  /\ \A i \in Invoices : invoice[i].start \in Time /\ invoice[i].end \in Time
  /\ \A h \in Staff : hand[h].time \in Time /\ (hand[h].at \in {"trial", "invoice"} => hand[h].time <= 0)
  /\ job.base \in Time /\ job.base <= 0

LEMMA TimesFit ==
  /\ \A t \in Time : t \in Int /\ Age(t) \in Time /\ Age(t) <= t
  /\ Old \in Time /\ 0 \in Time /\ Signup \in Time
  /\ \A t \in Time, s \in Spans : t <= 0 => t + s \in Time
<1> DEFINE last == CHOOSE longest \in Spans : \A span \in Spans : span <= longest
<1>1. last \in Spans /\ \A span \in Spans : span <= last
  BY SubscriptionAssumption
<1>2. Spans \subseteq Nat /\ Signup \in Spans
  BY SubscriptionAssumption DEF Spans
<1>3. Time = Old .. last
  BY DEF Time
<1> HIDE DEF last
<1>4. last \in Nat /\ Old \in Int /\ Old < 0 /\ Signup \in Nat /\ Signup <= last
  BY <1>1, <1>2, SubscriptionAssumption DEF Old
<1>5. \A t \in Time : t \in Int /\ Age(t) \in Time /\ Age(t) <= t
  BY <1>3, <1>4 DEF Age
<1>6. ASSUME NEW t \in Time, NEW s \in Spans, t <= 0 PROVE t + s \in Time
  <2>1. s \in Nat /\ s <= last /\ t \in Int /\ Old <= t
    BY <1>1, <1>2, <1>3, <1>4
  <2> QED BY <1>3, <1>4, <1>6, <2>1
<1>7. Old \in Time /\ 0 \in Time /\ Signup \in Time
  BY <1>3, <1>4
<1> QED BY <1>5, <1>6, <1>7

LEMMA EndsInTime ==
  ASSUME NEW t \in Time, t <= 0
  PROVE  /\ \A c \in Cycles : PeriodEnd(t, c) \in Time
         /\ \A p \in Plans : t + Trial[p] \in Time
<1>1. (\A c \in Cycles : Length[c] \in Spans) /\ \A p \in Plans : Trial[p] \in Spans
  BY DEF Spans
<1>2. \A s \in Spans : t + s \in Time
  BY TimesFit
<1>3. Old \in Time
  BY TimesFit
<1> QED BY <1>1, <1>2, <1>3 DEF PeriodEnd

(* An invoice that is issued for a period that has begun ends in time. *)
LEMMA IssuedInTime ==
  ASSUME Shape, InTime, NEW i \in Invoices, NEW p, NEW c \in Cycles, NEW t \in Time, t <= 0, NEW r,
         Issue(i, p, c, t, r)
  PROVE  \A j \in Invoices : invoice'[j].start \in Time /\ invoice'[j].end \in Time
<1>1. PeriodEnd(t, c) \in Time
  BY EndsInTime
<1> QED BY <1>1 DEF Issue, Shape, InTime

LEMMA RequestsInTime ==
  ASSUME Shape, InTime, NEW h \in Staff, Serve(h)
  PROVE  InTime'
<1>0. /\ hand \in [Staff -> AnyHand] /\ invoice \in [Invoices -> AnyInvoice] /\ company \in AnyCompany
      /\ 0 \in Time /\ Old \in Time /\ Idle.time = 0
  BY TimesFit DEF Shape, Idle
<1>1. CASE Fails(h) \/ CancelRead(h) \/ \E p \in Plans, c \in Cycles : UpgradeRead(h, p, c)
  <2>1. PICK n : hand' = [hand EXCEPT ![h] = n] /\ n.time = 0
    BY <1>0, <1>1 DEF Fails, CancelRead, UpgradeRead, Idle
  <2>2. UNCHANGED <<company, invoice, job>>
    BY <1>1 DEF Fails, CancelRead, UpgradeRead
  <2> QED BY <1>0, <2>1, <2>2 DEF InTime
<1>2. CASE SchedulePlan(h) \/ GrantTrial(h) \/ ClearSchedule(h) \/ Pay(h)
  <2>1. company'.expires \in Time
    <3>1. CASE GrantTrial(h)
      <4>1. hand[h].time \in Time /\ hand[h].time <= 0 /\ hand[h].plan \in Plans
        BY <1>0, <3>1 DEF GrantTrial, InTime, AnyHand
      <4>2. hand[h].time + Trial[hand[h].plan] \in Time
        BY <4>1, EndsInTime
      <4> QED BY <1>0, <3>1, <4>2 DEF GrantTrial, AnyCompany
    <3>2. CASE SchedulePlan(h) \/ ClearSchedule(h) \/ Pay(h)
      BY <1>0, <3>2 DEF SchedulePlan, ClearSchedule, Pay, Paid, AnyCompany, InTime
    <3> QED BY <1>2, <3>1, <3>2
  <2>2. \A i \in Invoices : invoice'[i].start \in Time /\ invoice'[i].end \in Time
    <3>1. CASE Pay(h)
      <4>1. PaidInvoice.start = Old /\ PaidInvoice.end = Old
        BY DEF PaidInvoice, NoInvoice
      <4> QED BY <1>0, <3>1, <4>1 DEF Pay, InTime
    <3>2. CASE SchedulePlan(h) \/ GrantTrial(h) \/ ClearSchedule(h)
      BY <3>2 DEF SchedulePlan, GrantTrial, ClearSchedule, InTime
    <3> QED BY <1>2, <3>1, <3>2
  <2>3. PICK n : /\ hand' = [hand EXCEPT ![h] = n] /\ n.time \in {hand[h].time, 0}
                 /\ n.at \notin {"trial", "invoice"}
    <3>1. /\ [hand[h] EXCEPT !.at = "pay", !.free = FALSE].time = hand[h].time
          /\ [hand[h] EXCEPT !.at = "pay", !.free = FALSE].at = "pay"
      BY <1>0 DEF AnyHand
    <3> QED BY <1>0, <1>2, <3>1 DEF SchedulePlan, GrantTrial, ClearSchedule, Pay, Idle
  <2>4. job' = job
    BY <1>2 DEF SchedulePlan, GrantTrial, ClearSchedule, Pay
  <2> QED BY <1>0, <2>1, <2>2, <2>3, <2>4 DEF InTime
<1>3. CASE MakeInvoice(h)
  <2>1. /\ hand[h].time \in Time /\ hand[h].time <= 0
        /\ hand[h].cycle \in Cycles /\ UNCHANGED <<company, job>>
    BY <1>0, <1>3 DEF MakeInvoice, InTime, AnyHand
  <2> DEFINE later == PeriodEnd(hand[h].time, hand[h].cycle)
  <2>2. PICK i \in Invoices :
          /\ Issue(i, hand[h].plan, hand[h].cycle, hand[h].time, FALSE)
          /\ hand' = [hand EXCEPT ![h].at = "clear", ![h].paying = i, ![h].time = later]
    BY <1>3 DEF MakeInvoice, Reusable
  <2>3. later \in Time
    BY <2>1, EndsInTime
  <2> HIDE DEF later
  <2>4. hand'[h].time = later /\ hand'[h].at = "clear" /\ \A g \in Staff \ {h} : hand'[g] = hand[g]
    BY <1>0, <2>2 DEF AnyHand
  <2>5. \A j \in Invoices : invoice'[j].start \in Time /\ invoice'[j].end \in Time
    BY <2>1, <2>2, IssuedInTime
  <2> QED BY <2>1, <2>3, <2>4, <2>5 DEF InTime
<1>4. ASSUME NEW i \in Invoices, PayRead(h, i) PROVE InTime'
  <2>1. invoice[i].end \in Time
    BY DEF InTime
  <2> QED BY <1>0, <1>4, <2>1 DEF PayRead, InTime
<1> QED BY <1>1, <1>2, <1>3, <1>4 DEF Serve

LEMMA AdminsInTime ==
  ASSUME Shape, InTime, AdminEdits \/ \E p \in Plans, c \in Cycles : AdminInvoice(p, c)
  PROVE  InTime'
<1>1. CASE AdminEdits
  BY <1>1 DEF AdminEdits, AdminEdit, Shape, AnyCompany, InTime
<1>2. ASSUME NEW p \in Plans, NEW c \in Cycles, AdminInvoice(p, c) PROVE InTime'
  <2>1. PICK i \in Invoices : Issue(i, p, c, 0, FALSE)
    BY <1>2 DEF AdminInvoice, Reusable
  <2>2. 0 \in Time /\ 0 <= 0
    BY TimesFit
  <2>3. \A j \in Invoices : invoice'[j].start \in Time /\ invoice'[j].end \in Time
    BY <2>1, <2>2, IssuedInTime
  <2> QED BY <1>2, <2>3 DEF AdminInvoice, InTime
<1> QED BY <1>1, <1>2

LEMMA JobInTime ==
  ASSUME Shape, InTime, JobStep
  PROVE  InTime'
<1>0. /\ job \in AnyJob /\ invoice \in [Invoices -> AnyInvoice] /\ company \in AnyCompany
      /\ 0 \in Time /\ Old \in Time /\ IdleJob.base = 0 /\ job.base \in Time /\ job.base <= 0
  BY TimesFit DEF Shape, IdleJob, InTime
<1>1. job'.base \in Time /\ job'.base <= 0 /\ UNCHANGED hand
  <2>1. CASE JobRead
    <3>1. company.expires \in Time /\ company.expires <= 0
      BY <1>0, <2>1 DEF JobRead, Expired, InForce, AnyCompany, InTime
    <3>2. [IdleJob EXCEPT !.at = Verdict].base = 0
      BY DEF IdleJob
    <3> QED BY <1>0, <2>1, <3>1, <3>2 DEF JobRead
  <2>2. CASE ~JobRead
    <3>1. job'.base \in {0, job.base}
      BY <1>0, <2>2 DEF JobStep, JobSuspend, JobDowngrade, JobLook, JobCreate, JobMove, JobFails, AnyJob
    <3>2. UNCHANGED hand
      BY <2>2 DEF JobStep, JobSuspend, JobDowngrade, JobLook, JobCreate, JobMove, JobFails
    <3> QED BY <1>0, <3>1, <3>2
  <2> QED BY <2>1, <2>2, <1>0 DEF JobRead
<1>2. company'.expires \in Time
  <2>1. PeriodEnd(job.base, "monthly") \in Time
    BY <1>0, EndsInTime, SubscriptionAssumption
  <2> QED BY <1>0, <2>1 DEF JobStep, JobRead, JobSuspend, JobDowngrade, JobLook, JobCreate, JobMove,
                            JobFails, AnyCompany, InTime
<1>3. \A i \in Invoices : invoice'[i].start \in Time /\ invoice'[i].end \in Time
  <2>1. CASE JobCreate
    <3>1. PICK i \in Invoices : Issue(i, job.plan, job.cycle, job.base, TRUE)
      BY <2>1 DEF JobCreate, Reusable
    <3> QED BY <1>0, <3>1, IssuedInTime DEF AnyJob
  <2>2. CASE JobDowngrade
    <3>1. \A i \in Invoices : VoidInvoice(i).start = Old /\ VoidInvoice(i).end = invoice[i].end
      BY <1>0 DEF VoidInvoice, AnyInvoice
    <3> QED BY <1>0, <2>2, <3>1 DEF JobDowngrade, InTime
  <2>3. CASE ~JobCreate /\ ~JobDowngrade
    BY <2>3 DEF JobStep, JobRead, JobSuspend, JobLook, JobMove, JobFails, InTime
  <2> QED BY <2>1, <2>2, <2>3
<1> QED BY <1>1, <1>2, <1>3 DEF InTime

LEMMA TickInTime ==
  ASSUME Shape, InTime, Tick
  PROVE  InTime'
<1>0. /\ company \in AnyCompany /\ invoice \in [Invoices -> AnyInvoice]
      /\ hand \in [Staff -> AnyHand] /\ job \in AnyJob
  BY DEF Shape
<1>1. company'.expires \in Time
  BY <1>0, TimesFit DEF Tick, AnyCompany, InTime
<1>2. ASSUME NEW i \in Invoices PROVE invoice'[i].start \in Time /\ invoice'[i].end \in Time
  <2> DEFINE a == Age(invoice[i].start)  b == Age(invoice[i].end)
  <2>1. invoice'[i] = [invoice[i] EXCEPT !.start = a, !.end = b] /\ invoice[i] \in AnyInvoice
    BY <1>0 DEF Tick
  <2>2. a \in Time /\ b \in Time
    BY TimesFit DEF InTime
  <2> HIDE DEF a, b
  <2> QED BY <2>1, <2>2 DEF AnyInvoice
<1>3. ASSUME NEW h \in Staff
      PROVE  hand'[h].time \in Time /\ (hand'[h].at \in {"trial", "invoice"} => hand'[h].time <= 0)
  <2> DEFINE a == Age(hand[h].time)
  <2>1. /\ hand'[h] = hand[h] \/ hand'[h] = [hand[h] EXCEPT !.time = a]
        /\ hand[h] \in AnyHand /\ hand[h].time \in Time
    BY <1>0 DEF Tick, InTime
  <2>2. a \in Time /\ a <= hand[h].time /\ a \in Int /\ hand[h].time \in Int
    BY <2>1, TimesFit
  <2> HIDE DEF a
  <2> QED BY <2>1, <2>2 DEF AnyHand, InTime
<1>4. job'.base \in Time /\ job'.base <= 0
  <2> DEFINE a == Age(job.base)
  <2>1. (job' = job \/ job' = [job EXCEPT !.base = a]) /\ job.base \in Time /\ job.base <= 0
    BY DEF Tick, InTime
  <2>2. a \in Time /\ a <= job.base /\ a \in Int /\ job.base \in Int
    BY <2>1, TimesFit
  <2> HIDE DEF a
  <2> QED BY <1>0, <2>1, <2>2 DEF AnyJob
<1> QED BY <1>1, <1>2, <1>3, <1>4 DEF InTime

(* Whatever is paid, refused, scheduled or renewed, every date of the company, of its invoices, of the
   requests and of the job lies between the end of the grace period and the longest period on sale. *)
THEOREM TypesCorrect == Spec => []TypeOK
<1>1. Init => Shape /\ InTime
  BY ShapeAtFirst, TimesFit DEF Init, InTime, NoInvoice, Idle, IdleJob
<1>2. Shape /\ InTime /\ [Next]_vars => (Shape /\ InTime)'
  <2> SUFFICES ASSUME Shape, InTime, [Next]_vars PROVE Shape' /\ InTime' OBVIOUS
  <2>1. CASE UNCHANGED vars
    BY <2>1, ShapeKept DEF vars, InTime
  <2> QED BY <2>1, ShapeKept, RequestsInTime, AdminsInTime, JobInTime, TickInTime DEF Next
<1>3. Shape /\ InTime => TypeOK
  <2> SUFFICES ASSUME Shape, InTime PROVE TypeOK OBVIOUS
  <2>1. company \in Company
    BY DEF Shape, InTime, AnyCompany, Company
  <2>2. invoice \in [Invoices -> Invoice]
    BY DEF Shape, InTime, AnyInvoice, Invoice
  <2>3. hand \in [Staff -> Hand]
    BY DEF Shape, InTime, AnyHand, Hand
  <2>4. job \in Job
    BY DEF Shape, InTime, AnyJob, Job
  <2> QED BY <2>1, <2>2, <2>3, <2>4 DEF TypeOK
<1> QED BY <1>1, <1>2, <1>3, PTL DEF Spec

-----------------------------------------------------------------------------
(* No period is invoiced twice. *)

Renewal(i) == invoice[i].status = "pending" /\ invoice[i].renewal

(* Every renewal that waits for its payment is for an earlier period than  *)
(* the one the job is about to invoice.                                    *)
OnceInv ==
  /\ Shape /\ RenewedOnce
  /\ job.at = "create" => \A i \in Invoices : Renewal(i) => invoice[i].start < job.base

(* Only the job issues renewals; nobody else moves one to another period.  *)
LEMMA OthersLeaveRenewals ==
  ASSUME Shape, [Next]_vars, ~ JobCreate, ~ Tick, NEW i \in Invoices, Renewal(i)'
  PROVE  Renewal(i) /\ invoice'[i].start = invoice[i].start
<1>0. invoice \in [Invoices -> AnyInvoice]
  BY DEF Shape
<1>1. CASE UNCHANGED invoice
  BY <1>1 DEF Renewal
<1>2. ASSUME NEW h \in Staff, MakeInvoice(h)
      PROVE  Renewal(i) /\ invoice'[i].start = invoice[i].start
  <2>1. PICK j \in Invoices : Issue(j, hand[h].plan, hand[h].cycle, hand[h].time, FALSE)
    BY <1>2 DEF MakeInvoice, Reusable
  <2>2. hand[h].plan \in Plans /\ hand[h].cycle \in Cycles /\ hand[h].time \in Int
    BY DEF Shape, AnyHand
  <2>3. i # j
    BY <2>1, <2>2, Issued DEF Renewal
  <2> QED BY <2>1, <2>2, <2>3, Issued DEF Renewal
<1>3. ASSUME NEW p \in Plans, NEW c \in Cycles, AdminInvoice(p, c)
      PROVE  Renewal(i) /\ invoice'[i].start = invoice[i].start
  <2>1. PICK j \in Invoices : Issue(j, p, c, 0, FALSE)
    BY <1>3 DEF AdminInvoice, Reusable
  <2>2. i # j
    BY <2>1, IssuedNow DEF Renewal
  <2> QED BY <2>1, <2>2, IssuedNow DEF Renewal
<1>4. ASSUME NEW h \in Staff, Pay(h)
      PROVE  Renewal(i) /\ invoice'[i].start = invoice[i].start
  <2>1. i # hand[h].paying
    BY <1>0, <1>4 DEF Pay, Renewal, PaidInvoice, NoInvoice
  <2> QED BY <1>0, <1>4, <2>1 DEF Pay, Renewal
<1>5. ASSUME JobDowngrade
      PROVE  Renewal(i) /\ invoice'[i].start = invoice[i].start
  <2>1. ~ Voided(i)
    BY <1>0, <1>5 DEF JobDowngrade, Renewal, VoidInvoice, AnyInvoice
  <2> QED BY <1>5, <2>1 DEF JobDowngrade, Renewal
<1>6. ASSUME NEW h \in Staff, Serve(h), ~ MakeInvoice(h), ~ Pay(h) PROVE UNCHANGED invoice
  BY <1>6 DEF Serve, UpgradeRead, CancelRead, SchedulePlan, GrantTrial, ClearSchedule, PayRead, Fails
<1>7. ASSUME AdminEdits \/ JobRead \/ JobSuspend \/ JobLook \/ JobMove \/ JobFails \/ UNCHANGED vars
      PROVE  UNCHANGED invoice
  BY <1>7 DEF AdminEdits, AdminEdit, JobRead, JobSuspend, JobLook, JobMove, JobFails, vars
<1> QED BY <1>1, <1>2, <1>3, <1>4, <1>5, <1>6, <1>7 DEF Next, JobStep

(* And only the job decides to issue one, having looked.                   *)
LEMMA OthersLeaveJob ==
  ASSUME Shape, [Next]_vars, ~ JobLook, ~ Tick, job'.at = "create"
  PROVE  job' = job
<1>1. Verdict # "create"
  BY DEF Verdict
<1>2. ASSUME JobStep PROVE job' = job
  <2>1. CASE JobRead
    BY <1>1, <2>1 DEF JobRead, IdleJob
  <2>2. CASE JobCreate
    BY <2>2 DEF JobCreate, IdleJob, Shape, AnyJob
  <2>3. CASE JobSuspend \/ JobDowngrade \/ JobMove \/ JobFails
    BY <2>3 DEF JobSuspend, JobDowngrade, JobMove, JobFails, IdleJob
  <2> QED BY <1>2, <2>1, <2>2, <2>3 DEF JobStep
<1> QED
  BY <1>2 DEF Next, vars, Serve, UpgradeRead, CancelRead, SchedulePlan, GrantTrial, MakeInvoice,
              ClearSchedule, PayRead, Pay, Fails, AdminEdits, AdminEdit, AdminInvoice

(* Time moves all periods alike, and none lasts to the age where they are  *)
(* no longer told apart while the job is about to invoice the next.        *)
LEMMA TimeKeeps ==
  ASSUME OnceInv, Tick
  PROVE  /\ RenewedOnce'
         /\ job'.at = "create" => \A i \in Invoices : Renewal(i)' => invoice'[i].start < job'.base
<1>1. ASSUME NEW i \in Invoices
      PROVE  /\ Renewal(i)' <=> Renewal(i)
             /\ invoice[i].start \in Int /\ invoice'[i].start = Age(invoice[i].start)
  BY DEF OnceInv, Shape, AnyInvoice, Renewal, Tick
<1>2. RenewedOnce'
  <2> SUFFICES ASSUME NEW i \in Invoices, NEW j \in Invoices, Renewal(i)', Renewal(j)',
                      invoice'[i].start = invoice'[j].start, invoice'[i].start > Old
               PROVE  i = j
    BY DEF RenewedOnce, Renewal, Old
  <2>1. Renewal(i) /\ Renewal(j) /\ invoice[i].start = invoice[j].start /\ invoice[i].start > Old
    BY <1>1, Times DEF Age
  <2> QED BY <2>1 DEF OnceInv, RenewedOnce, Renewal
<1>3. ASSUME job'.at = "create", NEW i \in Invoices, Renewal(i)'
      PROVE  invoice'[i].start < job'.base
  <2>1. job \in AnyJob /\ job.base > -Grace
    BY DEF OnceInv, Shape, Tick
  <2>2. job.at = "create" /\ job'.base = job.base - 1
    <3>1. job' = [job EXCEPT !.base = Age(job.base)]
      BY <1>3 DEF Tick, IdleJob
    <3>2. Age(job.base) = job.base - 1
      BY <2>1, SubscriptionAssumption DEF Age, Old, AnyJob
    <3> QED BY <1>3, <2>1, <3>1, <3>2 DEF AnyJob
  <2>3. invoice[i].start < job.base
    BY <1>1, <1>3, <2>2 DEF OnceInv
  <2> QED BY <1>1, <2>1, <2>2, <2>3, SubscriptionAssumption DEF Age, Old, AnyJob
<1> QED BY <1>2, <1>3

LEMMA OnceKept ==
  ASSUME OnceInv, [Next]_vars
  PROVE  OnceInv'
<1>1. Shape'
  BY ShapeKept DEF OnceInv
<1>2. CASE Tick
  BY <1>1, <1>2, TimeKeeps DEF OnceInv
<1>3. CASE JobCreate
  <2>1. PICK i \in Invoices : Issue(i, job.plan, job.cycle, job.base, TRUE)
    BY <1>3 DEF JobCreate, Reusable
  <2>2. /\ job.at = "create" /\ job'.at # "create"
        /\ job.plan \in Plans /\ job.cycle \in Cycles /\ job.base \in Int
    BY <1>3 DEF JobCreate, IdleJob, OnceInv, Shape, AnyJob
  <2>3. /\ invoice'[i].start = job.base
        /\ \A j \in Invoices : j # i => invoice'[j] = invoice[j]
    BY <2>1, <2>2, Issued DEF OnceInv
  <2>4. \A j \in Invoices : j # i /\ Renewal(j)' => invoice'[j].start < job.base
    BY <2>2, <2>3 DEF OnceInv, Renewal
  <2>5. RenewedOnce'
    <3> SUFFICES ASSUME NEW j \in Invoices, NEW k \in Invoices, Renewal(j)', Renewal(k)',
                        invoice'[j].start = invoice'[k].start, invoice'[j].start > Old
                 PROVE  j = k
      BY DEF RenewedOnce, Renewal, Old
    <3>1. CASE j # i /\ k # i
      BY <2>3, <3>1 DEF OnceInv, RenewedOnce, Renewal
    <3>2. CASE j = i \/ k = i
      BY <2>2, <2>3, <2>4, <3>2
    <3> QED BY <3>1, <3>2
  <2> QED BY <1>1, <2>2, <2>5 DEF OnceInv
<1>4. CASE ~ Tick /\ ~ JobCreate
  <2>1. RenewedOnce'
    <3> SUFFICES ASSUME NEW j \in Invoices, NEW k \in Invoices, Renewal(j)', Renewal(k)',
                        invoice'[j].start = invoice'[k].start, invoice'[j].start > Old
                 PROVE  j = k
      BY DEF RenewedOnce, Renewal, Old
    <3>1. /\ Renewal(j) /\ Renewal(k)
          /\ invoice[j].start = invoice'[j].start /\ invoice[k].start = invoice'[k].start
      BY <1>4, OthersLeaveRenewals DEF OnceInv
    <3> QED BY <3>1 DEF OnceInv, RenewedOnce, Renewal
  <2>2. ASSUME job'.at = "create", NEW i \in Invoices, Renewal(i)'
        PROVE  invoice'[i].start < job'.base
    <3>1. Renewal(i) /\ invoice'[i].start = invoice[i].start
      BY <1>4, <2>2, OthersLeaveRenewals DEF OnceInv
    <3>2. CASE JobLook
      <4>1. job'.base = job.base /\ ~ Renews(i) /\ job.base \in Int /\ invoice[i].start \in Int
        BY <2>2, <3>2 DEF JobLook, IdleJob, OnceInv, Shape, AnyJob, AnyInvoice
      <4> QED BY <3>1, <4>1 DEF Renews, Renewal
    <3>3. CASE ~ JobLook
      BY <1>4, <2>2, <3>1, <3>3, OthersLeaveJob DEF OnceInv
    <3> QED BY <3>2, <3>3
  <2> QED BY <1>1, <2>1, <2>2 DEF OnceInv
<1> QED BY <1>2, <1>3, <1>4

(* However often the nightly job runs or fails, and whatever requests,     *)
(* webhooks and administrators do in between its look for a pending        *)
(* invoice and the insert, no period has two renewals that are unpaid.     *)
THEOREM NoPeriodTwice == Spec => []RenewedOnce
<1>1. Init => OnceInv
  BY ShapeAtFirst DEF Init, OnceInv, RenewedOnce, Renewal, NoInvoice, IdleJob
<1>2. OnceInv /\ [Next]_vars => OnceInv'
  BY OnceKept
<1>3. OnceInv => RenewedOnce
  BY DEF OnceInv
<1> QED BY <1>1, <1>2, <1>3, PTL DEF Spec

-----------------------------------------------------------------------------
(* An invoice goes to void only from pending: a payment that arrives while *)
(* the job gives the company up is not lost to the updateMany that voids   *)
(* what is unpaid.                                                         *)
THEOREM PaidIsNeverVoided == Spec => PaidStaysPaid
<1> DEFINE Keeps == \A i \in Invoices : invoice[i].status = "paid" => invoice'[i].status # "void"
<1>1. Shape /\ [Next]_vars => Keeps
  <2> SUFFICES ASSUME Shape, [Next]_vars, NEW i \in Invoices, invoice[i].status = "paid"
               PROVE  invoice'[i].status # "void"
    OBVIOUS
  <2>0. invoice \in [Invoices -> AnyInvoice]
    BY DEF Shape
  <2>1. ASSUME NEW h \in Staff, MakeInvoice(h) PROVE invoice'[i].status # "void"
    BY <2>0, <2>1 DEF MakeInvoice, Issue, Reusable
  <2>2. ASSUME NEW p \in Plans, NEW c \in Cycles, AdminInvoice(p, c) PROVE invoice'[i].status # "void"
    BY <2>0, <2>2 DEF AdminInvoice, Issue, Reusable
  <2>3. ASSUME NEW h \in Staff, Pay(h) PROVE invoice'[i].status # "void"
    BY <2>0, <2>3 DEF Pay, PaidInvoice, NoInvoice
  <2>4. CASE JobDowngrade
    BY <2>4 DEF JobDowngrade, Voided
  <2>5. CASE JobCreate
    BY <2>0, <2>5 DEF JobCreate, Issue, Reusable
  <2>6. CASE Tick
    BY <2>0, <2>6 DEF Tick, AnyInvoice
  <2>7. ASSUME NEW h \in Staff, Serve(h), ~ MakeInvoice(h), ~ Pay(h) PROVE UNCHANGED invoice
    BY <2>7 DEF Serve, UpgradeRead, CancelRead, SchedulePlan, GrantTrial, ClearSchedule, PayRead, Fails
  <2>8. ASSUME AdminEdits \/ JobRead \/ JobSuspend \/ JobLook \/ JobMove \/ JobFails \/ UNCHANGED vars
        PROVE  UNCHANGED invoice
    BY <2>8 DEF AdminEdits, AdminEdit, JobRead, JobSuspend, JobLook, JobMove, JobFails, vars
  <2> QED BY <2>1, <2>2, <2>3, <2>4, <2>5, <2>6, <2>7, <2>8 DEF Next, JobStep
<1>2. Keeps => [Keeps]_vars
  OBVIOUS
<1>3. Shape /\ [Next]_vars => Shape'
  BY ShapeKept
<1>4. Spec => [][Keeps]_vars
  BY <1>1, <1>3, ShapeAtFirst, PTL DEF Spec
<1> QED BY <1>4 DEF PaidStaysPaid
=============================================================================
