---------------------------- MODULE Subscriptions ----------------------------
(***************************************************************************)
(* The subscription of one company: billing.service.ts, the subscription   *)
(* and invoice edits of admin.service.ts and the nightly                   *)
(* subscription-lifecycle job (subscription.worker.ts).  Companies share   *)
(* nothing.                                                                *)
(*                                                                         *)
(* Nothing here locks a row.  Requests, webhooks and the job read the      *)
(* company or an invoice and write by id later, so each is a read step and *)
(* one or more write steps.                                                *)
(*                                                                         *)
(* Times are relative to the present: 0 is now, and Tick moves every date  *)
(* one unit into the past.  How long ago something was matters only up to  *)
(* the grace period; whatever is older is Old.                             *)
(***************************************************************************)
EXTENDS Integers

CONSTANTS
  Plans, Basic,   \* subscription_plans, and the one of tier basic
  Rank,           \* TIER_RANK of a plan's tier
  Price,          \* price of a plan for a cycle
  Trial,          \* trial period of a plan, 0 if it has none
  Signup,         \* trial period of a new company
  Cycles,         \* billing cycles on sale, a downgrade is to "monthly"
  Length,         \* length of a billing cycle
  Grace,          \* GRACE_PERIOD_DAYS
  Invoices,       \* rows of subscription_invoices
  Staff,          \* requests and webhook deliveries served at the same time
  None

(* How long a period, paid or on trial, may last. *)
Spans == {Length[c] : c \in Cycles} \cup {Trial[p] : p \in Plans} \cup {Signup}

ASSUME SubscriptionAssumption ==
  /\ "monthly" \in Cycles /\ \E longest \in Spans : \A span \in Spans : span <= longest
  /\ Basic \in Plans /\ None \notin Plans \cup Invoices
  /\ Rank \in [Plans -> Nat] /\ Trial \in [Plans -> Nat] /\ Length \in [Cycles -> Nat \ {0}]
  /\ Price \in [Plans -> [Cycles -> Nat]]
  /\ Signup \in Nat /\ Grace \in Nat \ {0}

VARIABLES
  company,    \* the company's row
  invoice,    \* its invoices
  hand,       \* requests and deliveries in progress
  job         \* the nightly run in progress

vars == <<company, invoice, hand, job>>

Old == -(Grace + 1)
Time == Old..(CHOOSE longest \in Spans : \A span \in Spans : span <= longest)
Age(t) == IF t > Old THEN t - 1 ELSE Old

(* A cancelled company is one the job leaves alone, as a suspended one. *)
Company == [plan : Plans, cycle : Cycles, expires : Time, scheduled : Plans \cup {None},
            status : {"active", "suspended"}, trialUsed : BOOLEAN]
Invoice == [status : {"none", "pending", "paid", "void"}, plan : Plans, cycle : Cycles,
            start : Time, end : Time, renewal : BOOLEAN]
NoInvoice == [status |-> "none", plan |-> Basic, cycle |-> "monthly", start |-> Old, end |-> Old,
              renewal |-> FALSE]

(* What a request has decided to do when it read the company (time: when    *)
(* that was), or the invoice it is about to pay (time: the end of its       *)
(* period).                                                                 *)
Hand == [at : {"idle", "schedule", "trial", "invoice", "clear", "pay"}, plan : Plans, cycle : Cycles,
         time : Time, free : BOOLEAN, paying : Invoices \cup {None}]
Idle == [at |-> "idle", plan |-> Basic, cycle |-> "monthly", time |-> 0, free |-> FALSE, paying |-> None]

(* base is the end of the expired period, or the present as a downgrade    *)
(* sees it.                                                                 *)
Job == [at : {"idle", "suspend", "downgrade", "look", "create", "move"}, plan : Plans,
        cycle : Cycles, base : Time, moves : BOOLEAN]
IdleJob == [at |-> "idle", plan |-> Basic, cycle |-> "monthly", base |-> 0, moves |-> FALSE]

TypeOK ==
  /\ company \in Company
  /\ invoice \in [Invoices -> Invoice]
  /\ hand \in [Staff -> Hand]
  /\ job \in Job

(* mutant of PeriodEnd: a period too many *)
PeriodEndNext(start, cycle) == start + 2 * Length[cycle]
(* addInterval, one billing cycle later. *)
PeriodEnd(start, cycle) == IF start = Old THEN Old ELSE start + Length[cycle]

(* A company registers with the basic plan and 14 days of trial. *)
Init ==
  /\ company = [plan |-> Basic, cycle |-> "monthly", expires |-> Signup, scheduled |-> None,
                status |-> "active", trialUsed |-> FALSE]
  /\ invoice = [i \in Invoices |-> NoInvoice]
  /\ hand = [h \in Staff |-> Idle]
  /\ job = IdleJob

InForce == company.expires > 0
Overdue == company.expires <= -Grace

(***************************************************************************)
(* Bounds.  An invoice number is used again once its invoice is settled,   *)
(* or so old that only a very late payment would ask for it.  Nobody asks  *)
(* what a paid invoice was for, nor when the period of a void one began.   *)
(***************************************************************************)
PaidInvoice == [NoInvoice EXCEPT !.status = "paid"]
VoidInvoice(i) == [invoice[i] EXCEPT !.status = "void", !.start = Old, !.renewal = FALSE]
Reusable == {i \in Invoices : /\ invoice[i].status # "pending" \/ invoice[i].start = Old
                              /\ \A h \in Staff : hand[h].paying # i}

Issue(i, plan, cycle, start, renewal) ==
  invoice' = [invoice EXCEPT ![i] = [status |-> "pending", plan |-> plan, cycle |-> cycle, start |-> start,
                                     end |-> PeriodEnd(start, cycle), renewal |-> renewal]]

-----------------------------------------------------------------------------
(***************************************************************************)
(* upgradeSubscription and cancelSubscription.                             *)
(***************************************************************************)
(* What is left of the running period is worth the whole new one. *)
Left == IF InForce THEN company.expires ELSE 0
CreditCovers(plan, cycle) ==
  Price[company.plan][company.cycle] * Left >= Price[plan][cycle] * Length[company.cycle]

Decision(plan) ==
  LET down == Rank[plan] < Rank[company.plan] IN
  CASE down /\ InForce -> "schedule"
    [] ~ down /\ company.plan = Basic /\ ~ company.trialUsed /\ Trial[plan] > 0 -> "trial"
    [] OTHER -> "invoice"

(* The company is read and all is decided; a plan too small for its         *)
(* locations or domain is refused here.  A session may outlive a suspension.*)
UpgradeRead(h, plan, cycle) ==
  /\ hand[h] = Idle
  /\ hand' = [hand EXCEPT ![h] = [at |-> Decision(plan), plan |-> plan, cycle |-> cycle, time |-> 0,
                                  free |-> CreditCovers(plan, cycle), paying |-> None]]
  /\ UNCHANGED <<company, invoice, job>>

(* cancelSubscription reads that the plan is not basic. *)
CancelRead(h) ==
  /\ hand[h] = Idle /\ company.plan # Basic
  /\ hand' = [hand EXCEPT ![h] = [Idle EXCEPT !.at = "schedule"]]
  /\ UNCHANGED <<company, invoice, job>>

(* A downgrade, or a cancellation, waits for the end of the period. *)
SchedulePlan(h) ==
  /\ hand[h].at = "schedule"
  /\ company' = [company EXCEPT !.scheduled = hand[h].plan]
  /\ hand' = [hand EXCEPT ![h] = Idle]
  /\ UNCHANGED <<invoice, job>>

(* The first plan above basic is free for its trial period. *)
GrantTrial(h) ==
  /\ hand[h].at = "trial"
  /\ company' = [company EXCEPT !.plan = hand[h].plan, !.cycle = hand[h].cycle, !.trialUsed = TRUE,
                                !.expires = hand[h].time + Trial[hand[h].plan], !.scheduled = None]
  /\ hand' = [hand EXCEPT ![h] = Idle]
  /\ UNCHANGED <<invoice, job>>

(* Everything else needs an invoice, less the credit; ... *)
MakeInvoice(h) ==
  /\ hand[h].at = "invoice"
  /\ \E i \in Reusable :
       /\ Issue(i, hand[h].plan, hand[h].cycle, hand[h].time, FALSE)
       /\ hand' = [hand EXCEPT ![h].at = "clear", ![h].paying = i,
                                   ![h].time = PeriodEnd(hand[h].time, hand[h].cycle)]
  /\ UNCHANGED <<company, job>>

(* ... a scheduled plan is forgotten; and an invoice over nothing is paid. *)
ClearSchedule(h) ==
  /\ hand[h].at = "clear"
  /\ company' = [company EXCEPT !.scheduled = None]
  /\ hand' = [hand EXCEPT ![h] = IF hand[h].free THEN [hand[h] EXCEPT !.at = "pay", !.free = FALSE] ELSE Idle]
  /\ UNCHANGED <<invoice, job>>

-----------------------------------------------------------------------------
(***************************************************************************)
(* Payments: the billing webhook, delivered any number of times, and       *)
(* markInvoicePaid by a platform administrator.                            *)
(***************************************************************************)
PayRead(h, i) ==
  /\ hand[h] = Idle /\ invoice[i].status \in {"pending", "void"}
  /\ hand' = [hand EXCEPT ![h] = [at |-> "pay", plan |-> invoice[i].plan, cycle |-> invoice[i].cycle,
                                  time |-> invoice[i].end, free |-> FALSE, paying |-> i]]
  /\ UNCHANGED <<company, invoice, job>>

Paid(h) ==
  company' = [company EXCEPT !.plan = hand[h].plan, !.cycle = hand[h].cycle, !.expires = hand[h].time,
                             !.scheduled = None, !.status = "active"]

(* applyInvoicePayment: the company gets what the invoice is for. *)
Pay(h) ==
  /\ hand[h].at = "pay"
  /\ invoice' = [invoice EXCEPT ![hand[h].paying] = PaidInvoice]
  /\ Paid(h)
  /\ hand' = [hand EXCEPT ![h] = Idle]
  /\ UNCHANGED job

(* A request ends early, wherever it is. *)
Fails(h) ==
  /\ hand[h] # Idle
  /\ hand' = [hand EXCEPT ![h] = Idle]
  /\ UNCHANGED <<company, invoice, job>>

(* updateCompanySubscription: a platform administrator sets the plan, the   *)
(* status, or one after the other.                                          *)
AdminEdit(edited) ==
  /\ company' = edited
  /\ UNCHANGED <<invoice, hand, job>>
AdminEdits == \/ \E p \in Plans : AdminEdit([company EXCEPT !.plan = p])
              \/ \E st \in {"active", "suspended"} : AdminEdit([company EXCEPT !.status = st])

(* createManualInvoice, which starts a period now. *)
AdminInvoice(plan, cycle) ==
  /\ \E i \in Reusable : Issue(i, plan, cycle, 0, FALSE)
  /\ UNCHANGED <<company, hand, job>>

-----------------------------------------------------------------------------
(***************************************************************************)
(* The nightly job.  It lists the companies whose period is over and then  *)
(* takes one after the other, sending e-mails in between.                  *)
(***************************************************************************)
(* mutant of Verdict: the invoice is looked for before the grace period *)
VerdictLook == "look"
Verdict == CASE ~ Overdue                        -> "look"
             [] Overdue /\ company.plan = Basic  -> "suspend"
             [] Overdue /\ company.plan # Basic  -> "downgrade"

ExpiredUnscheduled ==   \* mutant of Expired: leaves out cancelled subscriptions
  company.status = "active" /\ ~ InForce /\ company.scheduled = None
Expired == company.status = "active" /\ ~ InForce

JobRead ==
  /\ job.at = "idle" /\ Expired
  /\ job' = IF Overdue THEN [IdleJob EXCEPT !.at = Verdict]
            ELSE [at |-> Verdict, plan |-> IF company.scheduled = None THEN company.plan ELSE company.scheduled,
                  cycle |-> company.cycle, base |-> company.expires, moves |-> company.scheduled # None]
  /\ UNCHANGED <<company, invoice, hand>>

(* Overdue and basic already: suspended. *)
JobSuspend ==
  /\ job.at = "suspend"
  /\ company' = [company EXCEPT !.status = "suspended"]
  /\ job' = IdleJob
  /\ UNCHANGED <<invoice, hand>>

(* mutant of Voided: whatever its status *)
VoidedAll(i) == TRUE
Voided(i) == invoice[i].status = "pending"

(* Overdue: back to basic for a month, and what is unpaid is void. *)
JobDowngrade ==
  /\ job.at = "downgrade"
  /\ invoice' = [i \in Invoices |-> IF Voided(i) THEN VoidInvoice(i) ELSE invoice[i]]
  /\ company' = [company EXCEPT !.plan = Basic, !.cycle = "monthly", !.scheduled = None,
                                !.expires = PeriodEnd(job.base, "monthly")]
  /\ job' = IdleJob
  /\ UNCHANGED hand

(* mutant of Renews: an invoice for exactly this period does not count *)
RenewsLater(i) == invoice[i].status = "pending" /\ invoice[i].start > job.base
Renews(i) == invoice[i].status = "pending" /\ invoice[i].start >= job.base

(* Within the grace period: is there an invoice for the next period? *)
JobLook ==
  /\ job.at = "look"
  /\ job' = IF \E i \in Invoices : Renews(i) THEN IdleJob ELSE [job EXCEPT !.at = "create"]
  /\ UNCHANGED <<company, invoice, hand>>

(* If not it is made, for the scheduled plan if there is one, ... *)
JobCreate ==
  /\ job.at = "create"
  /\ \E i \in Reusable : Issue(i, job.plan, job.cycle, job.base, TRUE)
  /\ job' = IF job.moves THEN [job EXCEPT !.at = "move"] ELSE IdleJob
  /\ UNCHANGED <<company, hand>>

(* ... to which the company moves. *)
JobMove ==
  /\ job.at = "move"
  /\ company' = [company EXCEPT !.plan = job.plan, !.scheduled = None]
  /\ job' = IdleJob
  /\ UNCHANGED <<invoice, hand>>

JobFails ==
  /\ job # IdleJob
  /\ job' = IdleJob
  /\ UNCHANGED <<company, invoice, hand>>

(* Time passes.  Bound: no run or request lasts longer than the grace period. *)
Tick ==
  /\ job.base > -Grace /\ \A h \in Staff : hand[h].at \in {"trial", "invoice"} => hand[h].time > -Grace
  /\ company' = [company EXCEPT !.expires = Age(company.expires)]
  /\ invoice' = [i \in Invoices |-> [invoice[i] EXCEPT !.start = Age(@), !.end = Age(@)]]
  /\ hand' = [h \in Staff |-> IF hand[h].at \in {"idle", "schedule"} THEN hand[h]
                             ELSE [hand[h] EXCEPT !.time = Age(@)]]
  /\ job' = IF job = IdleJob THEN IdleJob ELSE [job EXCEPT !.base = Age(@)]

JobStep == JobRead \/ JobSuspend \/ JobDowngrade \/ JobLook \/ JobCreate \/ JobMove \/ JobFails

Serve(h) ==
  \/ \E p \in Plans, c \in Cycles : UpgradeRead(h, p, c)
  \/ CancelRead(h) \/ SchedulePlan(h) \/ GrantTrial(h) \/ MakeInvoice(h) \/ ClearSchedule(h)
  \/ \E i \in Invoices : PayRead(h, i)
  \/ Pay(h) \/ Fails(h)

Next ==
  \/ \E h \in Staff : Serve(h)
  \/ AdminEdits
  \/ \E p \in Plans, c \in Cycles : AdminInvoice(p, c)
  \/ JobStep
  \/ Tick

Spec == Init /\ [][Next]_vars

-----------------------------------------------------------------------------
(***************************************************************************)
(* Fairness: time passes, requests and runs of the job end.  BullMQ runs   *)
(* the job every night, and it does not fail every night at this company.  *)
(* Nothing is assumed of payments, staff or administrators.                *)
(***************************************************************************)
Ends(h) == hand[h] # Idle /\ (SchedulePlan(h) \/ GrantTrial(h) \/ MakeInvoice(h) \/ ClearSchedule(h)
                              \/ Pay(h) \/ Fails(h))
Fairness ==
  /\ SF_vars(Tick)
  /\ \A h \in Staff : WF_vars(Ends(h))
  /\ WF_vars(JobStep /\ job # IdleJob)
  /\ SF_vars(JobRead) /\ SF_vars(JobSuspend) /\ SF_vars(JobDowngrade)
FairSpec == Spec /\ Fairness

(* However often the job runs or fails, a period is not invoiced twice.    *)
RenewedOnce ==
  \A i, j \in {k \in Invoices : invoice[k].status = "pending" /\ invoice[k].renewal} :
    invoice[i].start = invoice[j].start /\ invoice[i].start > Old => i = j

(* What was paid is never voided, also when the payment arrives while the  *)
(* job gives the company up.                                               *)
PaidStaysPaid ==
  [][\A i \in Invoices : invoice[i].status = "paid" => invoice'[i].status # "void"]_vars

(* An active company does not use its plan for ever after its period:      *)
(* once overdue it is suspended or gets a period, paid or after a downgrade.*)
OverdueIsSettled ==
  company.status = "active" /\ Overdue ~> company.status # "active" \/ ~ Overdue

(* The cancellation e-mail: "after which your account will move to the     *)
(* Basic plan", unless the customer chooses or pays something else.        *)
CancelledMovesToBasic ==
  company.status = "active" /\ company.plan # Basic /\ company.scheduled = Basic
    ~> company.status # "active" \/ company.plan = Basic \/ company.scheduled # Basic
=============================================================================
