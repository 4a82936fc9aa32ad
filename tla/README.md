# Verification of indoor-booking

TLA+ models of the booking platform in this repository (`apps/api`,
`apps/worker`, `packages/db`), TLC runs on small instances, and TLAPS proofs for
every size. Source paths below are relative to the repository root; `services/`
stands for `apps/api/src/services/`, `jobs/` for `apps/worker/src/jobs/`.

## 1. The system

A Fastify API and a BullMQ worker share one PostgreSQL database (through Prisma)
and one Redis. Any number of API processes serve requests at the same time; the
worker runs repeated jobs; payment gateways call webhooks. The processes share
no memory: all they have in common are table rows and Redis keys, and each
request is a sequence of awaited reads, checks, transactions and key commands.

| Component | State it keeps | Operations | Where |
|---|---|---|---|
| Slot lock | `time_slots.status/lock_token/locked_until`, Redis `slot:lock:<id>` (600 s) | `lockSlot`, `unlockSlot`, row check of `createBooking`, slot-cleanup job (5 min) | `services/slot.service.ts`, `jobs/slot-cleanup.worker.ts` |
| Bookings | `bookings`, `payment_transactions`, `bank_transfer_verifications` | `createBooking`, `cancelBooking`, `checkIn`, `markPaid`, `uploadSlip`, `verifySlip` | `services/booking.service.ts` |
| Payment webhooks | the same rows | `handleGatewayWebhook`, `processWebhookPayment` | `services/payment.service.ts`, `routes/payments.ts` |
| Abandoned-booking job | the same rows and keys | every 15 min: cancel `pending_payment` older than 30 min | `jobs/abandoned-booking.worker.ts` |
| Permanent slots | `recurring_booking_requests` and the bookings they create | create, approve, reject, cancel | `services/recurring-request.service.ts` |
| Slot calendar | `time_slots`, pricing rules, blackouts | generate (also with overwrite), `updateSlot`, `deleteSlot` | `services/slot.service.ts` |
| Billing | `companies` (plan, period, status), `subscription_invoices` | upgrade, cancel, billing webhook, nightly subscription job, admin edits | `services/billing.service.ts`, `services/admin.service.ts`, `jobs/subscription.worker.ts` |
| Sessions | Redis `refresh:<userId>`, the browser's storage | sign in and out, refresh, repeat a refused call | `services/auth.service.ts`, `apps/web/src/lib/api.ts`, `lib/auth.ts` |
| Accounts, members | `users`, `company_members`, Redis `reset:<token>` | register, invite, update, remove, forgotten password | `services/auth.service.ts`, `services/company.service.ts` |
| Media | rows and files of photos and videos, one cover | add, update, delete | `services/media.service.ts` |
| Domains | `company_domains`, Redis `domain:verify:<name>`, Vercel | add, verify, remove, certificate job | `services/domain.service.ts`, `jobs/domain-ssl.worker.ts` |
| Gateways | `venue_payment_configs`, `gateway_drivers` | save, switch off, resolve, build a form, check a report | `services/payment.service.ts`, `services/gateways/*` |
| Checkout | the wizard's page, the customer's booking and form | lock, book, initiate, pay, be notified | `apps/web/src/app/(marketplace)/book/[slotId]/booking-wizard.tsx` |
| E-mail | BullMQ queue, `email_logs`, `company_email_configs` | send, retry, daily reminder; save and verify a sender | `services/email.service.ts` of the worker, `jobs/reminder.worker.ts`, `services/email-config.service.ts` |
| Routes, permissions | none | what each route asks of role and plan | `apps/api/src/routes/*`, `middleware/rbac.ts`, `lib/role-permissions.ts` |
| Web frontend | query cache, the actor of the sign-in | pages, their queries, changes and refreshes | `apps/web/src/app/**`, `lib/query-client.ts`, `store/auth.store.ts` |
| Locations, courts, reports, marketplace | their tables | create, update, delete, list | `services/location.service.ts`, `sub-venue.service.ts`, `reports.service.ts`, `marketplace.service.ts` |

How they interact: a customer locks a slot (Redis key, then row), books it with
the token (row lock, booking, transaction row, then the key is deleted) and pays
online, by bank slip or at the venue. Webhooks, staff and the jobs then change
booking, transaction and slot. Approving a permanent slot takes row locks on
whole days and books without tokens. The pages call the API with an access token
whose role and plan were read at sign-in, keep answers in a cache and refresh what
they think a change has made stale. The worker and the API queue mail; the mail
server, the DNS, the hosting service and the payment gateways are outside and may
answer late, twice or never.

What is hard in it:

* **Check, then act.** Apart from the two transactions that lock the slot's row
  (`createBooking`, `approveRecurringRequest`), every handler checks a row it
  loaded earlier and then writes by id. Anything may happen in between.
* **Two stores.** The Redis key and the row's lock are set and cleared one after
  the other, by requests and by jobs, and may expire or be left behind.
* **Deletes by name.** `redis.del(slot:lock:<id>)` never compares the token.
* **Repetition.** Clients repeat requests, gateways repeat and reorder webhooks,
  BullMQ runs a failed job again with the next repeat.
* **Release.** Slots must come back although payments never arrive and locks are
  abandoned.
* **Several awaits, no transaction.** Covers, domains, invitations and sender settings
  are changed by three or four awaits in a row; a process may die between any two,
  and another request may do the same at the same time.
* **Copies.** Access tokens, cached answers, filled forms and a gateway's form are
  copies of rows that change meanwhile; nobody tells their holders.

The correctness properties per component: a slot has at most one active booking;
slot, booking and payment agree; a token buys one booking and its holder comes
first; unpaid bookings and expired locks are released; a series of bookings
agrees with the status of its request, windows are booked whole; a day is cut
lawfully and stays complete; a subscription period is invoiced once, payments stand,
overdue and cancelled plans end; the stored session is the latest one, refreshes of
several tabs do not sign each other out, and who is removed loses access; photos have one
cover; a domain is served only when it is proven, and its certificate is waited for;
an invited member is reached and has the role last asked for; money goes to the
account of the venue, and who has paid has the booking; the wizard leads to payment or
confirmation; mail arrives once, and there is no reminder of what was cancelled; a verified
sender was verified; pages show what their user changed and offer what the API
accepts. `PROJECT.json` lists the hazards behind them, line by line.

## 2. Modules

| Module | Models | State |
|---|---|---|
| `SlotLock` | the lock protocol, one action per await of each request and of the slot-cleanup job | `status`, `lock`, `key`; `minted`, `granted` (tokens that exist, that clients were given); `req`, `sweep` (program counters) |
| `BookingLifecycle` | EXTENDS `SlotLock` with bookings, payments, webhooks, staff edits, the abandoned-booking job | `booking`, `slips`, `task`, `job`; history: `stale`, `reopened` |
| `SlotAllocation` | abstract: slots and their owners, nothing else | `owner`, `sold` |
| `BookingClaims` | the refinement mapping to `SlotAllocation`, fairness and liveness, the claims of the documents | - |
| `RecurringRequests` | permanent slots over many dates, row locks held until commit | `request`, `slot`, `series`, `guest`, `now`, `hand`, `rowLock`; history: `crossed`, `stale` |
| `SlotPlan` | how a day is cut into slots, and what a plan must be | none (constant level) |
| `SlotCalendar` | EXTENDS `SlotPlan`: one court on one day, generation with and without overwrite, deletion, edits of the schedule | `schedule`, `row`, `hand`; history: `steady`, `calm` |
| `Subscriptions` | one company's plan, period and invoices under requests, payments, administrators and the nightly job | `company`, `invoice`, `hand`, `job` |
| `Sessions` | one member's session in several browsers and calls | `standing`, `key`, `store`, `call`; history: `last`, `crossed`, `calm` |
| `Accounts` | one e-mail address: user, membership, links to set a password | `secret`, `owner`, `member`, `links`, `task`; history: `told`, `overlap`, `asked`, `crossed`, `spent`, `loose` |
| `Media` | a company's photos and videos | `images`, `videos`, `covers`, `files`, `hand`; history: `crossed`, `dropped` |
| `CustomDomain` | one domain name, its claims, key, hosting and certificate | `row`, `verified`, `ssl`, `token`, `dns`, `attached`, `issued`, `jobs`, `claim`; history: `proof`, `muddled`, `stray`, `lost` |
| `GatewayConfigs` | a venue's gateways: saving and resolving | `config`, `offered`, `saving`, `taking`; history: `twins`, `seen` |
| `Checkout` | wizards of one slot in several tabs, their requests, the gateway | `lock`, `booking`, `tab`, `order`, `slug`, `notes`, `reading`, `active`; history: `cut`, `heard`, `spoilt` |
| `Mail` | cancellations, their queued mail, and the reminder run | `status`, `job`, `run`, `sending`, `copies`, `log`, `crashes`; history: `gone`, `twice`, `shaky` |
| `MailConfig` | a sender's settings on several screens | `row`, `dns`, `form`, `call`; history: `proven`, `raced` |
| `ApiRoutes`, `WebPages` | tables: what routes ask, read and write; what pages show, offer and refresh | none (constant level) |
| `QueryCache` | EXTENDS `WebPages`: one cache entry on a walk through the pages | `watched`, `area`, `screen`, `truth`, `entry`, `fetch`, `call`; history: `excused` |
| `Access` | EXTENDS `WebPages`: role and plan of the row, the token and the page; the company's saved modes of sending mail | `member`, `token`, `actor`, `refused`, `saved` |
| `MCBookingLifecycle`, `MCRecurringRequests`, `MCSlotCalendar`, `MCSubscriptions`, `MCSessions` | instances for TLC, symmetry | - |
| `MCSettings` | instances of `Media`, `CustomDomain`, `Accounts`, `GatewayConfigs` side by side | theirs and `focus` |
| `MCDelivery` | instances of `Checkout`, `Mail`, `MailConfig`, `Access` and `QueryCache` side by side | theirs and `focus` |
| `BookingLifecycle_proofs`, `BookingClaims_proofs`, `RecurringRequests_proofs`, `SlotCalendar_proofs`, `Subscriptions_proofs`, `Sessions_proofs` | theorems about the module named | - |
| `Settings_proofs`, `Delivery_proofs` | theorems about the components of `MCSettings` and of `MCDelivery` | - |

`MCSettings` and `MCDelivery` each hold components that share no state. `focus` names
the one that runs and never changes; the others stand still in one initial state. A
behaviour of the module is a behaviour of one component, and the state spaces add up
instead of multiplying.

### SlotLock and BookingLifecycle

`lock[s]` is the pair `lock_token`, `locked_until`; only whether `locked_until`
has passed matters, so it is the flag `live`, and `LockExpires` is the passing of
time. `key[s]` is the Redis key, `KeyExpires` its EX. The two clocks are not
coupled: the key is set earlier, but its expiry and the row's are read on
different machines, and a slow transaction sets `locked_until` late.

A request is a record with a program counter. `lockSlot` is `LockKey`, then
`LockRow` or `LockRowFails` with `LockUndo`. `unlockSlot` is `UnlockCheck`,
`UnlockKey`, `UnlockRow`. `createBooking` is `BookCheck`, `CreateBooking` (the
whole transaction, under `SELECT ... FOR UPDATE`) or `BookRowFails`, then
`BookKey`. `Crash` ends a request anywhere. The slot-cleanup job is `SweepRead`,
`SweepRows`, one `SweepKey` per key, or `SweepFails`.

Transactions are single steps: PostgreSQL shows none of their writes before the
commit, and those that read something they rely on lock the row first. The
transactions that do *not* lock rely on reads made before they began; these reads
are steps of their own.

Every other handler is a task: `ReadBooking` when its check (`Passes`) succeeds,
later one commit step (`CancelBooking`, `CheckIn`, `MarkPaid`, `ApproveSlip`,
`RejectSlip`, `WebhookPaid`, `WebhookPending`, `WebhookFailed`, `Deactivate`), or
`TaskFails`. A webhook that was delivered twice is two tasks. The
abandoned-booking job is `JobRead`, then `JobCancel` and `JobKey` per booking, or
`JobFails`; which bookings are older than 30 minutes is left open.

`stale` collects the slots on which a handler committed although its check would
have failed by then, `reopened` those that staff set to available in spite of an
active booking. The slots in neither are `Sound`. The code does not keep these;
they let the invariants say exactly what the code guarantees. `stale_webhook` shows
what happens on a stale slot, and section 5 what happens on a reopened one.

### RecurringRequests

A handler reads the request (`SubmitRead`, `ApproveRead`, `RejectRead`,
`CancelRead`) and commits later. Approval first generates the missing slots
(`Generate`; which dates have a schedule is left open), then takes one date after
another: `ApproveDate` waits for the row locks of the day (`LockDate`), evaluates
the window (`Free`) and remembers the slots; `ApproveCommit` writes all of it.
`now` is the time in half days: a date before and after its slots begin. Other
customers' locks and bookings are single steps, since `BookingLifecycle` models
their detail; `CheckIn` and `CancelOne` are the single-booking handlers applied to
bookings of a series. `crossed` collects the requests whose status had changed
between a handler's read and its write, `stale` the slots freed on an old list.

### SlotPlan and SlotCalendar

`Plan(schedule)` is the loop of `generateSlotsForDate` as a recursive function over
the minutes of the day, `Turn` one turn of it; `PickRule` is its `pickRule`. `Lawful` says without a loop
what the result must be: slots inside the hours, disjoint, each as long as the
rule that wins at its start, and no sellable time left out. The rules carry what
decides (band, rate type, length, age); prices follow the rule.

`row[s]` is the slot that starts at `s`, if any; `n` numbers the rows created there,
so `<<s, n>>` is the row's id. A generation is `GenPlan`, `GenRead`, with overwrite
`GenDelete` (or `GenRefused`, when the foreign key of `bookings` forbids it), then
`GenCreate`, which is `createMany` with `skipDuplicates`. `deleteSlot` is `DeleteRead`
and `DeleteCommit`. Whoever locks, books, cancels or re-prices is one step, since
`BookingLifecycle` has the detail. `generateSlotsForDateRange` repeats the generation for every
date, and dates share nothing. `calm` turns FALSE when a request dies, a slot is
deleted on purpose or the schedule is edited: then nobody expects a complete day.
`steady` turns FALSE only when the schedule is edited. Until then the rows of the court
must not overlap in time; afterwards they may, since a generation compares start times.

### Subscriptions

Times are relative: 0 is the present, `Tick` makes every date one unit older, and
what is older than the grace period is `Old`. So the model needs no clock and runs
for ever. `upgradeSubscription` is `UpgradeRead`, where everything is decided
(`Decision`, `CreditCovers`), then `SchedulePlan`, `GrantTrial`, or `MakeInvoice` and
`ClearSchedule`, and `Pay` if the credit covers the price. `cancelSubscription` is
`CancelRead` and `SchedulePlan`. The billing webhook and `markInvoicePaid` are
`PayRead` and `Pay`, which applies the invoice as it was read. The job is `JobRead`,
then `JobSuspend`, `JobDowngrade`, or `JobLook`, `JobCreate` and `JobMove`; `JobFails`
ends it anywhere. The administrator's edits are one step each, since what they read
decides nothing. Of amounts only whether the credit covers the price matters.

### Sessions and Accounts

A call of a tab is a record with a program counter. `Send` takes the access token from
the browser's storage; `DataDenied` is the 401 of `middleware/auth.ts`; then
`RefreshCheck` (GET of the key), `RefreshLoad` (`loadActiveMembership`), `RefreshSet`
(SET with the same token), `StoreAccess`, and the call is sent again, once. `Expire` is
`handleSessionExpired`. Sign-in is `LoginLoad`, `LoginSet`, `LoginStore`; sign-out is
`Logout` and `Settle`. `NetworkFails` loses a request or its answer anywhere. `Limited` is
the 429 of the rate limit, which counts calls per address: other people may share it, so any
call may meet it, and a refresh that does is a refused one to `refreshAccessToken`. What other
modules decide comes in as `RemoveMember` and `CompanyChanges`. `last` is the token of
the latest sign-in nobody has signed out of; `crossed` says that the latest sign-in or
sign-out found a refresh between its GET and its SET; `calm` that nothing has happened since
the first sign-in that may end the session (listed at `StaysSignedIn`).

`Accounts` has the awaits of `inviteMember` (`Invite`, `CreateUser`, `FindMember`,
`CommitMember`, `SetLink`, `QueueInvite`), `updateMember`, `removeMember`,
`forgotPassword`, `resetPassword` and `registerVenueOwner`. Members stay `invited` or
`inactive`: no line of the repository makes one active.

### Media, CustomDomain, GatewayConfigs

One action per await of each function, with the name of what the await does. A request
that dies (`MediaDies`, `RequestDies`, `SaveFails`) leaves what it has done. In
`CustomDomain` the name has one row at a time (it is unique), and the ids of rows tell
successive claims apart; the token in Redis goes by the name. `attached` and `issued` are
what the hosting service knows, `jobs` the certificate checks with the attempts they
have left. In `GatewayConfigs` a save is one transaction at READ COMMITTED, modelled as
its first statement and its commit: it waits for rows another save has written and does
not see rows another has not committed.

### Checkout, Mail, MailConfig

In `Checkout` the API serves a call in one step and what interleaves is calls and
answers: the wizard may be left, closed or past its countdown when the answer comes. Two
functions are taken apart. `initiatePayment` is `FindGateway`, which reads the slug of the
active gateway, and `ServeInitiate`, which reads that gateway's account; a save may come
between them. A report is `WebhookRead` (the account of the moment, `Believes`, and the
booking's status) and `WebhookWrite`, which writes by id. `notes` are the reports there are,
delivered late, again, or never, a decline and a payment in either order; `reading` those
that have been read and not written. `VenueSaves` is `updateGatewayConfig` at any moment; a
venue that has a gateway keeps one. `heard` are the tabs whose payment was reported and worked
off, `spoilt` those whose booking may be lost all the same, for a reason `PaidIsBooked` lists.

In `Mail` a cancellation is three steps of a request: `CancelRead` (load and check),
`CancelWrite` (by id) and `CancelQueue` (`addEmailJob`); `RequestDies` ends it after any of
them. `twice` are the bookings that a request cancelled although another had done so since its
check. Both workers go through `sendEmail`: `Resolve`, `Submit` (the server accepts or
refuses), `LogSent` or `LogFailed`. A cancellation mail is a job with attempts and back-off;
reminders are one run that lists tomorrow's bookings and sends them one after the other;
`Crash` kills the worker, and BullMQ hands stalled jobs out once more. `shaky` collects the
mails whose fate a crash, a lost answer or a lost log row hid.

`MailConfig` splits each function at its read: `SaveReads`, `SaveWrites`, `VerifyReads`,
`VerifyWrites` (the DNS is asked in between), `GenerateReads`, `GenerateWrites`.

### ApiRoutes, WebPages, QueryCache, Access

`ApiRoutes` maps each route that a page calls to the permission and plan it asks for
(`Guard`), and to the data its service reads or writes (`Reads`, `Writes`). `WebPages`
lists, page by page, the queries shown, the changes offered with the page's own
conditions, and the query keys refreshed on success. On these tables `QueryCache` plays
one user who walks through the pages of an `area` (staff, player or administrator; some
queries are shown in two of them) and makes changes while one entry of the cache is watched: fetches are answered late or fail, entries grow old, are collected,
polled, refreshed. `Overlooked` names the pairs of change and query where the pages
refresh nothing although the data changed; everything else has to be shown. `Access`
lets the row, the token and the page's actor differ in role and plan; `KnownRefusals`
names what the pages offer and the API refuses. The form of the mail settings starts with the
mode that is stored (`Preselected`), which a downgrade leaves as it is: `saved` are the modes
the company has saved, and a refusal of one of them is the exception of `OfferedIsAccepted`.

## 3. Runs

| Run | Instance | Shows |
|---|---|---|
| `locks` | 1 slot, 2 tokens, 2 requests, 2 bookings, 1 task | typing; `TokenBuysOneBooking`; `HolderComesFirst` |
| `handlers` | 1 slot, 1 token, 1 request, 3 bookings, 2 tasks | `NoDoubleBooking`, `SlotMatchesBooking`, `PaymentMatchesBooking`; the whole implements `SlotAllocation` |
| `liveness` | 1 slot, 1 token, 1 request, 2 bookings, 1 task | `AbandonedIsReleased`, `ExpiredLockIsCleared` |
| `recurring` | 2 requests, same window, 2 dates, 2 slots, 2 handlers | typing; `NoSlotTwice`; `SeriesFollowsRequest` |
| `calendar` | 1 day of 6 half hours, every schedule of one rule and every pair of rules; 2 staff requests | typing; `PlanIsLawful`; `DayIsAsPlanned`, `RowsSurvive` |
| `billing` | 2 plans, 1 cycle, periods of 2 units, grace of 1, 2 invoices, 1 request | typing; `RenewedOnce`, `PaidStaysPaid` |
| `overdue` | the same with 1 invoice | `OverdueIsSettled`, `CancelledMovesToBasic` |
| `sessions` | 2 browsers, 2 calls, 2 refresh tokens | typing; `SessionIsLatest`, `StaysSignedIn`, `LosesAccess` |
| `settings` | 2 requests at a time; 4 photos with room for 2; 2 claims of a domain with 2 attempts; 2 roles, 2 links, 1 place; 3 gateways with 2 accounts | typing; `CoverIsKept`; `DomainIsProven`, `CertificateIsAwaited`; `MemberIsAsAsked`; `PaysTheVenue` |
| `delivery` | 2 tabs, 2 gateways, 1 credential; 2 bookings, 2 cancelling requests, 2 attempts, 1 crash; 2 screens, 2 selectors, 1 domain; every query with 2 changes; every role and plan | typing; `PaidIsBooked`, `WizardLeadsOn`; `MailArrivesOnce`, `RemindsTheLiving`; `VerifiedIsProven`; `OwnChangeShown`; `OfferedIsAccepted` |
| `stale_webhook` | 2 tokens, 3 bookings, 1 task | violated: `NoDoubleBookingByRace` |
| `script_alarms` | 1 slot, 1 token, 1 request, 2 bookings, 1 task | violated: `ScriptsAlarmsAreReal` |

Why the bounds suffice. No step of `BookingLifecycle` but the sweep and the job
touches two slots, so one slot shows the races on it; that slots do not disturb
each other is proved (section 6). A race on the lock needs two tokens and two requests
(loser and winner) next to one background job. A handler's stale commit needs a
booking, its cancellation, and a second booking of the slot in between; a third
booking shows that the state recovers. The tokens, bookings and requests are
finite, so the model is: each is used once, `LockKey` and `Insert` take only new
ones. In `RecurringRequests` the named bound is the last guard of `ApproveCommit`:
a request books a slot at most once. Two dates are enough for partial approval,
for the order of locking and for a series of which one half is past; two requests
for the same window are enough for the conflicts of whole windows. Windows of several slots,
also such as overlap in part, are covered by the proofs (`WindowsAreWhole`, `NoSlotIsTakenTwice`).

In `calendar` the day has six units: bands may begin and end at every one of them,
and slots of two and three units leave gaps, remainders and rests of every kind.
Every such schedule is an initial state; `Busy` names the two under which slots are
then generated, with slots of three and four units, which overlap each other.
`Versions` bounds how often a slot is created at one start: the second row is the one
an old delete by id must miss.

In `billing` one request runs beside the administrator and the job, which is what
every race with the job needs; races of two requests with each other are out of
these bounds. A period of two units and a grace period of one give the job a time
before, at and after the end of the grace period. An invoice number is used again
when its invoice is settled (`Reusable`), so the model does not stop after two
invoices; two of them at once are what a period renewed twice would need, and for the
liveness properties one is enough. A second billing cycle only makes periods longer.

In `sessions` two browsers and two calls are two tabs of one browser or two devices,
and the second token is what a sign-in elsewhere puts in the place of the first. In
`settings` and `delivery` two requests (or tabs, or screens) are what every crossing in
a component needs: the histories that excuse a property (`crossed`, `muddled`, `stray`,
`overlap`, `twins`, `twice`, `raced`) name a read of one and a write of the other. In `Checkout`
PayHere's account can be the platform's or the venue's own, or the venue's other gateway be
active, so that a save can take a form's account away and bring it back. Four
photos are room for two and two more past the count; two claims of a name are an old and
a new one, and the old one's key, record and job can meet the new row; a job has a last
attempt and one before it. `MaxChanges` lets a change land while an answer to an older
one is on its way. `Crashes` bounds deaths of the worker: the first finds a mail accepted
and not logged, and what a second one does to a repeated run is the same at every size in
the proofs of section 6.

`CHECK_DEADLOCK FALSE` stands in the runs of `RecurringRequests`, where the calendar ends
with date `Last`, and in `settings` and `delivery`, where some components come to an end:
every mail is sent and the day is over, every tab is closed or paid, no change is left.
In the other runs TLC also checks that there is no deadlock.

## 4. Fairness

`BookingClaims!Fairness` assumes that time passes (`LockExpires`, `KeyExpires`),
and of the two jobs what BullMQ gives: `apps/api/src/server.ts` registers them with
a repeat, so a read that stays possible happens (weak fairness of `SweepRead`),
each old booking is in the end among those read, and the runs do not fail at the
same place every time (strong fairness of the steps inside a run, which a failure
disables). Nothing is assumed of customers, staff, gateways or requests: they may
stop anywhere and for ever.

`Subscriptions!Fairness` assumes that time passes, that requests and runs of the job
end (perhaps by failing), and that the job, which `jobs/subscription.job.ts` of the
API repeats every night, lists an expired company again and again and does not fail
for ever just before it suspends or downgrades it. Nothing is assumed of payments,
customers or administrators.

`Sessions!Fairness` assumes that access tokens expire and that a call that is under way
ends (each of its awaits answers or fails). Nothing is assumed of users, of the
owner who removes a member, or of the network.

## 5. Findings

Two runs are violated, each by a state the code reaches and a sentence of the repository,
quoted in `PROJECT.json`, excludes.

`stale_webhook`: a paid webhook that read its booking before the abandoned-booking job
cancelled it confirms a booking whose slot has been sold. Repeating the check in the `where`
of the update would do.

`script_alarms`: `apps/api/scripts/verify-state-machine.ts` calls two ordinary states
anomalous. Its check 2 (lines 30-43) wants the slot of every cancelled booking to be available,
but the slot is sold again, to the next customer; its check 4 (lines 58-71) wants the booking of
every paid transaction to be `confirmed`, but a customer who has paid is checked in. The run
ends in a state that both checks report, though no handler acted on a stale check and staff
re-opened nothing. What the code does keep is `SlotMatchesBooking` and `PaymentMatchesBooking`.

The cause of the first, a write by id after an old check, and others were met on the way; the
models contain them, and the properties say what holds in spite of them:

* Withdrawing a request while it is approved leaves the series booked (`CancelCommit`,
  `crossed`), and a booking checked in after the list was made is cancelled with it.
* The nightly job suspends or downgrades a company that has paid since it was listed
  (`JobSuspend`, `JobDowngrade`). A void invoice can still be paid, and a credit above the
  new price is lost (`PayRead`, `CreditCovers`).
* Generation compares start times, not intervals: slots of changed rules overlap the old
  ones, and both can be booked (`GenCreate`).
* `updateSlot` sets any slot to available, also a booked one (`Reactivate`).
* The abandoned-booking job cancels what a webhook has just confirmed (`JobCancel`) and
  deletes the Redis key after the slot is on sale again (`JobKey`); the slot-cleanup job
  clears a lock taken after it had read the expired one (`SweepRows`).
* A stale confirmation also takes a slot from a customer who holds a live lock on it and has
  not booked yet (`TakenByStaleConfirm` in `HolderComesFirst`).
* A refresh in flight brings a session back that was just signed out of (`RefreshSet`).
* `/auth/refresh` is limited to ten calls a minute and address (`routes/auth.ts:21`), and the
  browser takes the 429 for a refusal (`lib/api.ts:48`, 95-100): a member with many tabs, or in
  an office where others refresh, is signed out (`Limited`).
* Nothing turns an invited member into an active one, so every sign-in of an invited member is
  refused, also with the password the link sets; and no page exists for the link an
  invitation or a forgotten password sends (`Accounts`). `/bookings/:id/payment-success`
  and its sibling, to which PayHere returns, do not exist either.
* A gateway's report is checked with the account active when it arrives: a payment begun
  before the venue saved its gateway is not believed (`Ignores`).
* A declined attempt cancels the booking (every status of PayHere but success and pending is
  `failed`). When the customer then pays on the same PayHere page, the report is ignored:
  the money is taken, and the slot is on sale (`WebhookWrite`, `spoilt`).
* Two cancellations of one booking that cross both succeed and send a mail each, and a request
  that dies after its transaction sends none (`CancelWrite`, `RequestDies`).
* A verified domain whose certificate job gave up stays without one until the name is
  removed and added again (`lost` in `CustomDomain`).
* One reminder that fails ends the run, and the run begins again with all it has not
  logged; a booking cancelled while the run is under way still gets its reminder (`Mail`).
* The revenue tab is offered on every plan and refused below pro; the subscription banner
  asks on behalf of staff who may not; support administrators get forms of the
  super-administrator (`KnownRefusals`). After a downgrade the form of the mail settings still
  starts with the stored mode of the higher plan (`settings/email/page.tsx:90`), and saving it is
  refused (`email-config.service.ts:84-90`; `Preselected`). `Overlooked` lists the refreshes left out; among them
  every change of the staff but one that takes or frees a slot, so the page for a new
  booking may list it as it was until the list is polled.

## 6. Proofs

For all values of the constants:

| Module | Theorem | Statement |
|---|---|---|
| `BookingLifecycle_proofs` | `TypeCorrect` | `Spec => [](TypeOK /\ Links)` |
| | `SlotsAreBookedOnce` | `Spec => []NoDoubleBooking` |
| | `SlotsAgreeWithBookings` | `Spec => []SlotMatchesBooking` |
| | `PaymentsAgreeWithBookings` | `Spec => []PaymentMatchesBooking` |
| | `TokensAreSpentOnce` | `Spec => []TokenBuysOneBooking` |
| | `HolderIsFirst` | `Spec => HolderComesFirst` |
| `BookingClaims_proofs` | `AllocationImplemented` | `Spec => ImplementsAllocation`, the refinement |
| `RecurringRequests_proofs` | `RequestTypes` | `Spec => []TypeOK` |
| | `NoSlotIsTakenTwice` | `Spec => []NoSlotTwice` |
| | `SeriesKeepsToRequest` | `Spec => []SeriesFollowsRequest` |
| | `WindowsAreWhole` | `Spec => WholeWindows` |
| `SlotCalendar_proofs` | `CalendarTypes` | `Spec => []TypeOK` |
| | `PlansStayLawful` | `Spec => []PlanIsLawful` |
| | `DayStaysAsPlanned` | `Spec => []DayIsAsPlanned` |
| | `RowsAreKept` | `Spec => RowsSurvive` |
| `Subscriptions_proofs` | `TypesCorrect` | `Spec => []TypeOK` |
| | `NoPeriodTwice` | `Spec => []RenewedOnce` |
| | `PaidIsNeverVoided` | `Spec => PaidStaysPaid` |
| `Sessions_proofs` | `SessionTypes` | `Spec => []TypeOK` |
| | `SessionLatest` | `Spec => []SessionIsLatest` |
| | `SessionStays` | `Spec => []StaysSignedIn` |
| `Settings_proofs` | `SettingsTypesCorrect` | `Spec => []TypeOK`, for the four components of `MCSettings` |
| | `CoversAreKept` | `Spec => []CoverIsKept` |
| | `DomainsAreProven` | `Spec => []DomainIsProven` |
| | `CertificatesAreAwaited` | `Spec => []CertificateIsAwaited` |
| | `MembersAreAsAsked` | `Spec => []MemberIsAsAsked` |
| | `VenuesArePaid` | `Spec => []PaysTheVenue` |
| `Delivery_proofs` | `DeliveryTypesCorrect` | `SpecAll => []TypesOK`, for the five components of `MCDelivery` |
| | `PaymentsAreBooked` | `SpecAll => []PaidIsBooked` |
| | `WizardsLeadOn` | `SpecAll => []WizardLeadsOn` |
| | `MailsArriveOnce` | `SpecAll => []MailArrivesOnce` |
| | `RemindersAreOfTheLiving` | `SpecAll => []RemindsTheLiving` |
| | `SendersAreProven` | `SpecAll => []VerifiedIsProven` |
| | `OwnChangesAreShown` | `SpecAll => []OwnChangeShown` |
| | `OffersAreAccepted` | `SpecAll => []OfferedIsAccepted` |

Assumptions: the named ones of the modules, which TLC evaluates on every run (`None` is
none of the tokens, requests and the like; the windows of a request lie on their dates;
cycles are positive and some period is the longest; the limit of photos and a job's attempts are positive, and requests are
finitely many, since the limit counts them). No theorem has a hypothesis besides. The sets may
be infinite.

`BookingLifecycle`. `TypeOK` alone is not inductive: a task's commit writes
`status[task[k].slot]`, which is typed only if a task that is not idle has a slot.
`Links` says what references hold: an existing booking has a slot, a task has the
slot of its booking, a job's bookings exist. `SlotInv` strengthens the slot
properties: a sound slot that is available or inactive has no active booking, and
one that is reserved or booked has exactly one, of the matching kind, with the
matching payment. Each handler is then one lemma: if its check still passes, the
slot stays sound and `SlotInv` is kept; if not, the slot goes into `stale` and
nothing is left to show for it. `TokenInv` relates rows and tokens: a token that
bought a booking is in no live row lock any more, and one that is still to be
granted is in none. `HolderIsFirst` is an action property and needs no history: `CreateBooking`
compares the row's token, `Lockable` keeps an approval away from a live lock, and a commit of
staff or of a webhook that turns a slot without active booking into a taken one confirms a
booking that is over, so its check would fail by then (`CommitsTakeNoFreeSlot`).

The refinement of `SlotAllocation` maps a sound slot to the booking that holds it and any
other slot to the state in which nothing is promised. A sound slot has one such
booking or none (`OneOrNone`, from `SlotInv`); a commit that settles a booking frees or
keeps its slot (`SettleMaps`), an insert allocates one that was free
(`InsertAllocates`), every other step is a stutter.

`RecurringRequests`. `PickedIsLocked`: what an approval under way has picked is available
and its row is locked by that approval. So nobody else can take a picked slot before the
approval commits, and the commit finds it free. `Sound` is `NoSlotTwice` for one slot.
For `SeriesFollowsRequest` the invariant `Remembers` says what a handler's old read is
still good for: while no two writes have crossed, a handler that saw the request
approved finds it approved or cancelled, and a cancellation about to commit has in its
list every future booking of the series. The second part is what fails when writes
cross; hence the exception in the property. `WholeWindows` is an action property; `Picks`
says that what an approval has picked is, date by date, the window or nothing, nothing where
it has not looked yet, and that a cancellation has picked rows that exist, so only an
approval's commit adds to a series.

`SlotPlan`. `PlanIsLawful` is about every schedule, so what the loop returns has to be shown
by induction over the day, backwards. The induction theorems of the library take a predicate
and cannot be used; the well-foundedness of `<` on the naturals is a fact about sets, and
gives every set of naturals a least element (`LeastOf`). A set of times that holds every time
after which it holds all later ones is therefore the whole day (`Backwards`). The same fact
shows that there is a function that satisfies the recursion of `Plan` (`PlanTurns`).
`LawfulFrom(s, c, plan)` is `Lawful` for the rest of the day from `c`; `TurnLawful` shows it of
one turn from what later turns give: `AfterSlot` for a slot, `AfterGap` for a jump to the next
band, where no band begins in between (`GapLasts`), `NothingLeft` where the day ends.

`SlotCalendar`. That planned slots lie on the day (`PlansFit`) follows from that. `Reads`: a start time that a generation keeps has had a row, and no row that
it is about to delete is among those it keeps. `Restored`: on a calm day a planned start
that has lost its row is missing from what some generation at its last step keeps, so
that generation will create it. The very first generation finds nothing and keeps
nothing, so from then on every planned start has had a row. `PlannedInv`: while `steady`, every
row and everything a generation is about to create is a slot of the one plan, whose slots
lie apart by `PlanIsLawful`; so two half-finished generations cannot make rows that overlap.

`Subscriptions`. While the job is between its look and its insert, every unpaid renewal is
for an earlier period than the one it is about to invoice (`OnceInv`): only the job issues
renewals, and time moves all periods alike. For the types the
prover needs to know what a request or the job is about to write (`InTime`): a period that
begins now or earlier, so it ends no later than the longest period does that begins now.
`Time` ends there, and `Tick` only moves dates back.

`Sessions`. `LatestInv`: unless `crossed`, the key is the latest session and every refresh
past its check carries that very token; so its SET changes nothing. `CalmInv`, for
`StaysSignedIn`: while `calm`, there is one token, and the key, every browser that stores
anything and every refresh under way have it, so no comparison fails, nobody comes to
`handleSessionExpired`, and what the sign-in stored stays. This holds through further sign-ins
that are refused, which send a refresh of their own when the browser still has a token.

`MCSettings`. Its specification implies that of each of its four components (`PhotosRun`,
`DomainRun`, `StaffRun`, `GatewaysRun`): every step is one of the component or leaves it
alone. Each component has its inductive invariant.

* Photos. `NamesApart`: a file on its way has a name no row has. `CoverKnown`: a request about
  to make a row or a cover knows whether there is one already. `RoomLeft`: rows and requests
  past the check of the limit together are fewer than `Max + Cardinality(Hands)`, which is
  where two requests at once may lead.
* Domain. `WorkIsVerified`: only a verified row has jobs or requests that attach its name.
  `KeyIsOwn`: unless `muddled`, the key and what a check has read of it are the present row's;
  a removed row takes its key along before the next add draws one. `ChecksAreSound`: unless
  `lost`, who has seen the certificate is right. The last is why `CertificateIsAwaited`
  survives the worker's two steps: an attempt that fails leaves another job of the same row,
  or it was the last one and `lost` says so.
* Staff. `InvitationGoesOn`: unless `overlap`, one invitation is under way, and the one that
  made the user still knows that it did. `RoleIsKept`: an update that keeps the role has the
  one of the row. `LinksAreWatched`: a used link is about to be deleted, or loose.
* Gateways. `SavesSee`: a save that missed no row clears every other one when it commits.
  `RightIsSeen`: what is right now is in what every resolution under way has seen.

`MCDelivery`. As in `MCSettings` its specification implies that of each component
(`WizardsRun`, `LettersRun`, `SendersRun`, `SessionsRun`, `BrowserRun`).

* Wizards. `Requests` and `FormHad` say on which pages a request may be under way and which
  tabs have a form; `LedOn` what a tab owes its booking; `Reported` that a report is about the
  form its tab submitted last. `PaidFor` strengthens `PaidIsBooked`: a cancelled booking is
  `spoilt`, and a decline that is worked on found its booking pending and unpaid, or `spoilt`
  says what has happened since (`Declines`).
* Mail. `Accounted` and `SentOnce`: a mail that was accepted is logged, or about to be, or
  in `shaky`; a job that is to run again has not been accepted. `ArrivedInv` relates log,
  copies and finished jobs; `LivingInv` the list of a run to the bookings read for it.
  `CancelsInv`, for `CancelledOnceMailedOnce`: the booking of a request that has written is
  cancelled, so a second one that writes finds it so and puts it into `twice`.
  The types bound the copies of a mail, which takes a count of what each copy stands for: an
  attempt that failed, a stall, or the mail under way (`JobsCounted`, `RunCounted`).
* Senders. `Underway`: a request has read a row, and the form that is being saved is complete.
* Sessions. The member, the token and the page's actor are all staff or all administrators;
  without the first of these the types are not inductive. A page asks only for somebody who
  is signed in. `Granted` says of some operations that the guards let an
  actor do all of them, but for `KnownRefusals`, `Welcome` that they let him do whatever a page offers him; it is shown page by page (`MenuWelcomes`,
  `LinksWelcome`, `AdministrationWelcomes`), and `RequestPasses` that such a request passes the
  guard of its route while role and plan are those of the sign-in, unless it asks for a mode that
  was saved. Every request of a page has a
  guard, so none is accepted only because nobody looks.
* Browser. `UpToDate`: unless excused, an answer on its way is the truth, what is kept is the
  truth or known to be old, and what is shown while nothing is fetched is the truth.
  `PagesRefresh`: what a page offers refreshes the query it changes, or is in `Overlooked`. The
  proof follows the way pages are put together: `Kept` says of some operations and what their
  button refreshes that nothing is left unshown, `Whole` that it holds of every offer of a part
  of a page, and parts stay whole when they are joined or narrowed to a plan or a permission
  (`WholeParts`). `Readers` and `Writers` list who reads and who changes each query.

The tables of routes and pages are joined by `Merged`, an operator of `ApiRoutes`: `@@` of the
module `TLC` has a meaning built into the prover, which it cannot expand. Leaving one entry out
of `Overlooked`, or offering the form of own mail settings on every plan, makes exactly the lemma
about that page fail.

Two of these proofs failed at first because the model was wrong. An `initiate` whose answer
is an error and arrives on the review page met two branches of one `CASE` in `Checkout`;
they are now disjoint. A query that is shown in two areas had its walk chosen
arbitrarily; `area` is now part of the state, and TLC then found the refreshes that the
pages of the staff leave out for `slots` (`Overlooked`).

Model-checked only: the five liveness properties `AbandonedIsReleased`, `ExpiredLockIsCleared`,
`OverdueIsSettled`, `CancelledMovesToBasic` and `LosesAccess`. They need fairness and `ENABLED`,
which are out of the prover's reach. `WholeWindows` is only proved: with windows of one slot, as
in `recurring`, it says nothing. Every invariant and every action property that a passing
run checks is stated by a theorem, and so is the refinement of `SlotAllocation`.

## 7. Not modelled

The table of `PROJECT.json` lists every component. What is left out, and why:

* The connection pool. `createBooking` asks the pool for a second connection inside its
  transaction; the size of the pool and the two timeouts that end the wait are defaults of
  Prisma, which no line of the repository sets.
* The services of locations and courts are single statements on single rows; their plan
  limits (count, then create) can be passed by two requests at once, by as many as are
  past the count. Their routes are in `ApiRoutes`.
* Sessions of players and platform administrators are made the same way as those of
  staff, without a membership.
* The restriction of a member to some locations, and that rows belong to the caller's
  company: a `where` clause in every query.
* Captions and display order of media, sums and exports of reports, amounts of bookings and
  invoices, templates and rendering of mail, layout and wording of pages.
* Hashing and encryption of passwords, credentials and gateway reports.
* Audit rows and notifications, written after or beside the modelled state.
