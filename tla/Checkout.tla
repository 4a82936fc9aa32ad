----------------------------- MODULE Checkout -----------------------------
(***************************************************************************)
(* Booking wizards and paying online: the wizard of one slot in several    *)
(* tabs (booking-wizard.tsx), the requests they send, the payment gateway, *)
(* and a venue that changes its gateways meanwhile (payment.service.ts).   *)
(* A request is served in one step: what happens inside lockSlot,          *)
(* createBooking and processWebhookPayment is the affair of SlotLock and   *)
(* BookingLifecycle.  Here it is requests and answers that interleave.     *)
(***************************************************************************)
CONSTANTS Tabs, Gateways, None,
          PayHere,   \* the gateway that falls back to the platform's account
          Keys       \* credentials of a venue's config

VARIABLES
  lock,     \* the tab whose token lock:<slot> holds
  booking,  \* the booking of each tab: its status and method
  tab,      \* the wizard: page, method, the request under way and its answer
  order,    \* the form a tab has submitted to its gateway
  slug,     \* the slug that resolveGatewayConfig has read for a tab's form
  notes,    \* what the gateway reports: delivered late, repeatedly or never
  reading,  \* reports whose booking was found pending and is yet to be written
  active,   \* the venue's active gateway and its credentials (VenuePaymentConfig)
  \* history
  cut,      \* tabs that were closed or left, or missed an answer
  heard,    \* tabs of which a report that they paid has been worked off
  spoilt    \* tabs whose payment may fail, see PaidIsBooked

vars == <<lock, booking, tab, order, slug, notes, reading, active, cut, heard, spoilt>>

Methods == {"online", "bank_transfer", "pay_at_venue"}
Fresh   == [page |-> "closed", method |-> "online", call |-> None, answer |-> None, expired |-> FALSE]
NoBooking == [status |-> "none", method |-> "online"]
Master  == [gateway |-> PayHere, key |-> None]      \* env.PAYHERE_MERCHANT_ID
Forms   == [gateway : Gateways, key : Keys \cup {None}]
Held(t) == booking[t].status \in {"pending", "confirmed"}

TypeOK ==
  /\ lock \in Tabs \cup {None}
  /\ booking \in [Tabs -> [status : {"none", "pending", "confirmed", "cancelled"}, method : Methods]]
  /\ tab \in [Tabs -> [page : {"closed", "lock", "details", "review", "error", "gateway", "confirmation", "left"},
                       method : Methods, call : {None, "lock", "book", "initiate"},
                       answer : {None, "ok", "no"}, expired : BOOLEAN]]
  /\ order \in [Tabs -> Forms \cup {None}]
  /\ slug \in [Tabs -> Gateways \cup {None}]
  /\ notes \subseteq [tab : Tabs, form : Forms, paid : BOOLEAN] /\ reading \subseteq notes
  /\ active \in Forms \cup {None}
  /\ cut \cup heard \cup spoilt \subseteq Tabs
  /\ \A t \in Tabs : tab[t].page = "gateway" => order[t] # None

Init ==
  /\ lock = None
  /\ booking = [t \in Tabs |-> NoBooking]
  /\ tab = [t \in Tabs |-> Fresh]
  /\ order = [t \in Tabs |-> None]
  /\ slug = [t \in Tabs |-> None]
  /\ notes = {} /\ reading = {}
  /\ active = None
  /\ cut = {} /\ heard = {} /\ spoilt = {}

wizard  == <<lock, tab, cut>>
paying  == <<order, slug, notes>>
reports == <<reading, heard, spoilt>>

-----------------------------------------------------------------------------
(***************************************************************************)
(* The wizard.                                                             *)
(***************************************************************************)
Shows(t, page) == tab' = [tab EXCEPT ![t] = [@ EXCEPT !.page = page, !.call = None, !.answer = None]]
Calls(t, call) == tab' = [tab EXCEPT ![t] = [@ EXCEPT !.call = call, !.answer = None]]
Answers(t, a)  == tab' = [tab EXCEPT ![t].answer = a]
Waiting(t, c)  == tab[t].call = c /\ tab[t].answer = None
Got(t, c)      == tab[t].call = c /\ tab[t].answer # None
OnlyTab        == UNCHANGED <<lock, booking, active, paying, reports>>

\* The page is rendered with the slot's status and payment options of that moment,
\* and locks on mount.  A tab is opened once.
OpenWizard(t) ==
  /\ tab[t].page = "closed" /\ t \notin cut
  /\ \/ tab' = [tab EXCEPT ![t].page = "lock", ![t].call = "lock"]
     \/ (\E u \in Tabs : Held(u)) /\ Shows(t, "error")
  /\ OnlyTab /\ UNCHANGED cut

Locked(t) ==
  /\ Got(t, "lock")
  /\ IF tab[t].page # "lock" THEN Shows(t, tab[t].page)
     ELSE Shows(t, IF tab[t].answer = "ok" THEN "details" ELSE "error")
  /\ OnlyTab /\ UNCHANGED cut

\* Signed in, or registered as a guest; and the method chosen.
Continue(t) ==
  /\ tab[t].page = "details" /\ ~tab[t].expired
  /\ \E m \in Methods : tab' = [tab EXCEPT ![t].page = "review", ![t].method = m]
  /\ OnlyTab /\ UNCHANGED cut

Back(t) ==
  /\ tab[t].page = "review" /\ ~tab[t].expired /\ tab[t].call = None
  /\ Shows(t, "details")
  /\ OnlyTab /\ UNCHANGED cut

Confirm(t) ==
  /\ tab[t].page = "review" /\ ~tab[t].expired /\ tab[t].call = None
  /\ Calls(t, "book")
  /\ OnlyTab /\ UNCHANGED cut

\* Mutant: a wizard that has been left ignores the answer (ConfirmedIsShown).
BookedIfMounted(t) ==
  /\ Got(t, "book")
  /\ IF tab[t].answer = "ok" /\ tab[t].page = "review"
     THEN IF tab[t].method = "online" THEN Calls(t, "initiate") ELSE Shows(t, "confirmation")
     ELSE Shows(t, tab[t].page)
  /\ OnlyTab /\ UNCHANGED cut

\* createBookingMutation.  Its callbacks run after the wizard has been left too.
\* After an error the review stays, with a link to sign in when it was a 401.
Booked(t) ==
  /\ Got(t, "book")
  /\ IF tab[t].answer = "ok"
     THEN IF tab[t].method = "online" THEN Calls(t, "initiate") ELSE Shows(t, "confirmation")
     ELSE Shows(t, tab[t].page)
  /\ OnlyTab /\ UNCHANGED cut

\* Mutant: the form is submitted whatever the answer was (TypeOK).
InitiatedBlindly(t) ==
  /\ Got(t, "initiate")
  /\ Shows(t, IF tab[t].page = "review" THEN "gateway" ELSE tab[t].page)
  /\ OnlyTab /\ UNCHANGED cut

\* initiatePaymentMutation: the hidden form is rendered and submitted only by a
\* wizard that is still there.
Initiated(t) ==
  /\ Got(t, "initiate")
  /\ \/ tab[t].answer = "no" /\ Shows(t, "confirmation") /\ cut' = cut \cup {t}
     \/ tab[t].answer = "ok" /\ tab[t].page = "review" /\ Shows(t, "gateway") /\ UNCHANGED cut
     \/ tab[t].answer = "ok" /\ tab[t].page # "review" /\ Shows(t, tab[t].page) /\ UNCHANGED cut
  /\ OnlyTab

\* The countdown ends: a dialog that only leads away covers the page.
CountdownEnds(t) ==
  /\ tab[t].page \in {"details", "review"} /\ ~tab[t].expired
  /\ lock' = IF lock = t THEN None ELSE lock
  /\ tab' = [tab EXCEPT ![t].expired = TRUE]
  /\ UNCHANGED <<booking, cut, active, paying, reports>>

\* "Back to venue".
Leave(t) ==
  /\ tab[t].page \in {"details", "review", "error"}
  /\ tab' = [tab EXCEPT ![t].page = "left"]
  /\ cut' = IF tab[t].method = "online" THEN cut \cup {t} ELSE cut
  /\ OnlyTab

CloseTab(t) ==
  /\ tab[t].page \notin {"closed", "confirmation"}
  /\ tab' = [tab EXCEPT ![t] = Fresh]
  /\ cut' = cut \cup {t}
  /\ OnlyTab

\* The request or its answer is lost; the client gets an error.
NetworkFails(t) ==
  /\ tab[t].call # None /\ tab[t].answer # "no"
  /\ Answers(t, "no")
  /\ cut' = cut \cup {t}
  /\ OnlyTab

-----------------------------------------------------------------------------
(***************************************************************************)
(* The API.                                                                *)
(***************************************************************************)
ServeLock(t) ==
  /\ Waiting(t, "lock")
  /\ IF lock = None /\ \A u \in Tabs : ~Held(u)
     THEN lock' = t /\ Answers(t, "ok")
     ELSE UNCHANGED lock /\ Answers(t, "no")
  /\ UNCHANGED <<booking, cut, active, paying, reports>>

LockExpires ==
  /\ lock # None /\ lock' = None
  /\ UNCHANGED <<booking, tab, cut, active, paying, reports>>

\* getPaymentOptions; whether bank details are on file, and whether the gateway's
\* driver is switched on, is left open.
Offered == {m \in Methods : m = "online" => active # None}

ServeBook(t) ==
  /\ Waiting(t, "book")
  /\ \/ /\ lock = t /\ tab[t].method \in Offered
        /\ lock' = None
        /\ booking' = [booking EXCEPT ![t] =
             [status |-> IF tab[t].method = "pay_at_venue" THEN "confirmed" ELSE "pending",
              method |-> tab[t].method]]
        /\ Answers(t, "ok")
     \/ Answers(t, "no") /\ UNCHANGED <<lock, booking>>   \* 401, 409, or not offered
  /\ UNCHANGED <<cut, active, paying, reports>>

\* initiatePayment, and the first read of resolveGatewayConfig: the slug.
FindGateway(t) ==
  /\ Waiting(t, "initiate") /\ slug[t] = None
  /\ IF booking[t].status = "pending"
     THEN /\ slug' = [slug EXCEPT ![t] = IF active = None THEN PayHere ELSE active.gateway]
          /\ UNCHANGED tab
     ELSE Answers(t, "no") /\ UNCHANGED slug
  /\ UNCHANGED <<lock, booking, order, cut, active, notes, reports>>

\* Its second read, which a save may have preceded: the active config of that slug,
\* or the platform's, or a ConflictError.
ServeInitiate(t) ==
  /\ Waiting(t, "initiate") /\ slug[t] # None
  /\ \/ /\ active # None /\ active.gateway = slug[t]
        /\ order' = [order EXCEPT ![t] = active] /\ Answers(t, "ok")
     \/ /\ (active # None => active.gateway # slug[t]) /\ slug[t] = PayHere
        /\ order' = [order EXCEPT ![t] = Master] /\ Answers(t, "ok")
     \/ /\ (active # None => active.gateway # slug[t]) /\ slug[t] # PayHere
        /\ Answers(t, "no") /\ UNCHANGED order
  /\ slug' = [slug EXCEPT ![t] = None]
  /\ UNCHANGED <<lock, booking, cut, active, notes, reports>>

\* The customer pays, or an attempt is declined and another one may follow.  Only
\* PayHere is implemented: the pages of the stub drivers lead nowhere.
Pays(t) ==
  /\ tab[t].page = "gateway" /\ order[t].gateway = PayHere
  /\ \E paid \in BOOLEAN : notes' = notes \cup {[tab |-> t, form |-> order[t], paid |-> paid]}
  /\ UNCHANGED <<wizard, booking, order, slug, active, reports>>

\* handleGatewayWebhook resolves the config of the slug when the report arrives, and
\* checks the signature with it.
Believes(form) ==
  \/ form = active
  \/ form = Master /\ (active # None => active.gateway # PayHere)

\* PayHere's account at the moment: the venue's own, or else the platform's.
InForce == IF active # None /\ active.gateway = PayHere THEN active ELSE Master

\* A report that changes nothing: the gateway gets its answer in any case.
Ignores(n) ==
  /\ heard' = IF n.paid THEN heard \cup {n.tab} ELSE heard
  /\ spoilt' = IF n.paid /\ n.tab \notin heard /\ n.form # InForce THEN spoilt \cup {n.tab} ELSE spoilt
  /\ UNCHANGED reading

\* Mutant: the status of the booking is not asked for (PaidIsBooked).
WebhookReadAny(n) ==
  /\ n \notin reading
  /\ IF Believes(n.form)
     THEN reading' = reading \cup {n} /\ UNCHANGED <<heard, spoilt>>
     ELSE Ignores(n)
  /\ UNCHANGED <<wizard, booking, active, paying>>

\* processWebhookPayment reads the booking outside its transaction.  That a report
\* of the same content is worked on twice at once makes no difference here.
WebhookRead(n) ==
  /\ n \notin reading
  /\ IF Believes(n.form) /\ booking[n.tab].status = "pending"
     THEN reading' = reading \cup {n} /\ UNCHANGED <<heard, spoilt>>
     ELSE Ignores(n)
  /\ UNCHANGED <<wizard, booking, active, paying>>

\* The transaction writes by the id, whatever has become of the booking.
WebhookWrite(n) ==
  /\ n \in reading /\ reading' = reading \ {n}
  /\ booking' = [booking EXCEPT ![n.tab].status = IF n.paid THEN "confirmed" ELSE "cancelled"]
  /\ heard' = IF n.paid THEN heard \cup {n.tab} ELSE heard
  /\ spoilt' = IF \/ ~n.paid /\ n.tab \notin heard
                  \/ \E m \in reading : m.tab = n.tab /\ m.paid # n.paid
               THEN spoilt \cup {n.tab} ELSE spoilt
  /\ UNCHANGED <<wizard, active, paying>>

\* Cancelled by the customer, by staff, or by the abandoned-booking job.
BookingEnds(t) ==
  /\ Held(t)
  /\ booking' = [booking EXCEPT ![t].status = "cancelled"]
  /\ spoilt' = spoilt \cup {t}
  /\ UNCHANGED <<wizard, active, paying, reading, heard>>

-----------------------------------------------------------------------------
\* updateGatewayConfig at any time: another gateway or new credentials.  A venue that
\* has a gateway keeps one.  Two saves at once are the affair of GatewayConfigs.
VenueSaves ==
  /\ \E g \in Gateways, k \in Keys : active' = [gateway |-> g, key |-> k] /\ active' # active
  /\ UNCHANGED <<wizard, booking, paying, reports>>

Next ==
  \/ \E t \in Tabs :
       \/ OpenWizard(t) \/ Locked(t) \/ Continue(t) \/ Back(t) \/ Confirm(t)
       \/ Booked(t) \/ Initiated(t) \/ CountdownEnds(t)
       \/ Leave(t) \/ CloseTab(t) \/ NetworkFails(t)
       \/ ServeLock(t) \/ ServeBook(t) \/ FindGateway(t) \/ ServeInitiate(t)
       \/ Pays(t) \/ BookingEnds(t)
  \/ LockExpires
  \/ \E n \in notes : WebhookRead(n) \/ WebhookWrite(n)
  \/ VenueSaves

Spec == Init /\ [][Next]_vars
-----------------------------------------------------------------------------
(***************************************************************************)
(* Properties.                                                             *)
(***************************************************************************)

\* Who has paid has the booking, however late, often and out of order the gateway
\* reports and whatever the venue saves meanwhile; unless the booking was cancelled by
\* somebody or by the job, a declined attempt was reported first or worked on at the
\* same time, or the first report came when PayHere had another account than at the checkout.
PaidIsBooked ==
  \A t \in heard : booking[t].status = "confirmed" \/ t \in spoilt

\* Whoever has a confirmed booking to pay at the venue gets to see it, even after
\* the countdown or after leaving the wizard; unless the tab was closed or missed
\* the answer.
ConfirmedIsShown ==
  \A t \in Tabs :
    booking[t].status = "confirmed" /\ booking[t].method = "pay_at_venue" =>
      tab[t].page = "confirmation" \/ tab[t].call = "book" \/ t \in cut

\* A booking that waits for an online payment has its customer at the gateway or
\* on the way there, unless the wizard was left, closed, or missed an answer: no
\* other page starts the payment again.
OnlineIsPaid ==
  \A t \in Tabs :
    booking[t].status = "pending" /\ booking[t].method = "online" =>
      tab[t].page = "gateway" \/ tab[t].call \in {"book", "initiate"} \/ t \in cut
=============================================================================
