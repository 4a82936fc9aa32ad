----------------------------- MODULE MCDelivery -----------------------------
(***************************************************************************)
(* How the parts reach each other: the wizard and its gateway, mail and    *)
(* its configuration, the pages and the API.  As in MCSettings the         *)
(* components share no state: focus names the one that runs.  QueryCache   *)
(* is extended and not instantiated, because TLC then evaluates the tables *)
(* of its pages once.                                                      *)
(***************************************************************************)
EXTENDS QueryCache, TLC

CONSTANTS Hands,      \* tabs, bookings, screens
          Choices,    \* DKIM selectors, requests that cancel
          Gateways, PayHere, Keys, Domains, Attempts, Crashes

VARIABLES
  focus,
  lock, booking, tab, order, slug, notes, reading, active, cut, heard, spoilt,
  status, job, run, sending, copies, log, crashes, gone, twice, shaky,
  row, dns, form, request, proven, raced,
  member, token, actor, refused, saved

Wizards  == INSTANCE Checkout WITH Tabs <- Hands, None <- Nothing
Letters  == INSTANCE Mail WITH Bookings <- Hands, Cancels <- Choices, Nobody <- Nothing
Senders  == INSTANCE MailConfig WITH Screens <- Hands, Selectors <- Choices, Absent <- Nothing, call <- request
Sessions == INSTANCE Access WITH Nobody <- Nothing

\* Nothing is no value of any other kind: no tab, no answer, no number and no record.
ASSUME WizardsAssumption ==
  /\ PayHere \in Gateways
  /\ Nothing \notin Hands /\ Nothing \notin {"ok", "no", "lock", "book", "initiate"}
  /\ Nothing \notin Wizards!Forms \cup Gateways
ASSUME LettersAssumption  ==
  Attempts \in Nat \ {0} /\ Crashes \in Nat /\ Nothing \notin Hands \cup Choices
ASSUME SendersAssumption  == Nothing \notin Senders!Rows
ASSUME BrowserAssumption  == MaxChanges \in Nat /\ Nothing \notin Nat
ASSUME SessionsAssumption == Nothing \notin Sessions!Actors

wizards  == <<lock, booking, tab, order, slug, notes, reading, active, cut, heard, spoilt>>
letters  == <<status, job, run, sending, copies, log, crashes, gone, twice, shaky>>
senders  == <<row, dns, form, request, proven, raced>>
sessions == <<member, token, actor, refused, saved>>

\* The components that stand still have one initial state.
InitAll ==
  /\ focus \in {"wizards", "letters", "senders", "browser", "sessions"}
  /\ Wizards!Init /\ Letters!Init /\ Senders!Init /\ Sessions!Init /\ Init
  /\ focus # "browser"  => watched = "bookings" /\ area = "staff"
  /\ focus # "sessions" => member = [role |-> "owner", tier |-> "basic"]

NextOne ==
  /\ \/ focus = "wizards"  /\ Wizards!Next  /\ UNCHANGED <<letters, senders, sessions, vars>>
     \/ focus = "letters"  /\ Letters!Next  /\ UNCHANGED <<wizards, senders, sessions, vars>>
     \/ focus = "senders"  /\ Senders!Next  /\ UNCHANGED <<wizards, letters, sessions, vars>>
     \/ focus = "sessions" /\ Sessions!Next /\ UNCHANGED <<wizards, letters, senders, vars>>
     \/ focus = "browser"  /\ Next          /\ UNCHANGED <<wizards, letters, senders, sessions>>
  /\ UNCHANGED focus

SpecAll == InitAll /\ [][NextOne]_<<focus, wizards, letters, senders, sessions, vars>>

Symmetry == Permutations(Hands) \cup Permutations(Choices)
-----------------------------------------------------------------------------
\* The type invariant of every component.
TypesOK ==
  /\ focus = "wizards"  => Wizards!TypeOK
  /\ focus = "letters"  => Letters!TypeOK
  /\ focus = "senders"  => Senders!TypeOK
  /\ focus = "browser"  => TypeOK
  /\ focus = "sessions" => Sessions!TypeOK

\* payment.service.ts: reports that are late, repeated or out of order never take a booking from who paid.
PaidIsBooked == focus = "wizards" => Wizards!PaidIsBooked
\* booking-wizard.tsx: who has a booking is shown it, or is on the way to pay for it.
WizardLeadsOn == focus = "wizards" => Wizards!ConfirmedIsShown /\ Wizards!OnlineIsPaid
\* email.service.ts, reminder.worker.ts: no mail is sent twice, what is logged was sent, and a
\* cancellation has one mail unless two requests crossed.
MailArrivesOnce ==
  focus = "letters" => Letters!OneCopy /\ Letters!OneCancellation /\ Letters!SentArrived
\* reminder.worker.ts: no reminder of a booking that was cancelled before the run.
RemindsTheLiving == focus = "letters" => Letters!RemindsTheLiving
\* email-config.service.ts: a verified sender is the one whose record was found.
VerifiedIsProven == focus = "senders" => Senders!VerifiedIsProven
\* rbac.ts and the pages: the API allows what a page offers.
OfferedIsAccepted == focus = "sessions" => Sessions!OfferedIsAccepted
=============================================================================
