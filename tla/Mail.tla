-------------------------------- MODULE Mail --------------------------------
(***************************************************************************)
(* Mail about bookings: the cancellation mails that requests queue         *)
(* (email.job.ts) and the e-mail worker sends with three attempts, and the *)
(* reminders that one daily run sends itself (reminder.worker.ts).  Both   *)
(* go through sendEmail (email.service.ts): resolve the configuration,     *)
(* hand the mail to the server, write the e-mail log.  The worker process  *)
(* may die at any step; BullMQ hands a stalled job out once more.          *)
(* cancelBooking loads the booking and checks its status, updates it by    *)
(* id, and queues the mail: three steps of a request, and a failed payment *)
(* takes the same three in processWebhookPayment.                          *)
(***************************************************************************)
EXTENDS Naturals

CONSTANTS Bookings,   \* of tomorrow, by customers with an address
          Cancels,    \* requests that cancel one of them; each queues one job
          Nobody,
          Attempts,   \* defaultJobOptions.attempts of the e-mail queue: 3
          Crashes     \* bound: deaths of the worker process

VARIABLES
  status,   \* Booking.status: confirmed or cancelled; none before it is made
  job,      \* a cancelling request and its job: the booking, state, attempts, stalls
  run,      \* the reminder run: its state, stalls, list, and what is still to do
  sending,  \* sendEmail under way in each worker: which mail, which step
  copies,   \* how often the mail server accepted each mail
  log,      \* EmailLog: the statuses written about each mail
  crashes,
  \* history
  gone,     \* cancelled while no run was reading or sending
  twice,    \* cancelled by a request although another had done so since its check
  shaky     \* mails that a crash or a failing write interrupted after acceptance

vars == <<status, job, run, sending, copies, log, crashes, gone, twice, shaky>>

Workers == {"email", "reminder"}
Kind    == [email |-> "cancelled", reminder |-> "reminder"]
Mails   == ({"cancelled"} \X Cancels) \cup ({"reminder"} \X Bookings)
Idle    == [to |-> Nobody, at |-> "idle"]
MailOf(w) == <<Kind[w], sending[w].to>>
NewJob  == [of |-> Nobody, state |-> "none", tries |-> 0, stalls |-> 0]
NewRun  == [state |-> "due", stalls |-> 0, list |-> {}, todo |-> {}]

\* A request that has not queued its mail, and a job.
Asking == {"read", "written"}
Queued == {"waiting", "delayed", "active", "done", "failed"}

TypeOK ==
  /\ status \in [Bookings -> {"none", "confirmed", "cancelled"}]
  /\ job \in [Cancels -> [of : Bookings \cup {Nobody}, state : {"none", "lost"} \cup Asking \cup Queued,
                          tries : 0..Attempts, stalls : 0..2]]
  /\ run \in [state : {"due", "waiting", "active", "done", "failed"}, stalls : 0..2,
              list : SUBSET Bookings, todo : SUBSET Bookings]
  /\ sending \in [Workers -> [to : Bookings \cup Cancels \cup {Nobody},
                              at : {"idle", "resolve", "smtp", "sent", "failed"}]]
  /\ copies \in [Mails -> 0..Attempts + 1] /\ log \in [Mails -> SUBSET {"sent", "failed"}]
  /\ crashes \in 0..Crashes /\ gone \cup twice \subseteq Bookings /\ shaky \subseteq Mails
  /\ \A r \in Cancels : job[r].state = "active" <=> sending["email"].to = r
  /\ \A r \in Cancels : job[r].state # "none" => job[r].of \in Bookings
  /\ sending["email"].to \in Cancels \cup {Nobody} /\ sending["reminder"].to \in Bookings \cup {Nobody}
  /\ sending["reminder"].to # Nobody => run.state = "active"

Init ==
  /\ status = [b \in Bookings |-> "none"]
  /\ job = [r \in Cancels |-> NewJob]
  /\ run = NewRun
  /\ sending = [w \in Workers |-> Idle]
  /\ copies = [m \in Mails |-> 0] /\ log = [m \in Mails |-> {}]
  /\ crashes = 0 /\ gone = {} /\ twice = {} /\ shaky = {}

-----------------------------------------------------------------------------
(***************************************************************************)
(* The API.                                                                *)
(***************************************************************************)
Request(r, state) == job' = [job EXCEPT ![r].state = state]

Book(b) ==
  /\ status[b] = "none"
  /\ status' = [status EXCEPT ![b] = "confirmed"]
  /\ UNCHANGED <<job, run, sending, copies, log, crashes, gone, twice, shaky>>

CancelRead(r, b) ==
  /\ job[r].state = "none" /\ status[b] = "confirmed"
  /\ job' = [job EXCEPT ![r].of = b, ![r].state = "read"]
  /\ UNCHANGED <<status, run, sending, copies, log, crashes, gone, twice, shaky>>

\* By id, whatever the status is by now.
CancelWrite(r) ==
  LET b == job[r].of IN
  /\ job[r].state = "read"
  /\ status' = [status EXCEPT ![b] = "cancelled"]
  /\ Request(r, "written")
  /\ gone' = IF run.state = "active" THEN gone ELSE gone \cup {b}
  /\ twice' = IF status[b] = "cancelled" THEN twice \cup {b} ELSE twice
  /\ UNCHANGED <<run, sending, copies, log, crashes, shaky>>

\* addEmailJob: a job of its own, whatever jobs there are of the booking.
CancelQueue(r) ==
  /\ job[r].state = "written"
  /\ Request(r, "waiting")
  /\ UNCHANGED <<status, run, sending, copies, log, crashes, gone, twice, shaky>>

\* A cancellation that has been committed has no mail then.
RequestDies(r) ==
  /\ job[r].state \in Asking
  /\ Request(r, "lost")
  /\ UNCHANGED <<status, run, sending, copies, log, crashes, gone, twice, shaky>>

-----------------------------------------------------------------------------
(***************************************************************************)
(* sendEmail.                                                              *)
(***************************************************************************)
Step(w, at)    == sending' = [sending EXCEPT ![w].at = at]
Starts(w, to)  == sending' = [sending EXCEPT ![w] = [to |-> to, at |-> "resolve"]]
Stops(w)       == sending' = [sending EXCEPT ![w] = Idle]
OutsideMail    == UNCHANGED <<status, crashes, gone, twice>>

\* resolveEmailConfig, resolveTemplate, renderEmail.
Resolve(w) ==
  /\ sending[w].at = "resolve"
  /\ Step(w, "smtp")
  /\ UNCHANGED <<job, run, copies, log, shaky>> /\ OutsideMail

\* The server accepts the mail, refuses it, or accepts it and its answer is lost.
Submit(w) ==
  /\ sending[w].at = "smtp"
  /\ \/ /\ Step(w, "sent")
        /\ copies' = [copies EXCEPT ![MailOf(w)] = @ + 1] /\ UNCHANGED shaky
     \/ /\ Step(w, "failed") /\ UNCHANGED <<copies, shaky>>
     \/ /\ Step(w, "failed")
        /\ copies' = [copies EXCEPT ![MailOf(w)] = @ + 1] /\ shaky' = shaky \cup {MailOf(w)}
  /\ UNCHANGED <<job, run, log>> /\ OutsideMail

\* The job has been worked off: the queue, or the run, goes on.
Worked(w) ==
  /\ IF w = "email"
     THEN job' = [job EXCEPT ![sending[w].to].state = "done"] /\ UNCHANGED run
     ELSE run' = [run EXCEPT !.todo = @ \ {sending[w].to}] /\ UNCHANGED job
  /\ Stops(w)

\* BullMQ: the e-mail queue tries again after a delay, the run has one attempt.
Threw(w) ==
  /\ IF w = "email"
     THEN LET r == sending[w].to IN
          /\ job' = [job EXCEPT ![r].tries = @ + 1,
                                ![r].state = IF job[r].tries + 1 < Attempts THEN "delayed" ELSE "failed"]
          /\ UNCHANGED run
     ELSE run' = [run EXCEPT !.state = "failed", !.list = {}, !.todo = {}] /\ UNCHANGED job
  /\ Stops(w)

\* The row "sent" is written in the try block of sendMail: when that write fails,
\* the mail counts as failed.
LogSent(w) ==
  /\ sending[w].at = "sent"
  /\ \/ /\ log' = [log EXCEPT ![MailOf(w)] = @ \cup {"sent"}]
        /\ Worked(w) /\ UNCHANGED shaky
     \/ /\ Step(w, "failed") /\ shaky' = shaky \cup {MailOf(w)}
        /\ UNCHANGED <<log, job, run>>
  /\ UNCHANGED copies /\ OutsideMail

LogFailed(w) ==
  /\ sending[w].at = "failed"
  /\ \E rows \in {{"failed"}, {}} : log' = [log EXCEPT ![MailOf(w)] = @ \cup rows]
  /\ Threw(w)
  /\ UNCHANGED <<copies, shaky>> /\ OutsideMail

ResolveFails(w) ==
  /\ sending[w].at = "resolve" /\ Threw(w)
  /\ UNCHANGED <<copies, log, shaky>> /\ OutsideMail

-----------------------------------------------------------------------------
(***************************************************************************)
(* The workers.                                                            *)
(***************************************************************************)
\* One job at a time.
TakeJob(r) ==
  /\ sending["email"] = Idle /\ job[r].state = "waiting"
  /\ Request(r, "active") /\ Starts("email", r)
  /\ UNCHANGED <<run, copies, log, shaky>> /\ OutsideMail

DelayEnds(r) ==
  /\ job[r].state = "delayed"
  /\ Request(r, "waiting")
  /\ UNCHANGED <<run, sending, copies, log, shaky>> /\ OutsideMail

Lists(bs) == run' = [run EXCEPT !.state = "active", !.list = bs, !.todo = bs]

\* Mutant: the run reads every booking of tomorrow (RemindsTheLiving).
ReadAll ==
  /\ run.state \in {"due", "waiting"}
  /\ Lists({b \in Bookings : status[b] # "none"})
  /\ UNCHANGED <<job, sending, copies, log, shaky>> /\ OutsideMail

\* The daily run reads tomorrow's confirmed bookings, once.
ReadTomorrow ==
  /\ run.state \in {"due", "waiting"}
  /\ Lists({b \in Bookings : status[b] = "confirmed"})
  /\ UNCHANGED <<job, sending, copies, log, shaky>> /\ OutsideMail

\* Mutant: the run does not look into the log (OneCopy).
RemindAgain(b) ==
  /\ run.state = "active" /\ b \in run.todo /\ sending["reminder"] = Idle
  /\ Starts("reminder", b)
  /\ UNCHANGED <<job, run, copies, log, shaky>> /\ OutsideMail

\* The next booking of the list: reminded already, or its turn.
Remind(b) ==
  /\ run.state = "active" /\ b \in run.todo /\ sending["reminder"] = Idle
  /\ IF "sent" \in log[<<"reminder", b>>]
     THEN run' = [run EXCEPT !.todo = @ \ {b}] /\ UNCHANGED sending
     ELSE Starts("reminder", b) /\ UNCHANGED run
  /\ UNCHANGED <<job, copies, log, shaky>> /\ OutsideMail

RunEnds ==
  /\ run.state = "active" /\ run.todo = {} /\ sending["reminder"] = Idle
  /\ run' = [run EXCEPT !.state = "done"]
  /\ UNCHANGED <<job, sending, copies, log, shaky>> /\ OutsideMail

\* A stalled job is handed out once more, then it has failed (maxStalledCount 1).
Stalled(j) == [j EXCEPT !.stalls = @ + 1, !.state = IF j.stalls = 0 THEN "waiting" ELSE "failed"]

\* The worker process dies and is started again.
Crash ==
  /\ crashes < Crashes /\ \E w \in Workers : sending[w] # Idle
  /\ crashes' = crashes + 1
  /\ job' = [r \in Cancels |-> IF job[r].state = "active" THEN Stalled(job[r]) ELSE job[r]]
  /\ run' = IF run.state = "active" THEN [Stalled(run) EXCEPT !.list = {}, !.todo = {}] ELSE run
  /\ sending' = [w \in Workers |-> Idle]
  /\ shaky' = shaky \cup {MailOf(w) : w \in {v \in Workers : sending[v].at = "sent"}}
  /\ UNCHANGED <<status, copies, log, gone, twice>>

Send(w) == Resolve(w) \/ Submit(w) \/ LogSent(w) \/ LogFailed(w) \/ ResolveFails(w)

Next ==
  \/ \E b \in Bookings : Book(b) \/ Remind(b)
  \/ \E r \in Cancels : \/ \E b \in Bookings : CancelRead(r, b)
                         \/ CancelWrite(r) \/ CancelQueue(r) \/ RequestDies(r)
                         \/ TakeJob(r) \/ DelayEnds(r)
  \/ \E w \in Workers : Send(w)
  \/ ReadTomorrow \/ RunEnds \/ Crash

Spec == Init /\ [][Next]_vars
-----------------------------------------------------------------------------
(***************************************************************************)
(* Properties.                                                             *)
(***************************************************************************)
\* What the log calls sent, the mail server has; a job is done, and a booking of the
\* run's list dealt with, all of them when it is done, only when the mail is logged.
SentArrived ==
  /\ \A m \in Mails : "sent" \in log[m] => copies[m] > 0
  /\ \A r \in Cancels : job[r].state = "done" => "sent" \in log[<<"cancelled", r>>]
  /\ \A b \in run.list \ run.todo : "sent" \in log[<<"reminder", b>>]
  /\ run.state = "done" => run.todo = {}

\* No mail is sent twice, however often it is retried and the run repeated, unless
\* the process died or a write or an answer was lost just after the mail had been
\* accepted.
OneCopy == \A m \in Mails : copies[m] > 1 => m \in shaky

\* The customer gets one mail of a cancellation, unless two requests had both found
\* the booking active and then both cancelled it.
OneCancellation ==
  \A r1, r2 \in Cancels :
    r1 # r2 /\ job[r1].state \in Queued /\ job[r2].state \in Queued /\ job[r1].of = job[r2].of
      => job[r1].of \in twice

\* A booking that was cancelled before the run, or between two starts of it, gets no
\* reminder in it.
RemindsTheLiving ==
  \A b \in gone : sending["reminder"].to # b /\ b \notin run.todo
=============================================================================
