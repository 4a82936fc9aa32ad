--------------------------- MODULE Delivery_proofs ---------------------------
(***************************************************************************)
(* Theorems of how the parts reach each other, for any number of tabs,     *)
(* bookings, gateways, domains, changes, attempts and crashes: the types   *)
(* and the safety invariants of the five components of MCDelivery, each    *)
(* with its own inductive invariant.  A behaviour of MCDelivery is, for    *)
(* every component, one of that component or a stutter; the last theorems  *)
(* say so.                                                                 *)
(***************************************************************************)
EXTENDS MCDelivery, TLAPS

-----------------------------------------------------------------------------
(* Mail: the jobs, the reminder run, the copies that went out and the log (email.service.ts,
   queue.ts, reminder.worker.ts). *)

(* The types the arguments need: counters are numbers, and a mail under way has *)
(* somebody it goes to.                                                          *)
JobStates == {"none", "lost", "read", "written", "waiting", "delayed", "active", "done", "failed"}
Jobs      == [of : Hands \cup {Nothing}, state : JobStates, tries : Nat, stalls : Nat]
Runs      == [state : {"due", "waiting", "active", "done", "failed"}, stalls : Nat,
              list : SUBSET Hands, todo : SUBSET Hands]
Recipients(w)    == IF w = "email" THEN Choices ELSE Hands
Sendings  == [to : Hands \cup Choices \cup {Nothing}, at : {"idle", "resolve", "smtp", "sent", "failed"}]
JobsOf ==
  /\ \A r \in Choices : job[r].state # "none" => job[r].of \in Hands
  /\ sending["email"].at # "idle" => job[sending["email"].to].state # "none"
MailTypes ==
  /\ status \in [Hands -> {"none", "confirmed", "cancelled"}]
  /\ job \in [Choices -> Jobs]
  /\ JobsOf
  /\ run \in Runs
  /\ sending \in [Letters!Workers -> Sendings]
  /\ copies \in [Letters!Mails -> Nat] /\ log \in [Letters!Mails -> SUBSET {"sent", "failed"}]
  /\ gone \subseteq Hands /\ twice \subseteq Hands /\ shaky \subseteq Letters!Mails
  /\ \A w \in Letters!Workers : sending[w].at # "idle" => sending[w].to \in Recipients(w)
  /\ \A w \in Letters!Workers : sending[w].at = "idle" => sending[w] = Letters!Idle

LEMMA JobChanges ==
  ASSUME NEW j \in Jobs, NEW n \in Nat, NEW s \in JobStates
  PROVE  LET k == [j EXCEPT !.tries = n, !.state = s] IN k \in Jobs /\ k.of = j.of
BY DEF Jobs

(* A stalled job or run waits again, or has failed. *)
LEMMA StalledJob ==
  ASSUME NEW j \in Jobs
  PROVE  /\ Letters!Stalled(j) \in Jobs /\ Letters!Stalled(j).state \in {"waiting", "failed"}
         /\ Letters!Stalled(j).of = j.of
<1> DEFINE n == j.stalls + 1
           s == IF j.stalls = 0 THEN "waiting" ELSE "failed"
<1>1. n \in Nat /\ s \in JobStates /\ s \in {"waiting", "failed"} BY DEF Jobs, JobStates
<1>2. Letters!Stalled(j) = [j EXCEPT !.stalls = n, !.state = s] BY Zenon DEF Letters!Stalled
<1> HIDE DEF n, s
<1>3. [j EXCEPT !.stalls = n, !.state = s] \in Jobs /\ [j EXCEPT !.stalls = n, !.state = s].state = s
        /\ [j EXCEPT !.stalls = n, !.state = s].of = j.of
  BY <1>1 DEF Jobs
<1> QED BY <1>1, <1>2, <1>3

RunStops(r, q) ==
  /\ q \in Runs /\ q.state \in {"waiting", "failed"} /\ q.list = {} /\ q.todo = {}
  /\ q.stalls = r.stalls + 1 /\ q.state = IF r.stalls = 0 THEN "waiting" ELSE "failed"

LEMMA StalledRun ==
  ASSUME NEW r \in Runs
  PROVE  RunStops(r, [Letters!Stalled(r) EXCEPT !.list = {}, !.todo = {}])
<1> DEFINE n == r.stalls + 1
           s == IF r.stalls = 0 THEN "waiting" ELSE "failed"
           p == [r EXCEPT !.stalls = n, !.state = s]
           q == [p EXCEPT !.list = {}, !.todo = {}]
<1>1. n \in Nat /\ s \in {"waiting", "failed"} BY DEF Runs
<1>2. Letters!Stalled(r) = p BY Zenon DEF Letters!Stalled
<1> HIDE DEF n, s
<1>3. q \in Runs /\ q.state = s /\ q.stalls = n /\ q.list = {} /\ q.todo = {}
  BY <1>1 DEF Runs
<1> HIDE DEF p
<1> QED BY <1>1, <1>2, <1>3 DEF n, s, RunStops

(* A crash ends the run under way. *)
LEMMA CrashedRun ==
  ASSUME MailTypes, Letters!Crash
  PROVE  /\ run.state # "active" => run' = run
         /\ run.state = "active" => RunStops(run, run')
BY StalledRun DEF Letters!Crash, MailTypes

(* What a step of a cancelling request changes: its own record, up to the job it queues, and *)
(* the booking it cancels.                                                                   *)
Asks(r) == \/ \E b \in Hands : Letters!CancelRead(r, b)
           \/ Letters!CancelWrite(r) \/ Letters!CancelQueue(r) \/ Letters!RequestDies(r)

AskChanges(r) ==
  /\ UNCHANGED <<run, sending, copies, log, crashes, shaky>>
  /\ job[r].state \in {"none", "read", "written"}
  /\ job'[r].state \in {"lost", "read", "written", "waiting"} /\ job'[r].of \in Hands
  /\ job'[r].tries = job[r].tries /\ job'[r].stalls = job[r].stalls
  /\ \A q \in Choices : q # r => job'[q] = job[q]
  /\ job' \in [Choices -> Jobs]
  /\ status' \in [Hands -> {"none", "confirmed", "cancelled"}] /\ gone' \cup twice' \subseteq Hands

LEMMA AsksChange ==
  ASSUME MailTypes, NEW r \in Choices, Asks(r)
  PROVE  AskChanges(r)
<1> USE DEF MailTypes, Jobs, JobStates, JobsOf, AskChanges
<1>1. ASSUME NEW b \in Hands, Letters!CancelRead(r, b) PROVE AskChanges(r)
  <2>1. job' = [job EXCEPT ![r] = [job[r] EXCEPT !.of = b, !.state = "read"]]
    BY <1>1 DEF Letters!CancelRead
  <2> QED BY <1>1, <2>1 DEF Letters!CancelRead
<1>2. CASE Letters!CancelWrite(r)
  <2>1. job[r].of \in Hands /\ job' = [job EXCEPT ![r].state = "written"] /\ job[r].state = "read"
    BY <1>2 DEF Letters!CancelWrite, Letters!Request
  <2> QED BY <1>2, <2>1 DEF Letters!CancelWrite
<1>3. CASE Letters!CancelQueue(r)
  BY <1>3 DEF Letters!CancelQueue, Letters!Request
<1>4. CASE Letters!RequestDies(r)
  BY <1>4 DEF Letters!RequestDies, Letters!Request, Letters!Asking
<1> QED BY <1>1, <1>2, <1>3, <1>4 DEF Asks

LEMMA WorkedTypes ==
  ASSUME MailTypes, NEW w \in Letters!Workers, sending[w].at # "idle", Letters!Worked(w)
  PROVE  job' \in [Choices -> Jobs] /\ JobsOf' /\ run' \in Runs /\ sending' = [sending EXCEPT ![w] = Letters!Idle]
<1> USE DEF MailTypes, Letters!Worked, Letters!Stops
<1>1. CASE w = "email"
  <2>1. sending[w].to \in Choices /\ job[sending[w].to].state # "none" /\ run' = run
    BY <1>1 DEF Recipients, JobsOf
  <2>2. job' = [job EXCEPT ![sending[w].to].state = "done"] /\ sending' = [sending EXCEPT ![w] = Letters!Idle]
    BY <1>1
  <2>3. sending'["email"].at = "idle" BY <1>1, <2>2 DEF Letters!Idle
  <2> QED BY <2>1, <2>2, <2>3 DEF Jobs, JobStates, JobsOf
<1>2. CASE w = "reminder"
  <2>1. job' = job /\ run' \in Runs /\ sending' = [sending EXCEPT ![w] = Letters!Idle]
    BY <1>2 DEF Runs
  <2>2. sending'["email"] = sending["email"] BY <1>2, <2>1 DEF Letters!Workers
  <2> QED BY <2>1, <2>2 DEF JobsOf
<1> QED BY <1>1, <1>2 DEF Letters!Workers

LEMMA ThrewTypes ==
  ASSUME MailTypes, NEW w \in Letters!Workers, sending[w].at # "idle", Letters!Threw(w)
  PROVE  job' \in [Choices -> Jobs] /\ JobsOf' /\ run' \in Runs /\ sending' = [sending EXCEPT ![w] = Letters!Idle]
<1> USE DEF MailTypes, Letters!Threw, Letters!Stops
<1>1. CASE w = "email"
  <2> DEFINE r == sending[w].to
             next == IF job[r].tries + 1 < Attempts THEN "delayed" ELSE "failed"
             j == [job[r] EXCEPT !.tries = @ + 1, !.state = next]
  <2>1. r \in Choices /\ job[r] \in Jobs /\ job[r].of \in Hands /\ run' = run
    BY <1>1 DEF Recipients, JobsOf
  <2>2. next \in JobStates /\ job[r].tries + 1 \in Nat BY <2>1 DEF Jobs, JobStates
  <2>3. j \in Jobs /\ j.of = job[r].of
    <3> HIDE DEF next
    <3> QED BY <2>1, <2>2, JobChanges
  <2>4. job' = [job EXCEPT ![r] = j] /\ sending' = [sending EXCEPT ![w] = Letters!Idle]
    BY <1>1, <2>1
  <2>5. sending'["email"].at = "idle" BY <1>1, <2>4 DEF Letters!Idle
  <2> HIDE DEF j
  <2> QED BY <2>1, <2>3, <2>4, <2>5 DEF JobsOf
<1>2. CASE w = "reminder"
  <2>3. job' = job /\ run' = [run EXCEPT !.state = "failed", !.list = {}, !.todo = {}]
          /\ sending' = [sending EXCEPT ![w] = Letters!Idle]
    BY <1>2
  <2>1. run' \in Runs
    BY <2>3 DEF Runs
  <2>2. sending'["email"] = sending["email"] BY <1>2, <2>3 DEF Letters!Workers
  <2> QED BY <2>1, <2>2, <2>3 DEF JobsOf
<1> QED BY <1>1, <1>2 DEF Letters!Workers

(* A mail under way ends, or goes on to the next step: its worker stays well typed. *)
LEMMA SendingTypes ==
  ASSUME MailTypes, NEW w \in Letters!Workers, NEW s \in Sendings,
         s.at # "idle" => s.to \in Recipients(w), s.at = "idle" => s = Letters!Idle,
         sending' = [sending EXCEPT ![w] = s]
  PROVE  /\ sending' \in [Letters!Workers -> Sendings]
         /\ \A v \in Letters!Workers : sending'[v].at # "idle" => sending'[v].to \in Recipients(v)
         /\ \A v \in Letters!Workers : sending'[v].at = "idle" => sending'[v] = Letters!Idle
BY DEF MailTypes

LEMMA IdleTypes == Letters!Idle \in Sendings /\ Letters!Idle.at = "idle"
BY DEF Letters!Idle, Sendings

LEMMA StepTypes ==
  ASSUME MailTypes, NEW w \in Letters!Workers, sending[w].at # "idle",
         NEW at \in {"resolve", "smtp", "sent", "failed"}, Letters!Step(w, at)
  PROVE  /\ sending' \in [Letters!Workers -> Sendings]
         /\ \A v \in Letters!Workers : sending'[v].at # "idle" => sending'[v].to \in Recipients(v)
         /\ \A v \in Letters!Workers : sending'[v].at = "idle" => sending'[v] = Letters!Idle
         /\ UNCHANGED job => JobsOf'
<1> DEFINE s == [sending[w] EXCEPT !.at = at]
<1>1. s \in Sendings /\ s.at # "idle" /\ s.to \in Recipients(w) BY DEF MailTypes, Sendings
<1>2. sending' = [sending EXCEPT ![w] = s] BY DEF Letters!Step, MailTypes
<1>3. sending'["email"].to = sending["email"].to /\ (sending'["email"].at # "idle" => sending["email"].at # "idle")
  BY <1>2 DEF MailTypes, Letters!Workers, Sendings
<1> QED BY <1>1, <1>2, <1>3, SendingTypes DEF MailTypes, JobsOf

LEMMA MailTypesKept ==
  ASSUME MailTypes, [Letters!Next]_(Letters!vars)
  PROVE  MailTypes'
<1>0. Letters!Idle \in Sendings /\ Letters!Idle.at = "idle" BY IdleTypes
<1>1. ASSUME NEW b \in Hands, Letters!Book(b) PROVE MailTypes'
  BY <1>1 DEF Letters!Book, MailTypes, JobsOf
<1>2. ASSUME NEW r \in Choices, Asks(r) PROVE MailTypes'
  <2>1. AskChanges(r) BY <1>2, AsksChange
  <2>2. JobsOf'
    BY <2>1 DEF AskChanges, MailTypes, JobsOf, Recipients, Letters!Workers
  <2> QED BY <2>1, <2>2 DEF AskChanges, MailTypes
<1>3. ASSUME NEW r \in Choices, Letters!TakeJob(r) PROVE MailTypes'
  <2> DEFINE s == [to |-> r, at |-> "resolve"]
  <2>1. s \in Sendings /\ s.to \in Recipients("email") BY DEF Sendings, Recipients
  <2>2. sending' = [sending EXCEPT !["email"] = s] /\ "email" \in Letters!Workers
          /\ job' = [job EXCEPT ![r].state = "active"] /\ job[r].state = "waiting"
    BY <1>3 DEF Letters!TakeJob, Letters!Starts, Letters!Request, Letters!Workers
  <2>3. /\ sending' \in [Letters!Workers -> Sendings]
        /\ \A v \in Letters!Workers : sending'[v].at # "idle" => sending'[v].to \in Recipients(v)
        /\ \A v \in Letters!Workers : sending'[v].at = "idle" => sending'[v] = Letters!Idle
    BY <2>1, <2>2, SendingTypes
  <2>4. job' \in [Choices -> Jobs] /\ JobsOf'
    <3>1. sending'["email"].to = r BY <2>2 DEF MailTypes
    <3> QED BY <2>2, <3>1 DEF MailTypes, Jobs, JobStates, JobsOf
  <2> QED BY <1>3, <2>3, <2>4 DEF Letters!TakeJob, Letters!OutsideMail, MailTypes
<1>4. ASSUME NEW r \in Choices, Letters!DelayEnds(r) PROVE MailTypes'
  <2>1. job' = [job EXCEPT ![r].state = "waiting"] /\ job[r].state = "delayed" /\ UNCHANGED sending
    BY <1>4 DEF Letters!DelayEnds, Letters!Request
  <2>2. job' \in [Choices -> Jobs] /\ JobsOf'
    BY <2>1 DEF MailTypes, Jobs, JobStates, JobsOf
  <2> QED BY <1>4, <2>1, <2>2 DEF Letters!DelayEnds, Letters!OutsideMail, MailTypes
<1>5. ASSUME NEW b \in Hands, Letters!Remind(b) PROVE MailTypes'
  <2>1. CASE "sent" \in log[<<"reminder", b>>]
    BY <1>5, <2>1 DEF Letters!Remind, Letters!OutsideMail, MailTypes, Runs, JobsOf
  <2>2. CASE "sent" \notin log[<<"reminder", b>>]
    <3> DEFINE s == [to |-> b, at |-> "resolve"]
    <3>1. s \in Sendings /\ s.to \in Recipients("reminder") BY DEF Sendings, Recipients
    <3>2. sending' = [sending EXCEPT !["reminder"] = s] /\ "reminder" \in Letters!Workers
      BY <1>5, <2>2 DEF Letters!Remind, Letters!Starts, Letters!Workers
    <3>3. /\ sending' \in [Letters!Workers -> Sendings]
          /\ \A v \in Letters!Workers : sending'[v].at # "idle" => sending'[v].to \in Recipients(v)
          /\ \A v \in Letters!Workers : sending'[v].at = "idle" => sending'[v] = Letters!Idle
      BY <3>1, <3>2, SendingTypes
    <3>4. JobsOf'
      BY <1>5, <2>2, <3>2 DEF Letters!Remind, MailTypes, JobsOf, Letters!Workers
    <3> QED BY <1>5, <2>2, <3>3, <3>4 DEF Letters!Remind, Letters!OutsideMail, MailTypes, Runs
  <2> QED BY <2>1, <2>2
<1>6. ASSUME NEW w \in Letters!Workers, Letters!Resolve(w) PROVE MailTypes'
  BY <1>6, StepTypes DEF Letters!Resolve, Letters!OutsideMail, MailTypes, Runs
<1>7. ASSUME NEW w \in Letters!Workers, Letters!Submit(w) PROVE MailTypes'
  <2>1. Letters!MailOf(w) \in Letters!Mails
    BY <1>7 DEF Letters!Submit, MailTypes, Letters!MailOf, Letters!Mails, Letters!Kind, Letters!Workers, Recipients
  <2>2. copies' \in [Letters!Mails -> Nat] /\ shaky' \subseteq Letters!Mails
    BY <1>7, <2>1 DEF Letters!Submit, MailTypes
  <2> QED BY <1>7, <2>2, StepTypes DEF Letters!Submit, Letters!OutsideMail, MailTypes, Runs
<1>8. ASSUME NEW w \in Letters!Workers, Letters!LogSent(w) PROVE MailTypes'
  <2>1. Letters!MailOf(w) \in Letters!Mails
    BY <1>8 DEF Letters!LogSent, MailTypes, Letters!MailOf, Letters!Mails, Letters!Kind, Letters!Workers, Recipients
  <2>2. CASE Letters!Worked(w) /\ log' = [log EXCEPT ![Letters!MailOf(w)] = @ \cup {"sent"}]
               /\ UNCHANGED shaky
    <3>1. log' \in [Letters!Mails -> SUBSET {"sent", "failed"}] BY <2>1, <2>2 DEF MailTypes
    <3> QED BY <1>0, <1>8, <2>1, <2>2, <3>1, WorkedTypes, SendingTypes
               DEF Letters!LogSent, Letters!OutsideMail, MailTypes, Runs
  <2>3. CASE Letters!Step(w, "failed") /\ shaky' = shaky \cup {Letters!MailOf(w)}
               /\ UNCHANGED <<log, job, run>>
    BY <1>8, <2>1, <2>3, StepTypes DEF Letters!LogSent, Letters!OutsideMail, MailTypes, Runs
  <2> QED BY <1>8, <2>2, <2>3 DEF Letters!LogSent
<1>9. ASSUME NEW w \in Letters!Workers, Letters!LogFailed(w) PROVE MailTypes'
  <2>1. Letters!MailOf(w) \in Letters!Mails
    BY <1>9 DEF Letters!LogFailed, MailTypes, Letters!MailOf, Letters!Mails, Letters!Kind, Letters!Workers, Recipients
  <2>2. log' \in [Letters!Mails -> SUBSET {"sent", "failed"}]
    <3>1. PICK rows \in {{"failed"}, {}} : log' = [log EXCEPT ![Letters!MailOf(w)] = @ \cup rows]
      BY <1>9 DEF Letters!LogFailed
    <3>2. rows \subseteq {"sent", "failed"} OBVIOUS
    <3> QED BY <2>1, <3>1, <3>2 DEF MailTypes
  <2> QED BY <1>0, <1>9, <2>1, <2>2, ThrewTypes, SendingTypes
             DEF Letters!LogFailed, Letters!OutsideMail, MailTypes, Runs
<1>10. ASSUME NEW w \in Letters!Workers, Letters!ResolveFails(w) PROVE MailTypes'
  <2> QED BY <1>0, <1>10, ThrewTypes, SendingTypes
             DEF Letters!ResolveFails, Letters!OutsideMail, MailTypes, Runs
<1>11. CASE Letters!ReadTomorrow
  BY <1>11 DEF Letters!ReadTomorrow, Letters!Lists, Letters!OutsideMail, MailTypes, Runs, JobsOf
<1>12. CASE Letters!RunEnds
  BY <1>12 DEF Letters!RunEnds, Letters!OutsideMail, MailTypes, Runs, JobsOf
<1>13. CASE Letters!Crash
  <2>1. job' \in [Choices -> Jobs] /\ JobsOf'
    <3>1. \A r \in Choices : Letters!Stalled(job[r]) \in Jobs /\ Letters!Stalled(job[r]).of = job[r].of
      BY StalledJob DEF MailTypes
    <3>2. sending'["email"].at = "idle" BY <1>13 DEF Letters!Crash, Letters!Idle, Letters!Workers
    <3> QED BY <1>13, <3>1, <3>2 DEF Letters!Crash, MailTypes, JobsOf
  <2>2. run' \in Runs
    BY <1>13, CrashedRun DEF RunStops, MailTypes
  <2>3. {Letters!MailOf(w) : w \in {v \in Letters!Workers : sending[v].at = "sent"}} \subseteq Letters!Mails
    BY DEF MailTypes, Letters!MailOf, Letters!Mails, Letters!Kind, Letters!Workers, Recipients
  <2> QED BY <1>0, <1>13, <2>1, <2>2, <2>3 DEF Letters!Crash, MailTypes
<1>14. CASE UNCHANGED Letters!vars
  BY <1>14 DEF Letters!vars, MailTypes, JobsOf
<1> QED
  BY <1>1, <1>2, <1>3, <1>4, <1>5, <1>6, <1>7, <1>8, <1>9, <1>10, <1>11, <1>12, <1>13, <1>14
     DEF Letters!Next, Letters!Send, Asks

LEMMA InitMailTypes == Letters!Init => MailTypes
BY IdleTypes DEF Letters!Init, Letters!NewJob, Letters!NewRun, MailTypes, Jobs, Runs, JobStates, JobsOf, Letters!Workers

-----------------------------------------------------------------------------
(* What the log says. *)

(* A mail that waits for its row "sent" has been accepted. *)
ArrivedInv ==
  /\ Letters!SentArrived
  /\ \A w \in Letters!Workers : sending[w].at = "sent" => copies[Letters!MailOf(w)] > 0

LEMMA ArrivedKept ==
  ASSUME MailTypes, ArrivedInv, [Letters!Next]_(Letters!vars)
  PROVE  ArrivedInv'
<1> USE DEF ArrivedInv, Letters!SentArrived
<1>a. ASSUME NEW b \in Hands, Letters!Book(b) PROVE ArrivedInv'
  BY <1>a DEF Letters!Book, Letters!MailOf
<1>b. ASSUME NEW r \in Choices, Asks(r) PROVE ArrivedInv'
  <2>1. AskChanges(r) BY <1>b, AsksChange
  <2> QED BY <2>1 DEF AskChanges, Letters!MailOf
<1>c. ASSUME NEW r \in Choices, Letters!TakeJob(r) \/ Letters!DelayEnds(r) PROVE ArrivedInv'
  BY <1>c
     DEF Letters!TakeJob, Letters!DelayEnds, Letters!Starts, Letters!Request, Letters!OutsideMail,
         Letters!MailOf, MailTypes, Jobs, Letters!Workers
<1>1. ASSUME NEW b \in Hands, Letters!Remind(b) PROVE ArrivedInv'
  <2>1. CASE "sent" \in log[<<"reminder", b>>]
    <3>1. /\ run' = [run EXCEPT !.todo = @ \ {b}]
          /\ UNCHANGED <<sending, job, copies, log>>
      BY <1>1, <2>1 DEF Letters!Remind
    <3>2. run'.todo = run.todo \ {b} /\ run'.list = run.list /\ run'.state = run.state
      BY <3>1 DEF MailTypes, Runs
    <3> QED BY <2>1, <3>1, <3>2 DEF Letters!MailOf
  <2>2. CASE "sent" \notin log[<<"reminder", b>>]
    BY <1>1, <2>2
       DEF Letters!Remind, Letters!Starts, Letters!MailOf, MailTypes, Letters!Workers
  <2> QED BY <2>1, <2>2
<1>2. ASSUME NEW w \in Letters!Workers, Letters!Resolve(w) PROVE ArrivedInv'
  BY <1>2 DEF Letters!Resolve, Letters!Step, Letters!OutsideMail, Letters!MailOf, MailTypes, Sendings
<1>3. ASSUME NEW w \in Letters!Workers, Letters!Submit(w) PROVE ArrivedInv'
  <2>1. Letters!MailOf(w) \in Letters!Mails
    BY <1>3 DEF Letters!Submit, MailTypes, Letters!MailOf, Letters!Mails, Letters!Kind, Letters!Workers, Recipients
  <2>2. \A v \in Letters!Workers : Letters!MailOf(v)' = Letters!MailOf(v)
          /\ (v # w => sending'[v] = sending[v])
    BY <1>3 DEF Letters!Submit, Letters!Step, MailTypes, Sendings, Letters!MailOf
  <2>3. \A m \in Letters!Mails : copies'[m] \in Nat /\ copies'[m] >= copies[m]
    BY <1>3, <2>1 DEF Letters!Submit, MailTypes
  <2>4. sending'[w].at = "sent" => copies'[Letters!MailOf(w)] > 0
    BY <1>3, <2>1 DEF Letters!Submit, Letters!Step, MailTypes, Sendings
  <2>5. \A v \in Letters!Workers : sending[v].at = "sent" => Letters!MailOf(v) \in Letters!Mails
    BY DEF MailTypes, Letters!MailOf, Letters!Mails, Letters!Kind, Letters!Workers, Recipients
  <2>6. Letters!SentArrived'
    BY <1>3, <2>3 DEF Letters!Submit, MailTypes
  <2>7. ASSUME NEW v \in Letters!Workers, sending'[v].at = "sent" PROVE copies'[Letters!MailOf(v)'] > 0
    <3>1. CASE v = w BY <2>2, <2>4, <2>7, <3>1
    <3>2. CASE v # w
      <4>1. sending[v].at = "sent" /\ Letters!MailOf(v) \in Letters!Mails BY <2>2, <2>5, <2>7, <3>2
      <4> QED BY <2>2, <2>3, <4>1 DEF MailTypes
    <3> QED BY <3>1, <3>2
  <2> QED BY <2>6, <2>7
<1>4. ASSUME NEW w \in Letters!Workers, Letters!LogSent(w) PROVE ArrivedInv'
  <2>1. Letters!MailOf(w) \in Letters!Mails /\ copies[Letters!MailOf(w)] > 0
          /\ UNCHANGED copies
    BY <1>4 DEF Letters!LogSent, MailTypes, Letters!MailOf, Letters!Mails, Letters!Kind, Letters!Workers, Recipients
  <2>2. \A v \in Letters!Workers : sending'[v].at = "sent" => sending'[v] = sending[v]
    BY <1>4
       DEF Letters!LogSent, Letters!Worked, Letters!Stops, Letters!Step, Letters!Idle, MailTypes, Sendings
  <2>3. \A m \in Letters!Mails : "sent" \in log'[m] => "sent" \in log[m] \/ m = Letters!MailOf(w)
    BY <1>4, <2>1 DEF Letters!LogSent, MailTypes
  <2>4. \A m \in Letters!Mails : "sent" \in log[m] => "sent" \in log'[m]
    BY <1>4, <2>1 DEF Letters!LogSent, MailTypes
  <2>5. ASSUME NEW r \in Choices, job'[r].state = "done" PROVE "sent" \in log'[<<"cancelled", r>>]
    <3>1. job[r].state = "done"
            \/ (w = "email" /\ r = sending[w].to
              /\ log' = [log EXCEPT ![Letters!MailOf(w)] = @ \cup {"sent"}])
      BY <1>4, <2>1, <2>5 DEF Letters!LogSent, Letters!Worked, MailTypes, Jobs
    <3>2. CASE job[r].state = "done"
      BY <2>4, <3>2 DEF Letters!Mails
    <3>3. CASE w = "email" /\ r = sending[w].to /\ log' = [log EXCEPT ![Letters!MailOf(w)] = @ \cup {"sent"}]
      BY <2>1, <3>3 DEF Letters!MailOf, Letters!Kind, MailTypes
    <3> QED BY <3>1, <3>2, <3>3
  <2>6. /\ run'.state = run.state /\ run'.list = run.list /\ run'.todo \subseteq run.todo
        /\ \A b \in run.todo \ run'.todo : "sent" \in log'[<<"reminder", b>>]
    <3>1. CASE run' = run BY <3>1
    <3>2. CASE /\ w = "reminder" /\ run' = [run EXCEPT !.todo = @ \ {sending[w].to}]
               /\ log' = [log EXCEPT ![Letters!MailOf(w)] = @ \cup {"sent"}]
      <4>1. run'.state = run.state /\ run'.list = run.list /\ run'.todo = run.todo \ {sending[w].to}
        BY <3>2 DEF MailTypes, Runs
      <4>2. Letters!MailOf(w) = <<"reminder", sending[w].to>>
        BY <3>2 DEF Letters!MailOf, Letters!Kind
      <4>3. "sent" \in log'[Letters!MailOf(w)]
        BY <2>1, <3>2 DEF MailTypes
      <4> QED BY <4>1, <4>2, <4>3
    <3> QED BY <1>4, <3>1, <3>2 DEF Letters!LogSent, Letters!Worked, Letters!Workers
  <2>7. \A b \in run'.list \ run'.todo : "sent" \in log'[<<"reminder", b>>]
    <3>1. \A b \in Hands : "sent" \in log[<<"reminder", b>>] => "sent" \in log'[<<"reminder", b>>]
      BY <2>4 DEF Letters!Mails
    <3> QED BY <2>6, <3>1 DEF MailTypes, Runs
  <2> QED BY <2>1, <2>2, <2>3, <2>5, <2>6, <2>7 DEF Letters!MailOf
<1>5. ASSUME NEW w \in Letters!Workers, sending[w].at # "idle", Letters!Threw(w), UNCHANGED copies,
             log' = log \/ \E rows \in {{"failed"}, {}} :
                              log' = [log EXCEPT ![Letters!MailOf(w)] = @ \cup rows]
      PROVE  ArrivedInv'
  <2>1. Letters!MailOf(w) \in Letters!Mails
    BY <1>5 DEF MailTypes, Letters!MailOf, Letters!Mails, Letters!Kind, Letters!Workers, Recipients
  <2>2. \A m \in Letters!Mails : "sent" \in log'[m] <=> "sent" \in log[m]
    BY <1>5, <2>1 DEF MailTypes
  <2>3. \A r \in Choices : job'[r].state = "done" => job[r].state = "done"
    BY <1>5 DEF Letters!Threw, MailTypes, Jobs
  <2>4. \A v \in Letters!Workers : sending'[v].at = "sent" => sending'[v] = sending[v]
    BY <1>5 DEF Letters!Threw, Letters!Stops, Letters!Idle, MailTypes
  <2>5. run' = run \/ run' = [run EXCEPT !.state = "failed", !.list = {}, !.todo = {}]
    BY <1>5 DEF Letters!Threw
  <2>6. run' = run \/ (run'.state = "failed" /\ run'.list = {} /\ run'.todo = {})
    <3>1. CASE run' = [run EXCEPT !.state = "failed", !.list = {}, !.todo = {}]
      BY <3>1 DEF MailTypes, Runs
    <3> QED BY <2>5, <3>1
  <2>7. \A b \in run'.list : b \in Hands /\ run' = run
    BY <2>6 DEF MailTypes, Runs
  <2> QED BY <1>5, <2>2, <2>3, <2>4, <2>6, <2>7 DEF Letters!MailOf, Letters!Mails
<1>6. ASSUME NEW w \in Letters!Workers, Letters!LogFailed(w) \/ Letters!ResolveFails(w) PROVE ArrivedInv'
  BY <1>5, <1>6 DEF Letters!LogFailed, Letters!ResolveFails
<1>7. CASE Letters!ReadTomorrow
  <2>1. run'.state = "active" /\ run'.list = run'.todo
    BY <1>7 DEF Letters!ReadTomorrow, Letters!Lists, MailTypes, Runs
  <2> QED BY <1>7, <2>1 DEF Letters!ReadTomorrow, Letters!MailOf
<1>8. CASE Letters!RunEnds
  <2>1. run'.state = "done" /\ run'.list = run.list /\ run'.todo = {} /\ run.todo = {}
    BY <1>8 DEF Letters!RunEnds, MailTypes, Runs
  <2> QED BY <1>8, <2>1 DEF Letters!RunEnds, Letters!MailOf
<1>9. CASE Letters!Crash
  <2>1. \A r \in Choices : job'[r].state = "done" => job[r].state = "done"
    BY <1>9, StalledJob DEF Letters!Crash, MailTypes
  <2>2. \A w \in Letters!Workers : sending'[w].at # "sent"
    BY <1>9 DEF Letters!Crash, Letters!Idle
  <2>3. run' = run \/ (run'.list = {} /\ run'.todo = {})
    BY <1>9, CrashedRun DEF RunStops
  <2> QED BY <1>9, <2>1, <2>2, <2>3 DEF Letters!Crash
<1>10. CASE UNCHANGED Letters!vars BY <1>10 DEF Letters!vars, Letters!MailOf
<1> QED
  BY <1>a, <1>b, <1>c, <1>1, <1>2, <1>3, <1>4, <1>6, <1>7, <1>8, <1>9, <1>10
     DEF Letters!Next, Letters!Send, Asks

(* What the log calls sent the mail server has accepted, and a job that is done has *)
(* sent its mail, whatever fails and whenever the worker dies.                      *)
THEOREM LoggedHasArrived == Letters!Spec => []Letters!SentArrived
<1>1. Letters!Init => ArrivedInv
  BY IdleTypes DEF Letters!Init, Letters!NewJob, Letters!NewRun, ArrivedInv, Letters!SentArrived, Letters!Idle
<1>2. ArrivedInv => Letters!SentArrived
  BY DEF ArrivedInv
<1> QED BY <1>1, <1>2, InitMailTypes, MailTypesKept, ArrivedKept, PTL DEF Letters!Spec

-----------------------------------------------------------------------------
(* Nobody gets a mail twice. *)

At(w, c, at) == sending[w].to = c /\ sending[w].at = at
Cancelled(r) == <<"cancelled", r>>
Reminder(b)  == <<"reminder", b>>

(* OneCopy alone is not inductive: a second copy is sent by a job that is tried     *)
(* again, or a run that starts again.  A mail that was accepted has a finished job, *)
(* or its row in the log, or is about to get it; and neither is sent again.         *)
Accounted ==
  /\ \A r \in Choices : copies[Cancelled(r)] > 0 =>
       Cancelled(r) \in shaky \/ job[r].state = "done" \/ At("email", r, "sent")
  /\ \A b \in Hands : copies[Reminder(b)] > 0 =>
       Reminder(b) \in shaky \/ "sent" \in log[Reminder(b)] \/ At("reminder", b, "sent")
SentOnce ==
  /\ sending["email"].at # "idle" => job[sending["email"].to].state = "active"
  /\ sending["reminder"].at # "idle" => "sent" \notin log[Reminder(sending["reminder"].to)]
OnceInv == Letters!OneCopy /\ Accounted /\ SentOnce

(* A step that sends nothing and forgets nothing of what accounts for a mail. *)
LEMMA StaysAccounted ==
  ASSUME OnceInv, UNCHANGED copies, shaky \subseteq shaky',
         \A r \in Choices : job[r].state = "done" => job'[r].state = "done",
         \A b \in Hands : "sent" \in log[Reminder(b)] => "sent" \in log'[Reminder(b)],
         \A r \in Choices : At("email", r, "sent") =>
            At("email", r, "sent")' \/ job'[r].state = "done" \/ Cancelled(r) \in shaky',
         \A b \in Hands : At("reminder", b, "sent") =>
            At("reminder", b, "sent")' \/ "sent" \in log'[Reminder(b)] \/ Reminder(b) \in shaky'
  PROVE  Letters!OneCopy' /\ Accounted'
BY DEF OnceInv, Letters!OneCopy, Accounted, Cancelled, Reminder

LEMMA MailsOf ==
  ASSUME MailTypes, NEW w \in Letters!Workers, sending[w].at # "idle"
  PROVE  /\ Letters!MailOf(w) \in Letters!Mails
         /\ w = "email" => sending[w].to \in Choices /\ Letters!MailOf(w) = Cancelled(sending[w].to)
         /\ w # "email" => /\ w = "reminder" /\ sending[w].to \in Hands
                           /\ Letters!MailOf(w) = Reminder(sending[w].to)
BY DEF MailTypes, Letters!MailOf, Letters!Mails, Letters!Kind, Letters!Workers, Cancelled, Reminder, Recipients

LEMMA OnceKept ==
  ASSUME MailTypes, OnceInv, [Letters!Next]_(Letters!vars)
  PROVE  OnceInv'
<1>a. /\ \A r \in Choices : Cancelled(r) \in Letters!Mails
      /\ \A b \in Hands : Reminder(b) \in Letters!Mails
  BY DEF Letters!Mails, Cancelled, Reminder
<1>b. ASSUME NEW b \in Hands, Letters!Book(b) PROVE OnceInv'
  BY <1>b DEF Letters!Book, OnceInv, Letters!OneCopy, Accounted, SentOnce, At, Cancelled, Reminder
<1>c. ASSUME NEW r \in Choices, Asks(r) PROVE OnceInv'
  <2>1. AskChanges(r) BY <1>c, AsksChange
  <2>2. Letters!OneCopy' /\ Accounted'
    BY <2>1, StaysAccounted DEF AskChanges, At
  <2>3. SentOnce'
    BY <2>1 DEF AskChanges, OnceInv, SentOnce, MailTypes, Recipients, Letters!Workers, Reminder
  <2> QED BY <2>2, <2>3 DEF OnceInv
<1>1. ASSUME NEW r \in Choices, Letters!TakeJob(r) \/ Letters!DelayEnds(r) PROVE OnceInv'
  <2> USE DEF Letters!TakeJob, Letters!DelayEnds, Letters!Starts, Letters!Request, Letters!OutsideMail
  <2>1. Letters!OneCopy' /\ Accounted'
    BY <1>1, StaysAccounted
       DEF MailTypes, Jobs, Letters!Workers, At, OnceInv, SentOnce, Letters!Idle, Reminder, Cancelled
  <2>2. SentOnce'
    BY <1>1 DEF MailTypes, Jobs, Letters!Workers, OnceInv, SentOnce, Letters!Idle, Reminder, Recipients
  <2> QED BY <2>1, <2>2 DEF OnceInv
<1>2. ASSUME NEW b \in Hands, Letters!Remind(b) PROVE OnceInv'
  <2>1. Letters!OneCopy' /\ Accounted'
    BY <1>2, StaysAccounted
       DEF Letters!Remind, Letters!Starts, Letters!OutsideMail, MailTypes, Letters!Workers, At, Letters!Idle
  <2>2. SentOnce'
    BY <1>2
       DEF Letters!Remind, Letters!Starts, Letters!OutsideMail, MailTypes, Letters!Workers, OnceInv,
           SentOnce, Letters!Idle, Reminder
  <2> QED BY <2>1, <2>2 DEF OnceInv
<1>3. ASSUME NEW w \in Letters!Workers, Letters!Resolve(w) PROVE OnceInv'
  <2>1. Letters!OneCopy' /\ Accounted'
    BY <1>3, StaysAccounted
       DEF Letters!Resolve, Letters!Step, Letters!OutsideMail, MailTypes, Letters!Workers, At, Sendings
  <2>2. SentOnce'
    BY <1>3
       DEF Letters!Resolve, Letters!Step, Letters!OutsideMail, MailTypes, Letters!Workers, OnceInv, SentOnce,
           Sendings, Reminder
  <2> QED BY <2>1, <2>2 DEF OnceInv
<1>4. ASSUME NEW w \in Letters!Workers, Letters!Submit(w) PROVE OnceInv'
  <2>1. sending[w].at = "smtp" /\ UNCHANGED <<job, log, status>>
          /\ \E at \in {"sent", "failed"} : Letters!Step(w, at)
    BY <1>4 DEF Letters!Submit, Letters!OutsideMail
  <2>2. SentOnce'
    BY <2>1 DEF Letters!Step, MailTypes, Letters!Workers, OnceInv, SentOnce, Sendings, Reminder
  <2>3. copies[Letters!MailOf(w)] = 0 \/ Letters!MailOf(w) \in shaky
    BY <2>1, MailsOf DEF OnceInv, Accounted, SentOnce, At, MailTypes, Jobs, Letters!Workers
  <2>4. Letters!OneCopy'
    BY <1>4, <2>1, <2>3, MailsOf DEF Letters!Submit, OnceInv, Letters!OneCopy, MailTypes
  <2>5. \A m \in Letters!Mails : copies'[m] > 0 =>
          copies[m] > 0 \/ m \in shaky' \/ (m = Letters!MailOf(w) /\ Letters!Step(w, "sent"))
    BY <1>4, <2>1, MailsOf DEF Letters!Submit, MailTypes
  <2>6. \A v \in Letters!Workers : v # w => sending'[v] = sending[v]
    BY <2>1 DEF Letters!Step, MailTypes
  <2>7. Letters!Step(w, "sent") => sending'[w].to = sending[w].to /\ sending'[w].at = "sent"
    BY DEF Letters!Step, MailTypes, Sendings
  <2>8. shaky \subseteq shaky'
    BY <1>4 DEF Letters!Submit
  <2>9. ASSUME NEW r \in Choices, copies'[Cancelled(r)] > 0
        PROVE  Cancelled(r) \in shaky' \/ job'[r].state = "done" \/ At("email", r, "sent")'
    <3>1. CASE copies[Cancelled(r)] > 0
      BY <2>1, <2>6, <2>8, <3>1 DEF OnceInv, Accounted, At, Letters!Workers
    <3>2. CASE Cancelled(r) = Letters!MailOf(w) /\ Letters!Step(w, "sent")
      BY <2>1, <2>7, <3>2, MailsOf DEF At, Cancelled, Reminder
    <3> QED BY <1>a, <2>5, <2>9, <3>1, <3>2
  <2>10. ASSUME NEW b \in Hands, copies'[Reminder(b)] > 0
        PROVE  Reminder(b) \in shaky' \/ "sent" \in log'[Reminder(b)] \/ At("reminder", b, "sent")'
    <3>1. CASE copies[Reminder(b)] > 0
      BY <2>1, <2>6, <2>8, <3>1 DEF OnceInv, Accounted, At, Letters!Workers, Reminder
    <3>2. CASE Reminder(b) = Letters!MailOf(w) /\ Letters!Step(w, "sent")
      BY <2>1, <2>7, <3>2, MailsOf DEF At, Cancelled, Reminder
    <3> QED BY <1>a, <2>5, <2>10, <3>1, <3>2
  <2> QED BY <2>2, <2>4, <2>9, <2>10 DEF OnceInv, Accounted, Cancelled, Reminder
<1>5. ASSUME NEW w \in Letters!Workers, Letters!LogSent(w) PROVE OnceInv'
  <2>1. sending[w].at = "sent" /\ UNCHANGED <<copies, status>>
    BY <1>5 DEF Letters!LogSent, Letters!OutsideMail
  <2>2. CASE Letters!Worked(w) /\ log' = [log EXCEPT ![Letters!MailOf(w)] = @ \cup {"sent"}]
               /\ UNCHANGED shaky
    <3>1. CASE w = "email"
      <4>1. Letters!MailOf(w) = Cancelled(sending[w].to) /\ sending[w].to \in Choices
              /\ Letters!MailOf(w) \in Letters!Mails
        BY <2>1, <3>1, MailsOf
      <4>2. job' = [job EXCEPT ![sending[w].to].state = "done"]
              /\ sending' = [sending EXCEPT !["email"] = Letters!Idle]
        BY <2>2, <3>1 DEF Letters!Worked, Letters!Stops
      <4>3. \A b \in Hands : log'[Reminder(b)] = log[Reminder(b)]
        BY <1>a, <2>2, <4>1 DEF MailTypes, Cancelled, Reminder
      <4>4. Letters!OneCopy' /\ Accounted'
        BY <2>1, <2>2, <3>1, <4>1, <4>2, <4>3, StaysAccounted DEF At, MailTypes, Jobs, Letters!Workers
      <4>5. SentOnce'
        BY <2>1, <3>1, <4>1, <4>2, <4>3
           DEF OnceInv, SentOnce, MailTypes, Jobs, Letters!Workers, Letters!Idle, Reminder, Recipients
      <4> QED BY <4>4, <4>5 DEF OnceInv
    <3>2. CASE w = "reminder"
      <4>1. Letters!MailOf(w) = Reminder(sending[w].to) /\ sending[w].to \in Hands
              /\ Letters!MailOf(w) \in Letters!Mails
        BY <2>1, <3>2, MailsOf
      <4>2. UNCHANGED job /\ sending' = [sending EXCEPT !["reminder"] = Letters!Idle]
        BY <2>2, <3>2 DEF Letters!Worked, Letters!Stops
      <4>3. Letters!OneCopy' /\ Accounted'
        BY <1>a, <2>1, <2>2, <3>2, <4>1, <4>2, StaysAccounted DEF At, MailTypes, Letters!Workers
      <4>4. SentOnce'
        BY <2>1, <3>2, <4>1, <4>2 DEF OnceInv, SentOnce, MailTypes, Letters!Workers, Letters!Idle
      <4> QED BY <4>3, <4>4 DEF OnceInv
    <3> QED BY <3>1, <3>2 DEF Letters!Workers
  <2>3. CASE Letters!Step(w, "failed") /\ shaky' = shaky \cup {Letters!MailOf(w)}
               /\ UNCHANGED <<log, job, run>>
    <3>1. \A v \in Letters!Workers : sending'[v].to = sending[v].to
                            /\ (v # w => sending'[v] = sending[v])
                            /\ (sending'[v].at # "idle" => sending[v].at # "idle")
      BY <2>1, <2>3 DEF Letters!Step, MailTypes, Sendings
    <3>2. Letters!OneCopy' /\ Accounted'
      BY <2>1, <2>3, <3>1, MailsOf, StaysAccounted DEF At, Letters!Workers
    <3>3. SentOnce'
      BY <2>1, <2>3, <3>1 DEF OnceInv, SentOnce, Letters!Workers, Reminder
    <3> QED BY <3>2, <3>3 DEF OnceInv
  <2> QED BY <1>5, <2>2, <2>3 DEF Letters!LogSent
<1>6. ASSUME NEW w \in Letters!Workers, sending[w].at \in {"resolve", "failed"}, Letters!Threw(w),
             UNCHANGED <<copies, shaky, status>>,
             log' = log \/ \E rows \in {{"failed"}, {}} :
                              log' = [log EXCEPT ![Letters!MailOf(w)] = @ \cup rows]
      PROVE  OnceInv'
  <2>1. /\ Letters!MailOf(w) \in Letters!Mails
        /\ w = "email" => sending[w].to \in Choices
        /\ w # "email" => w = "reminder" /\ sending[w].to \in Hands
    BY <1>6, MailsOf
  <2>2. \A m \in Letters!Mails : "sent" \in log'[m] <=> "sent" \in log[m]
    BY <1>6, <2>1 DEF MailTypes
  <2>3. sending' = [sending EXCEPT ![w] = Letters!Idle]
    BY <1>6 DEF Letters!Threw, Letters!Stops
  <2>4. /\ w # "email" => UNCHANGED job
        /\ w = "email" => \A r \in Choices : r # sending[w].to => job'[r] = job[r]
    BY <1>6, <2>1 DEF Letters!Threw, MailTypes
  <2>5. w = "email" => job[sending[w].to].state = "active"
    BY <1>6 DEF OnceInv, SentOnce
  <2>6. Letters!OneCopy' /\ Accounted'
    BY <1>a, <1>6, <2>1, <2>2, <2>3, <2>4, <2>5, StaysAccounted DEF At, MailTypes, Letters!Workers
  <2>7. SentOnce'
    <3>1. sending'["email"].at # "idle" => w # "email" /\ sending'["email"] = sending["email"]
      BY <2>3 DEF MailTypes, Letters!Idle, Letters!Workers
    <3>2. sending'["reminder"].at # "idle" => sending'["reminder"] = sending["reminder"]
      BY <2>3 DEF MailTypes, Letters!Idle, Letters!Workers
    <3>3. sending["reminder"].at # "idle" => sending["reminder"].to \in Hands
      BY DEF MailTypes, Letters!Workers, Recipients
    <3> QED BY <1>a, <1>6, <2>2, <2>4, <3>1, <3>2, <3>3 DEF OnceInv, SentOnce, Reminder
  <2> QED BY <2>6, <2>7 DEF OnceInv
<1>7. ASSUME NEW w \in Letters!Workers, Letters!LogFailed(w) \/ Letters!ResolveFails(w) PROVE OnceInv'
  BY <1>6, <1>7 DEF Letters!LogFailed, Letters!ResolveFails, Letters!OutsideMail
<1>8. CASE Letters!ReadTomorrow \/ Letters!RunEnds
  BY <1>8
     DEF Letters!ReadTomorrow, Letters!Lists, Letters!RunEnds, Letters!OutsideMail, OnceInv, Letters!OneCopy, Accounted,
         SentOnce, At, Cancelled, Reminder
<1>9. CASE Letters!Crash
  <2>1. \A r \in Choices : job[r].state = "done" => job'[r].state = "done"
    BY <1>9 DEF Letters!Crash
  <2>2. \A w \in Letters!Workers : sending[w].at = "sent" => Letters!MailOf(w) \in shaky'
    BY <1>9 DEF Letters!Crash
  <2>3. Letters!OneCopy' /\ Accounted'
    BY <1>9, <2>1, <2>2, MailsOf, StaysAccounted DEF Letters!Crash, At, Letters!Workers
  <2>4. SentOnce'
    BY <1>9, <2>1 DEF Letters!Crash, OnceInv, SentOnce, Letters!Idle, Letters!Workers
  <2> QED BY <2>3, <2>4 DEF OnceInv
<1>10. CASE UNCHANGED Letters!vars
  BY <1>10 DEF Letters!vars, OnceInv, Letters!OneCopy, Accounted, SentOnce, At, Cancelled, Reminder
<1> QED
  BY <1>b, <1>c, <1>1, <1>2, <1>3, <1>4, <1>5, <1>7, <1>8, <1>9, <1>10
     DEF Letters!Next, Letters!Send, Asks

(* However often a job is tried again and a run started again, the server accepts a *)
(* mail once, unless the worker died, an answer or a log row was lost just after    *)
(* the mail had been accepted.                                                      *)
THEOREM NobodyGetsItTwice == Letters!Spec => []Letters!OneCopy
<1>1. Letters!Init => OnceInv
  BY DEF Letters!Init, OnceInv, Letters!OneCopy, Accounted, SentOnce, Cancelled, Reminder, Letters!Mails,
         Letters!Idle, Letters!Workers
<1>2. OnceInv => Letters!OneCopy
  BY DEF OnceInv
<1> QED BY <1>1, <1>2, InitMailTypes, MailTypesKept, OnceKept, PTL DEF Letters!Spec

-----------------------------------------------------------------------------
(* One mail of a cancellation. *)

(* The requests that have cancelled their booking and not died before they queued the mail. *)
Cancelling == {"written"} \cup Letters!Queued

(* What such a request is of is cancelled, so that the next write finds it so. *)
CancelsInv ==
  /\ \A r \in Choices : job[r].state \in Cancelling => status[job[r].of] = "cancelled"
  /\ \A r1, r2 \in Choices :
       /\ r1 # r2 /\ job[r1].of = job[r2].of
       /\ job[r1].state \in Cancelling /\ job[r2].state \in Cancelling
       => job[r1].of \in twice

(* Steps of the queue and of the worker. *)
LEMMA QueueGoesOn ==
  ASSUME CancelsInv, UNCHANGED <<status, twice>>,
         \A r \in Choices : job'[r].of = job[r].of /\ (job'[r].state \in Cancelling => job[r].state \in Cancelling)
  PROVE  CancelsInv'
BY DEF CancelsInv, Cancelling, Letters!Queued

LEMMA CancelsKept ==
  ASSUME MailTypes, OnceInv, CancelsInv, [Letters!Next]_(Letters!vars)
  PROVE  CancelsInv'
<1>1. ASSUME NEW b \in Hands, Letters!Book(b) PROVE CancelsInv'
  BY <1>1 DEF Letters!Book, CancelsInv, MailTypes, JobsOf, Cancelling, Letters!Queued
<1>2. ASSUME NEW r \in Choices, NEW b \in Hands, Letters!CancelRead(r, b) PROVE CancelsInv'
  <2>1. /\ job' = [job EXCEPT ![r] = [job[r] EXCEPT !.of = b, !.state = "read"]]
        /\ UNCHANGED <<status, twice>>
    BY <1>2 DEF Letters!CancelRead
  <2>2. job'[r].state = "read" /\ \A q \in Choices : q # r => job'[q] = job[q]
    BY <2>1 DEF MailTypes, Jobs
  <2> QED BY <2>1, <2>2 DEF CancelsInv, Cancelling, Letters!Queued
<1>3. ASSUME NEW r \in Choices, Letters!CancelWrite(r) PROVE CancelsInv'
  <2> DEFINE b == job[r].of
  <2>1. /\ b \in Hands /\ job' = [job EXCEPT ![r].state = "written"]
        /\ status' = [status EXCEPT ![b] = "cancelled"]
        /\ twice' = IF status[b] = "cancelled" THEN twice \cup {b} ELSE twice
    BY <1>3 DEF Letters!CancelWrite, Letters!Request, MailTypes, JobsOf
  <2>2. job'[r].of = b /\ \A q \in Choices : q # r => job'[q] = job[q]
    BY <2>1 DEF MailTypes, Jobs
  <2>3. \A q \in Choices : job'[q].state \in Cancelling => status'[job'[q].of] = "cancelled"
    BY <2>1, <2>2 DEF CancelsInv, MailTypes, JobsOf, Cancelling, Letters!Queued
  <2>4. twice \subseteq twice' /\ (status[b] = "cancelled" => b \in twice')
    BY <2>1
  <2>5. \A q \in Choices : q # r /\ job[q].of = b /\ job[q].state \in Cancelling => b \in twice'
    BY <2>4 DEF CancelsInv
  <2> QED BY <2>2, <2>3, <2>4, <2>5 DEF CancelsInv
<1>4. ASSUME NEW r \in Choices,
             \/ Letters!CancelQueue(r) \/ Letters!RequestDies(r)
             \/ Letters!TakeJob(r) \/ Letters!DelayEnds(r)
      PROVE  CancelsInv'
  <2>1. PICK to \in {"waiting", "lost", "active"} : job' = [job EXCEPT ![r].state = to]
    BY <1>4 DEF Letters!CancelQueue, Letters!RequestDies, Letters!TakeJob, Letters!DelayEnds, Letters!Request
  <2>2. UNCHANGED <<status, twice>> /\ (to # "lost" => job[r].state \in Cancelling)
    BY <1>4, <2>1
       DEF Letters!CancelQueue, Letters!RequestDies, Letters!TakeJob, Letters!DelayEnds, Letters!Request,
           Letters!OutsideMail, Cancelling, Letters!Queued, MailTypes, Jobs
  <2>3. job'[r].of = job[r].of /\ job'[r].state = to /\ \A q \in Choices : q # r => job'[q] = job[q]
    BY <2>1 DEF MailTypes, Jobs
  <2> QED BY <2>2, <2>3, QueueGoesOn DEF Cancelling, Letters!Queued
<1>5. ASSUME NEW w \in Letters!Workers, Letters!Send(w) PROVE CancelsInv'
  <2>1. UNCHANGED <<status, twice>>
    BY <1>5
       DEF Letters!Send, Letters!Resolve, Letters!Submit, Letters!LogSent, Letters!LogFailed,
           Letters!ResolveFails, Letters!OutsideMail
  <2>2. CASE UNCHANGED job
    BY <2>1, <2>2, QueueGoesOn
  <2>3. CASE w = "email" /\ sending[w].at # "idle" /\ (Letters!Worked(w) \/ Letters!Threw(w))
    <3> DEFINE r == sending[w].to
    <3>1. r \in Choices /\ job[r].state \in Cancelling
      BY <2>3 DEF MailTypes, Recipients, OnceInv, SentOnce, Cancelling, Letters!Queued
    <3>2. PICK n \in {job[r].tries, job[r].tries + 1}, to \in {"done", "delayed", "failed"} :
            job' = [job EXCEPT ![r] = [job[r] EXCEPT !.tries = n, !.state = to]]
      <4>1. CASE Letters!Worked(w)
        <5>1. job' = [job EXCEPT ![r].state = "done"] BY <2>3, <4>1 DEF Letters!Worked
        <5>2. [job[r] EXCEPT !.state = "done"] = [job[r] EXCEPT !.tries = job[r].tries, !.state = "done"]
          BY <3>1 DEF MailTypes, Jobs
        <5> QED BY <3>1, <5>1, <5>2 DEF MailTypes
      <4>2. CASE Letters!Threw(w)
        BY <2>3, <3>1, <4>2 DEF Letters!Threw, MailTypes
      <4> QED BY <2>3, <4>1, <4>2
    <3>3. job'[r].of = job[r].of /\ \A q \in Choices : q # r => job'[q] = job[q]
      BY <3>1, <3>2 DEF MailTypes, Jobs
    <3> QED BY <2>1, <3>1, <3>3, QueueGoesOn
  <2> QED
    BY <1>5, <2>2, <2>3
       DEF Letters!Send, Letters!Resolve, Letters!Submit, Letters!LogSent, Letters!LogFailed,
           Letters!ResolveFails, Letters!Worked, Letters!Threw
<1>6. ASSUME NEW b \in Hands, Letters!Remind(b) PROVE CancelsInv'
  BY <1>6, QueueGoesOn DEF Letters!Remind, Letters!OutsideMail
<1>7. CASE Letters!ReadTomorrow \/ Letters!RunEnds \/ UNCHANGED Letters!vars
  BY <1>7, QueueGoesOn DEF Letters!ReadTomorrow, Letters!RunEnds, Letters!OutsideMail, Letters!vars
<1>8. CASE Letters!Crash
  <2>1. \A r \in Choices : job'[r].of = job[r].of /\ (job'[r].state \in Cancelling => job[r].state \in Cancelling)
    BY <1>8, StalledJob DEF Letters!Crash, MailTypes, Cancelling, Letters!Queued
  <2> QED BY <1>8, <2>1, QueueGoesOn DEF Letters!Crash
<1> QED
  BY <1>1, <1>2, <1>3, <1>4, <1>5, <1>6, <1>7, <1>8 DEF Letters!Next

(* booking.service.ts: a second mail of one cancellation takes a second request whose check *)
(* found the booking active before the first had cancelled it.                              *)
THEOREM CancelledOnceMailedOnce == Letters!Spec => []Letters!OneCancellation
<1>1. Letters!Init => OnceInv /\ CancelsInv
  BY DEF Letters!Init, Letters!NewJob, OnceInv, Letters!OneCopy, Accounted, SentOnce, Cancelled, Reminder,
         Letters!Mails, Letters!Idle, Letters!Workers, CancelsInv, Cancelling, Letters!Queued
<1>2. CancelsInv => Letters!OneCancellation
  BY DEF CancelsInv, Cancelling, Letters!OneCancellation
<1> QED BY <1>1, <1>2, InitMailTypes, MailTypesKept, OnceKept, CancelsKept, PTL DEF Letters!Spec

-----------------------------------------------------------------------------
(* Who is reminded. *)

(* A run that is not under way has nothing to do, and what is gone is cancelled. *)
LivingInv ==
  /\ Letters!RemindsTheLiving
  /\ run.state # "active" => run.todo = {}
  /\ sending["reminder"].at # "idle" => run.state = "active"
  /\ \A b \in gone : status[b] = "cancelled"

LEMMA LivingKept ==
  ASSUME Nothing \notin Hands, MailTypes, LivingInv, [Letters!Next]_(Letters!vars)
  PROVE  LivingInv'
<1> USE DEF LivingInv, Letters!RemindsTheLiving
<1>1. ASSUME NEW b \in Hands, Letters!Book(b) PROVE LivingInv'
  BY <1>1 DEF Letters!Book, MailTypes
<1>2. ASSUME NEW r \in Choices, Letters!CancelWrite(r) PROVE LivingInv'
  <2> DEFINE b == job[r].of
  <2>1. /\ b \in Hands /\ UNCHANGED <<run, sending>>
        /\ status' = [status EXCEPT ![b] = "cancelled"]
        /\ gone' = IF run.state = "active" THEN gone ELSE gone \cup {b}
    BY <1>2 DEF Letters!CancelWrite, MailTypes, JobsOf
  <2> HIDE DEF b
  <2>2. CASE run.state = "active" BY <2>1, <2>2 DEF MailTypes
  <2>3. CASE run.state # "active"
    <3>1. run.todo = {} /\ sending["reminder"].to = Nothing
      BY <2>3 DEF MailTypes, Letters!Idle, Letters!Workers
    <3> QED BY <2>1, <2>3, <3>1 DEF MailTypes
  <2> QED BY <2>2, <2>3
<1>a. ASSUME NEW r \in Choices,
             \/ \E b \in Hands : Letters!CancelRead(r, b)
             \/ Letters!CancelQueue(r) \/ Letters!RequestDies(r)
             \/ Letters!TakeJob(r) \/ Letters!DelayEnds(r)
      PROVE LivingInv'
  BY <1>a
     DEF Letters!CancelRead, Letters!CancelQueue, Letters!RequestDies, Letters!TakeJob, Letters!DelayEnds,
         Letters!Starts, Letters!OutsideMail, MailTypes, Letters!Workers
<1>3. ASSUME NEW b \in Hands, Letters!Remind(b) PROVE LivingInv'
  BY <1>3 DEF Letters!Remind, Letters!Starts, Letters!OutsideMail, MailTypes, Letters!Workers, Runs
<1>4. ASSUME NEW w \in Letters!Workers, NEW at \in {"smtp", "sent", "failed"}, sending[w].at # "idle",
             Letters!Step(w, at),
             UNCHANGED <<run, gone, status>>
      PROVE  LivingInv'
  BY <1>4 DEF Letters!Step, MailTypes, Letters!Workers, Sendings
<1>5. ASSUME NEW w \in Letters!Workers, sending[w].at # "idle", Letters!Worked(w) \/ Letters!Threw(w),
             UNCHANGED <<gone, status>>
      PROVE  LivingInv'
  <2>1. CASE w = "email"
    BY <1>5, <2>1 DEF Letters!Worked, Letters!Threw, Letters!Stops, MailTypes, Letters!Workers
  <2>2. CASE w = "reminder"
    <3>1. sending' = [sending EXCEPT !["reminder"] = Letters!Idle] /\ gone' \subseteq Hands
      BY <1>5, <2>2 DEF Letters!Worked, Letters!Threw, Letters!Stops, MailTypes
    <3>2. run' = [run EXCEPT !.todo = @ \ {sending[w].to}]
            \/ run' = [run EXCEPT !.state = "failed", !.list = {}, !.todo = {}]
      BY <1>5, <2>2 DEF Letters!Worked, Letters!Threw
    <3>3. run'.todo \subseteq run.todo /\ (run'.state # "active" => run'.todo = {})
      <4>1. run = [state |-> run.state, stalls |-> run.stalls, list |-> run.list, todo |-> run.todo]
        BY DEF MailTypes, Runs
      <4>2. CASE run' = [run EXCEPT !.todo = @ \ {sending[w].to}]
        <5>1. run'.state = run.state /\ run'.todo = run.todo \ {sending[w].to} BY <4>1, <4>2
        <5> QED BY <1>5, <2>2, <5>1
      <4>3. CASE run' = [run EXCEPT !.state = "failed", !.list = {}, !.todo = {}]
        <5>1. run'.todo = {} BY <4>1, <4>3
        <5> QED BY <5>1
      <4> QED BY <3>2, <4>2, <4>3
    <3> QED BY <1>5, <3>1, <3>3 DEF MailTypes, Letters!Workers, Letters!Idle
  <2> QED BY <2>1, <2>2 DEF Letters!Workers
<1>6. ASSUME NEW w \in Letters!Workers, Letters!Send(w) PROVE LivingInv'
  BY <1>4, <1>5, <1>6
     DEF Letters!Send, Letters!Resolve, Letters!Submit, Letters!LogSent, Letters!LogFailed,
         Letters!ResolveFails, Letters!OutsideMail
<1>7. CASE Letters!ReadTomorrow \/ Letters!RunEnds
  <2>1. run = [state |-> run.state, stalls |-> run.stalls, list |-> run.list, todo |-> run.todo]
    BY DEF MailTypes, Runs
  <2>2. CASE Letters!ReadTomorrow
    <3>1. run'.state = "active" /\ run'.todo = {b \in Hands : status[b] = "confirmed"}
      BY <2>1, <2>2 DEF Letters!ReadTomorrow, Letters!Lists
    <3>2. run.state # "active" BY <2>2 DEF Letters!ReadTomorrow
    <3>3. gone' = gone /\ status' = status /\ sending' = sending
      BY <2>2 DEF Letters!ReadTomorrow, Letters!OutsideMail
    <3> QED BY <3>1, <3>2, <3>3
  <2>3. CASE Letters!RunEnds
    <3>1. run'.state = "done" /\ run'.todo = {} BY <2>1, <2>3 DEF Letters!RunEnds
    <3>2. sending["reminder"].at = "idle" BY <2>3 DEF Letters!RunEnds, Letters!Idle
    <3>3. gone' = gone /\ status' = status /\ sending' = sending
      BY <2>3 DEF Letters!RunEnds, Letters!OutsideMail
    <3> QED BY <3>1, <3>2, <3>3
  <2> QED BY <1>7, <2>2, <2>3
<1>8. CASE Letters!Crash
  BY <1>8, CrashedRun DEF RunStops, Letters!Crash, MailTypes, Letters!Workers, Letters!Idle
<1>9. CASE UNCHANGED Letters!vars
  BY <1>9 DEF Letters!vars
<1> QED
  BY <1>1, <1>2, <1>a, <1>3, <1>6, <1>7, <1>8, <1>9 DEF Letters!Next

(* A booking that was cancelled while no reminder run was under way is in no list of *)
(* a run, and no reminder is being sent for it; Nobody only has to be no booking.    *)
THEOREM TheLivingAreReminded ==
  ASSUME Nothing \notin Hands
  PROVE  Letters!Spec => []Letters!RemindsTheLiving
<1>1. Letters!Init => LivingInv
  BY DEF Letters!Init, Letters!NewRun, LivingInv, Letters!RemindsTheLiving, Letters!Idle, Letters!Workers
<1>2. LivingInv => Letters!RemindsTheLiving
  BY DEF LivingInv
<1>3. MailTypes /\ LivingInv /\ [Letters!Next]_(Letters!vars) => LivingInv'
  BY LivingKept
<1> QED BY <1>1, <1>2, <1>3, InitMailTypes, MailTypesKept, PTL DEF Letters!Spec

-----------------------------------------------------------------------------
(* How often a mail is tried. *)

(* The mail under way has been handed to the server, and not been worked off. *)
HandedOver(w, c) == sending[w].to = c /\ sending[w].at \in {"sent", "failed"}

(* The attempts and stalls of a job, and what they cost: every copy of its mail stands *)
(* for an attempt that failed, a stall, or the one that is under way or succeeded.     *)
TriesOf(j) ==
  /\ j.state # "failed" => j.tries < Attempts /\ j.stalls <= 1
  /\ j.tries <= Attempts /\ j.stalls <= 2 /\ j.tries + j.stalls <= Attempts + 1
JobCopies(r) ==
  \/ copies[Cancelled(r)] <= job[r].tries + job[r].stalls
  \/ /\ copies[Cancelled(r)] <= job[r].tries + job[r].stalls + 1
     /\ job[r].state = "done" \/ HandedOver("email", r)
JobsCounted ==
  \A r \in Choices :
    /\ TriesOf(job[r]) /\ JobCopies(r)
    /\ (job[r].state = "active") = (sending["email"].to = r)

(* The same for the run: a start of it sends every mail of its list at most once. *)
RunCopies(b) ==
  /\ copies[Reminder(b)] <= 2
  /\ run.state \in {"due", "waiting"} => copies[Reminder(b)] <= run.stalls
  /\ run.state = "active" => copies[Reminder(b)] <= run.stalls + 1
  /\ run.state = "active" /\ b \in run.todo /\ ~HandedOver("reminder", b) => copies[Reminder(b)] <= run.stalls
RunCounted ==
  /\ run.state = "due" => run.stalls = 0
  /\ run.state # "failed" => run.stalls <= 1
  /\ run.stalls <= 2
  /\ sending["reminder"].to # Nothing => run.state = "active" /\ sending["reminder"].to \in run.todo
  /\ \A b \in Hands : RunCopies(b)

MailInv ==
  /\ MailTypes /\ ArrivedInv /\ OnceInv /\ CancelsInv /\ LivingInv
  /\ JobsCounted /\ RunCounted /\ crashes \in 0 .. Crashes

(* Steps that are none of the e-mail worker's. *)
LEMMA JobsAlone ==
  ASSUME MailTypes, JobsCounted, UNCHANGED job, sending'["email"] = sending["email"],
         \A r \in Choices : copies'[Cancelled(r)] = copies[Cancelled(r)]
  PROVE  JobsCounted'
BY DEF JobsCounted, JobCopies, HandedOver

LEMMA RunAlone ==
  ASSUME MailTypes, RunCounted, UNCHANGED run, sending'["reminder"] = sending["reminder"],
         \A b \in Hands : copies'[Reminder(b)] = copies[Reminder(b)]
  PROVE  RunCounted'
BY DEF RunCounted, RunCopies, HandedOver

(* Nothing is sent to nobody. *)
LEMMA MailBusy ==
  ASSUME MailTypes, NEW w \in Letters!Workers
  PROVE  /\ sending[w].to = Nothing \/ sending[w].to \in Recipients(w)
         /\ (sending[w].to = Nothing) = (sending[w].at = "idle")
         /\ (sending[w].to = Nothing) = (sending[w] = Letters!Idle)
BY LettersAssumption DEF MailTypes, Sendings, Letters!Idle, Letters!Workers, Recipients

LEMMA BookCounts ==
  ASSUME MailInv, NEW b \in Hands, Letters!Book(b)
  PROVE  JobsCounted' /\ RunCounted'
BY JobsAlone, RunAlone DEF Letters!Book, MailInv

LEMMA AskCounts ==
  ASSUME MailInv, NEW r \in Choices, Asks(r)
  PROVE  JobsCounted' /\ RunCounted'
<1>1. AskChanges(r)
  BY AsksChange DEF MailInv
<1>2. RunCounted'
  BY <1>1, RunAlone DEF MailInv, AskChanges
<1>3. \A q \in Choices : TriesOf(job'[q])
  BY <1>1 DEF TriesOf, MailInv, JobsCounted, AskChanges
<1>4. \A q \in Choices : JobCopies(q)'
  BY <1>1 DEF JobCopies, MailInv, JobsCounted, HandedOver, AskChanges
<1>5. \A q \in Choices : (job'[q].state = "active") = (sending'["email"].to = q)
  BY <1>1 DEF MailInv, JobsCounted, AskChanges
<1> QED BY <1>2, <1>3, <1>4, <1>5 DEF JobsCounted

(* A mail is worked off, or its attempt fails: the job of the e-mail worker, the list of the run. *)
LEMMA WorkedCounts ==
  ASSUME MailInv, NEW w \in Letters!Workers, sending[w].at = "sent", Letters!Worked(w), UNCHANGED copies
  PROVE  JobsCounted' /\ RunCounted'
<1> USE DEF MailInv
<1>1. sending[w].to \in Recipients(w) /\ sending' = [sending EXCEPT ![w] = Letters!Idle]
  BY MailBusy DEF Letters!Worked, Letters!Stops
<1>2. CASE w = "email"
  <2> DEFINE r == sending[w].to
  <2>0. r \in Choices
    BY <1>1, <1>2 DEF Recipients
  <2>1. job' = [job EXCEPT ![r].state = "done"] /\ UNCHANGED run
    BY <1>2 DEF Letters!Worked
  <2>2. /\ job'[r].tries = job[r].tries /\ job'[r].stalls = job[r].stalls /\ job'[r].state = "done"
        /\ \A c \in Choices : c # r => job'[c] = job[c]
    BY <1>1, <2>0, <2>1 DEF Jobs, MailTypes
  <2>3. job[r].state = "active"
    BY <1>1, <1>2, <2>0, <2>0 DEF JobsCounted
  <2>4. \A c \in Choices : TriesOf(job'[c])
    BY <1>1, <2>0, <2>2, <2>3 DEF TriesOf, JobsCounted
  <2>5. sending'["email"] = Letters!Idle /\ sending'["reminder"] = sending["reminder"]
    BY <1>1, <1>2 DEF MailTypes, Letters!Workers
  <2>6. \A c \in Choices : JobCopies(c)'
    BY <1>1, <1>2, <2>0, <2>2, <2>5 DEF JobCopies, JobsCounted, HandedOver, Letters!Idle
  <2>7. \A c \in Choices : (job'[c].state = "active") = (sending'["email"].to = c)
    BY <1>1, <1>2, <2>0, <2>2, <2>5, LettersAssumption DEF JobsCounted, Letters!Idle
  <2>8. RunCounted'
    BY <2>1, <2>5, RunAlone
  <2> QED BY <2>4, <2>6, <2>7, <2>8 DEF JobsCounted
<1>3. CASE w = "reminder"
  <2> DEFINE b == sending[w].to
  <2>1. run' = [run EXCEPT !.todo = @ \ {b}] /\ UNCHANGED job
    BY <1>3 DEF Letters!Worked
  <2>2. run'.state = run.state /\ run'.stalls = run.stalls /\ run'.todo = run.todo \ {b}
    BY <2>1 DEF MailTypes, Runs
  <2>3. sending'["reminder"] = Letters!Idle /\ sending'["email"] = sending["email"]
    BY <1>1, <1>3 DEF MailTypes, Letters!Workers
  <2>4. \A c \in Hands : RunCopies(c)'
    BY <1>3, <2>2, <2>3 DEF RunCounted, RunCopies, HandedOver, Letters!Idle
  <2>5. RunCounted'
    BY <2>2, <2>3, <2>4 DEF RunCounted, Letters!Idle
  <2> QED BY <2>1, <2>3, <2>5, JobsAlone
<1> QED BY <1>2, <1>3 DEF Letters!Workers

LEMMA ThrewCounts ==
  ASSUME MailInv, NEW w \in Letters!Workers, sending[w].at # "idle", Letters!Threw(w), UNCHANGED copies
  PROVE  JobsCounted' /\ RunCounted'
<1> USE DEF MailInv
<1>1. sending[w].to \in Recipients(w) /\ sending' = [sending EXCEPT ![w] = Letters!Idle]
  BY MailBusy DEF Letters!Threw, Letters!Stops
<1>2. CASE w = "email"
  <2> DEFINE r == sending[w].to
             over == IF job[r].tries + 1 < Attempts THEN "delayed" ELSE "failed"
  <2>0. r \in Choices
    BY <1>1, <1>2 DEF Recipients
  <2>1. job' = [job EXCEPT ![r].tries = @ + 1, ![r].state = over] /\ UNCHANGED run
    BY <1>2 DEF Letters!Threw
  <2>2. /\ job'[r].tries = job[r].tries + 1 /\ job'[r].stalls = job[r].stalls /\ job'[r].state = over
        /\ \A c \in Choices : c # r => job'[c] = job[c]
    BY <1>1, <2>0, <2>1 DEF Jobs, MailTypes
  <2>3. job[r].state = "active" /\ job[r].tries \in Nat /\ job[r].stalls \in Nat
    BY <1>1, <1>2, <2>0, <2>0 DEF JobsCounted, MailTypes, Jobs
  <2>4. TriesOf(job'[r])
    BY <1>1, <2>0, <2>2, <2>3, LettersAssumption DEF TriesOf, JobsCounted
  <2>5. sending'["email"] = Letters!Idle /\ sending'["reminder"] = sending["reminder"]
    BY <1>1, <1>2 DEF MailTypes, Letters!Workers
  <2>6. copies[Cancelled(r)] \in Nat
    BY <1>1, <2>0 DEF MailTypes, Letters!Mails, Cancelled
  <2>7. \A c \in Choices : JobCopies(c)'
    BY <1>1, <1>2, <2>0, <2>2, <2>3, <2>5, <2>6 DEF JobCopies, JobsCounted, HandedOver, Letters!Idle
  <2>8. \A c \in Choices : (job'[c].state = "active") = (sending'["email"].to = c)
    BY <1>1, <1>2, <2>0, <2>2, <2>5, LettersAssumption DEF JobsCounted, Letters!Idle
  <2>9. RunCounted'
    BY <2>1, <2>5, RunAlone
  <2> QED BY <2>2, <2>4, <2>7, <2>8, <2>9 DEF JobsCounted
<1>3. CASE w = "reminder"
  <2>1. run' = [run EXCEPT !.state = "failed", !.list = {}, !.todo = {}] /\ UNCHANGED job
    BY <1>3 DEF Letters!Threw
  <2>2. run'.state = "failed" /\ run'.stalls = run.stalls /\ run'.todo = {}
    BY <2>1 DEF MailTypes, Runs
  <2>3. sending'["reminder"] = Letters!Idle /\ sending'["email"] = sending["email"]
    BY <1>1, <1>3 DEF MailTypes, Letters!Workers
  <2>4. RunCounted'
    BY <2>2, <2>3 DEF RunCounted, RunCopies, Letters!Idle
  <2> QED BY <2>1, <2>3, <2>4, JobsAlone
<1> QED BY <1>2, <1>3 DEF Letters!Workers

(* A mail goes on to its next step; the server may have accepted it. *)
LEMMA StepCounts ==
  ASSUME MailInv, NEW w \in Letters!Workers, NEW at \in {"smtp", "sent", "failed"}, Letters!Step(w, at),
         sending[w].at # "idle", UNCHANGED <<job, run>>,
         \/ UNCHANGED copies
         \/ /\ copies' = [copies EXCEPT ![Letters!MailOf(w)] = @ + 1]
            /\ sending[w].at = "smtp" /\ at \in {"sent", "failed"},
         sending[w].at \in {"sent", "failed"} => at \in {"sent", "failed"}
  PROVE  JobsCounted' /\ RunCounted'
<1> USE DEF MailInv
<1> DEFINE b == sending[w].to
<1>1. /\ Letters!MailOf(w) \in Letters!Mails
      /\ w = "email" => b \in Choices /\ Letters!MailOf(w) = Cancelled(b)
      /\ w # "email" => w = "reminder" /\ b \in Hands /\ Letters!MailOf(w) = Reminder(b)
  BY MailsOf
<1>2. /\ \A v \in Letters!Workers : sending'[v].to = sending[v].to
      /\ \A v \in Letters!Workers : v # w => sending'[v] = sending[v]
      /\ sending'[w].at = at
  BY DEF Letters!Step, MailTypes, Sendings
<1>3. \A c : Cancelled(c) # Reminder(b) /\ Reminder(c) # Cancelled(b)
  BY DEF Cancelled, Reminder
<1>4. /\ \A c \in Choices : Cancelled(c) \in Letters!Mails
      /\ \A c \in Hands : Reminder(c) \in Letters!Mails
  BY DEF Cancelled, Reminder, Letters!Mails
<1>5. \A c : c # b => Cancelled(c) # Cancelled(b) /\ Reminder(c) # Reminder(b)
  BY DEF Cancelled, Reminder
<1>6. \A m \in Letters!Mails : m # Letters!MailOf(w) => copies'[m] = copies[m]
  BY <1>1 DEF MailTypes
<1>7. \/ copies'[Letters!MailOf(w)] = copies[Letters!MailOf(w)]
      \/ /\ copies'[Letters!MailOf(w)] = copies[Letters!MailOf(w)] + 1
         /\ sending[w].at = "smtp" /\ at \in {"sent", "failed"}
  BY <1>1 DEF MailTypes
<1>8. copies[Letters!MailOf(w)] \in Nat
  BY <1>1 DEF MailTypes
<1>9. CASE w = "email"
  <2>1. RunCounted'
    BY <1>1, <1>2, <1>3, <1>4, <1>6, <1>9, RunAlone DEF Letters!Workers
  <2>2. \A c \in Choices : c # b => copies'[Cancelled(c)] = copies[Cancelled(c)]
    BY <1>1, <1>4, <1>5, <1>6, <1>9
  <2>3. \A c \in Choices : c # b => JobCopies(c)'
    BY <1>2, <1>9, <2>2 DEF JobCopies, JobsCounted, HandedOver, Letters!Workers
  <2>4. job[b].state = "active" /\ job[b].tries \in Nat /\ job[b].stalls \in Nat
    BY <1>1, <1>9 DEF JobsCounted, MailTypes, Jobs
  <2>5. JobCopies(b)'
    BY <1>1, <1>2, <1>7, <1>8, <1>9, <2>4 DEF JobCopies, JobsCounted, HandedOver
  <2>6. \A c \in Choices : (job'[c].state = "active") = (sending'["email"].to = c)
    BY <1>2, <1>9 DEF JobsCounted
  <2>7. \A c \in Choices : TriesOf(job'[c])
    BY DEF JobsCounted
  <2>8. \A c \in Choices : JobCopies(c)'
    <3> TAKE c \in Choices
    <3>1. CASE c = b BY <1>2, <2>5, <3>1 DEF JobCopies, HandedOver
    <3>2. CASE c # b BY <2>3, <3>2
    <3> QED BY <3>1, <3>2
  <2> QED BY <2>1, <2>6, <2>7, <2>8 DEF JobsCounted
<1>10. CASE w # "email"
  <2>1. w = "reminder" BY <1>10 DEF Letters!Workers
  <2>2. JobsCounted'
    BY <1>1, <1>2, <1>3, <1>4, <1>6, <2>1, JobsAlone DEF Letters!Workers
  <2>3. \A c \in Hands : c # b => copies'[Reminder(c)] = copies[Reminder(c)]
    BY <1>1, <1>4, <1>5, <1>6, <2>1
  <2>4. \A c \in Hands : c # b => RunCopies(c)'
    BY <1>2, <2>1, <2>3 DEF RunCopies, RunCounted, HandedOver, Letters!Workers
  <2>5. run.state = "active" /\ b \in run.todo /\ run.stalls \in Nat /\ run.stalls <= 1
    BY <1>1, <2>1, LettersAssumption DEF RunCounted, MailTypes, Runs
  <2>6. RunCopies(b)'
    BY <1>1, <1>2, <1>7, <1>8, <2>1, <2>5 DEF RunCopies, RunCounted, HandedOver
  <2> QED BY <1>2, <2>1, <2>2, <2>4, <2>6 DEF RunCounted
<1> QED BY <1>9, <1>10

LEMMA SendCounts ==
  ASSUME MailInv, NEW w \in Letters!Workers, Letters!Send(w)
  PROVE  JobsCounted' /\ RunCounted'
<1>1. CASE Letters!Resolve(w)
  BY <1>1, StepCounts DEF Letters!Resolve
<1>2. CASE Letters!Submit(w)
  BY <1>2, StepCounts DEF Letters!Submit
<1>3. CASE Letters!LogSent(w)
  BY <1>3, StepCounts, WorkedCounts DEF Letters!LogSent
<1>4. CASE Letters!LogFailed(w) \/ Letters!ResolveFails(w)
  BY <1>4, ThrewCounts DEF Letters!LogFailed, Letters!ResolveFails
<1> QED BY <1>1, <1>2, <1>3, <1>4 DEF Letters!Send

LEMMA QueueCounts ==
  ASSUME MailInv, NEW r \in Choices, Letters!TakeJob(r) \/ Letters!DelayEnds(r)
  PROVE  JobsCounted' /\ RunCounted'
<1> USE DEF MailInv
<1>1. PICK s \in {"active", "waiting"} :
        /\ job' = [job EXCEPT ![r].state = s]
        /\ s = "active" => sending["email"] = Letters!Idle
           /\ sending' = [sending EXCEPT !["email"] = [to |-> r, at |-> "resolve"]]
        /\ s = "waiting" => UNCHANGED sending
        /\ job[r].state \in {"waiting", "delayed"}
  BY DEF Letters!TakeJob, Letters!DelayEnds, Letters!Starts, Letters!Request
<1>2. UNCHANGED <<run, copies>>
  BY DEF Letters!TakeJob, Letters!DelayEnds
<1>3. /\ job'[r].tries = job[r].tries /\ job'[r].stalls = job[r].stalls /\ job'[r].state = s
      /\ \A c \in Choices : c # r => job'[c] = job[c]
  BY <1>1 DEF Jobs, MailTypes
<1>4. sending'["reminder"] = sending["reminder"]
  BY <1>1 DEF MailTypes, Letters!Workers
<1>5. \A c \in Choices : TriesOf(job'[c])
  BY <1>1, <1>3 DEF TriesOf, JobsCounted
<1>6. sending["email"].to # r
  BY <1>1 DEF JobsCounted
<1>7. s = "active" => sending'["email"].to = r /\ sending'["email"].at = "resolve"
        /\ sending["email"].to = Nothing
  BY <1>1 DEF MailTypes, Letters!Workers, Letters!Idle
<1>8. \A c \in Choices : JobCopies(c)'
  BY <1>1, <1>2, <1>3, <1>6, <1>7, LettersAssumption DEF JobCopies, JobsCounted, HandedOver
<1>9. \A c \in Choices : (job'[c].state = "active") = (sending'["email"].to = c)
  BY <1>1, <1>3, <1>6, <1>7, LettersAssumption DEF JobsCounted
<1>10. RunCounted'
  BY <1>2, <1>4, RunAlone
<1> QED BY <1>5, <1>8, <1>9, <1>10 DEF JobsCounted

LEMMA RemindCounts ==
  ASSUME MailInv, NEW b \in Hands, Letters!Remind(b)
  PROVE  JobsCounted' /\ RunCounted'
<1> USE DEF MailInv
<1>0. UNCHANGED <<job, copies>> /\ run.state = "active" /\ b \in run.todo
        /\ sending["reminder"] = Letters!Idle
  BY DEF Letters!Remind
<1>1. CASE "sent" \in log[Reminder(b)]
  <2>1. run' = [run EXCEPT !.todo = @ \ {b}] /\ UNCHANGED sending
    BY <1>1 DEF Letters!Remind, Reminder
  <2>2. run'.state = run.state /\ run'.stalls = run.stalls /\ run'.todo = run.todo \ {b}
    BY <2>1 DEF MailTypes, Runs
  <2>3. RunCounted'
    BY <1>0, <2>1, <2>2 DEF RunCounted, RunCopies, HandedOver, Letters!Idle
  <2> QED BY <1>0, <2>1, <2>3, JobsAlone
<1>2. CASE "sent" \notin log[Reminder(b)]
  <2>1. sending' = [sending EXCEPT !["reminder"] = [to |-> b, at |-> "resolve"]] /\ UNCHANGED run
    BY <1>2 DEF Letters!Remind, Reminder, Letters!Starts
  <2>2. sending'["email"] = sending["email"] /\ sending'["reminder"].to = b
          /\ sending'["reminder"].at = "resolve"
    BY <2>1 DEF MailTypes, Letters!Workers
  <2>3. RunCounted'
    BY <1>0, <2>1, <2>2 DEF RunCounted, RunCopies, HandedOver, Letters!Idle
  <2> QED BY <1>0, <2>1, <2>2, <2>3, JobsAlone
<1> QED BY <1>1, <1>2

LEMMA RunStepCounts ==
  ASSUME MailInv, Letters!ReadTomorrow \/ Letters!RunEnds
  PROVE  JobsCounted' /\ RunCounted'
<1> USE DEF MailInv
<1>1. UNCHANGED <<job, sending, copies>>
  BY DEF Letters!ReadTomorrow, Letters!RunEnds
<1>2. CASE Letters!ReadTomorrow
  <2>1. run.state \in {"due", "waiting"} /\ run'.state = "active" /\ run'.stalls = run.stalls
    BY <1>2 DEF Letters!ReadTomorrow, Letters!Lists, MailTypes, Runs
  <2>2. sending'["reminder"].to = Nothing
    BY <1>1, <2>1 DEF RunCounted
  <2>3. run.stalls \in Nat /\ \A c \in Hands : copies[Reminder(c)] \in Nat
    BY DEF MailTypes, Runs, Letters!Mails, Reminder
  <2> QED BY <1>1, <2>1, <2>2, <2>3, JobsAlone DEF RunCounted, RunCopies
<1>3. CASE Letters!RunEnds
  <2>1. run.state = "active" /\ run'.state = "done" /\ run'.stalls = run.stalls
          /\ sending["reminder"].to = Nothing
    BY <1>3 DEF Letters!RunEnds, MailTypes, Runs, Letters!Idle
  <2> QED BY <1>1, <2>1, JobsAlone DEF RunCounted, RunCopies
<1> QED BY <1>2, <1>3

LEMMA CrashCounts ==
  ASSUME MailInv, Letters!Crash
  PROVE  JobsCounted' /\ RunCounted'
<1> USE DEF MailInv
<1>1. UNCHANGED copies /\ sending' = [w \in Letters!Workers |-> Letters!Idle]
  BY DEF Letters!Crash
<1>2. sending'["email"] = Letters!Idle /\ sending'["reminder"] = Letters!Idle
  BY <1>1 DEF Letters!Workers
<1>3. ASSUME NEW r \in Choices
      PROVE  TriesOf(job'[r]) /\ JobCopies(r)' /\ job'[r].state # "active"
  <2>1. job[r] \in Jobs /\ job[r].tries \in Nat /\ job[r].stalls \in Nat /\ copies[Cancelled(r)] \in Nat
    BY DEF MailTypes, Jobs, Letters!Mails, Cancelled
  <2>2. CASE job[r].state = "active"
    <3>1. job'[r] = Letters!Stalled(job[r])
      BY <2>2 DEF Letters!Crash
    <3>2. /\ job'[r].tries = job[r].tries /\ job'[r].stalls = job[r].stalls + 1
          /\ job'[r].state = IF job[r].stalls = 0 THEN "waiting" ELSE "failed"
      <4> DEFINE n == job[r].stalls + 1
                 s == IF job[r].stalls = 0 THEN "waiting" ELSE "failed"
      <4>1. job'[r] = [job[r] EXCEPT !.stalls = n, !.state = s]
        BY <3>1, Zenon DEF Letters!Stalled
      <4> HIDE DEF n, s
      <4>2. job'[r].tries = job[r].tries /\ job'[r].stalls = n /\ job'[r].state = s
        BY <2>1, <4>1 DEF Jobs
      <4> QED BY <4>2 DEF n, s
    <3>3. TriesOf(job[r]) /\ copies[Cancelled(r)] <= job[r].tries + job[r].stalls + 1
      BY <2>1 DEF JobsCounted, JobCopies
    <3>4. TriesOf(job'[r]) /\ job'[r].state # "active"
      BY <2>1, <2>2, <3>2, <3>3, LettersAssumption DEF TriesOf
    <3>5. JobCopies(r)'
      BY <1>1, <2>1, <3>2, <3>3 DEF JobCopies
    <3> QED BY <3>4, <3>5
  <2>3. CASE job[r].state # "active"
    <3>1. job'[r] = job[r] /\ sending["email"].to # r
      BY <2>3 DEF Letters!Crash, JobsCounted
    <3> QED BY <1>1, <2>3, <3>1 DEF JobCopies, JobsCounted, HandedOver
  <2> QED BY <2>2, <2>3
<1>4. JobsCounted'
  BY <1>2, <1>3, LettersAssumption DEF JobsCounted, Letters!Idle
<1>5. CASE run.state = "active"
  <2>3. RunStops(run, run')
    BY <1>5, CrashedRun
  <2>4. run.stalls \in Nat /\ run.stalls <= 1 /\ \A c \in Hands : copies[Reminder(c)] \in Nat
    BY <1>5 DEF MailTypes, Runs, Letters!Mails, Reminder, RunCounted
  <2>5. RunCounted'
    BY <1>1, <1>2, <1>5, <2>3, <2>4 DEF RunStops, RunCounted, RunCopies, Letters!Idle
  <2> QED BY <1>4, <2>5
<1>6. CASE run.state # "active"
  <2>1. run' = run
    BY <1>6 DEF Letters!Crash
  <2> QED BY <1>1, <1>2, <1>4, <1>6, <2>1 DEF RunCounted, RunCopies, Letters!Idle
<1> QED BY <1>5, <1>6

LEMMA MailKept ==
  ASSUME MailInv, [Letters!Next]_(Letters!vars)
  PROVE  MailInv'
<1>1. MailTypes' /\ ArrivedInv' /\ OnceInv' /\ CancelsInv' /\ LivingInv'
  BY MailTypesKept, ArrivedKept, OnceKept, CancelsKept, LivingKept, LettersAssumption DEF MailInv
<1>2. JobsCounted' /\ RunCounted'
  <2>1. CASE UNCHANGED Letters!vars
    BY <2>1, JobsAlone, RunAlone DEF Letters!vars, MailInv
  <2> QED
    BY <2>1, BookCounts, AskCounts, QueueCounts, RemindCounts, RunStepCounts, CrashCounts, SendCounts
       DEF Letters!Next, Asks
<1>3. crashes' \in 0 .. Crashes
  <2>1. CASE UNCHANGED Letters!vars
    BY <2>1 DEF Letters!vars, MailInv
  <2>2. CASE Letters!Crash
    BY <2>2, LettersAssumption DEF Letters!Crash, MailInv
  <2>3. ASSUME NEW b \in Hands, Letters!Book(b) \/ Letters!Remind(b) PROVE UNCHANGED crashes
    BY <2>3 DEF Letters!Book, Letters!Remind, Letters!OutsideMail
  <2>6. ASSUME NEW r \in Choices, Asks(r) \/ Letters!TakeJob(r) \/ Letters!DelayEnds(r)
        PROVE  UNCHANGED crashes
    BY <2>6, AsksChange DEF AskChanges, Letters!TakeJob, Letters!DelayEnds, Letters!OutsideMail, MailInv
  <2>4. ASSUME NEW w \in Letters!Workers, Letters!Send(w) PROVE UNCHANGED crashes
    BY <2>4 DEF Letters!Send, Letters!Resolve, Letters!Submit, Letters!LogSent, Letters!LogFailed,
                Letters!ResolveFails, Letters!OutsideMail
  <2>5. CASE Letters!ReadTomorrow \/ Letters!RunEnds
    BY <2>5 DEF Letters!ReadTomorrow, Letters!RunEnds, Letters!OutsideMail, MailInv
  <2> QED BY <2>1, <2>2, <2>3, <2>4, <2>5, <2>6 DEF Letters!Next, Asks, MailInv
<1> QED BY <1>1, <1>2, <1>3 DEF MailInv

(* email.service.ts, reminder.worker.ts: every bound of the types is kept, by a job that is tried
   again or has stalled as well as by a run that starts again. *)
THEOREM LettersCorrect ==
  Letters!Spec => [](/\ Letters!TypeOK /\ Letters!OneCopy /\ Letters!OneCancellation
                     /\ Letters!SentArrived /\ Letters!RemindsTheLiving)
<1>1. Letters!Init => MailInv
  <2> SUFFICES ASSUME Letters!Init PROVE MailInv OBVIOUS
  <2>1. MailTypes
    BY InitMailTypes
  <2>2. ArrivedInv
    BY IdleTypes DEF Letters!Init, Letters!NewJob, Letters!NewRun, ArrivedInv, Letters!SentArrived, Letters!Idle
  <2>3. OnceInv
    BY DEF Letters!Init, Letters!NewJob, Letters!NewRun, OnceInv, Letters!OneCopy, Accounted, SentOnce, Cancelled, Reminder, Letters!Mails,
           Letters!Idle, Letters!Workers
  <2>6. CancelsInv
    BY DEF Letters!Init, Letters!NewJob, CancelsInv, Cancelling, Letters!Queued
  <2>4. LivingInv
    BY DEF Letters!Init, Letters!NewJob, Letters!NewRun, Letters!NewRun, LivingInv, Letters!RemindsTheLiving, Letters!Idle, Letters!Workers
  <2>5. JobsCounted /\ RunCounted /\ crashes \in 0 .. Crashes
    BY LettersAssumption
       DEF Letters!Init, Letters!NewJob, Letters!NewRun, JobsCounted, RunCounted, TriesOf, JobCopies,
           RunCopies, HandedOver, Cancelled, Reminder, Letters!Mails, Letters!Idle, Letters!Workers
  <2> QED BY <2>1, <2>2, <2>3, <2>4, <2>5, <2>6 DEF MailInv
<1>2. MailInv => /\ Letters!TypeOK /\ Letters!OneCopy /\ Letters!OneCancellation
                  /\ Letters!SentArrived /\ Letters!RemindsTheLiving
  <2> SUFFICES ASSUME MailInv PROVE Letters!TypeOK
    BY DEF MailInv, OnceInv, ArrivedInv, LivingInv, CancelsInv, Cancelling, Letters!OneCancellation
  <2> USE DEF MailInv
  <2>1. job \in [Choices -> [of : Hands \cup {Nothing}, state : JobStates, tries : 0 .. Attempts, stalls : 0 .. 2]]
    <3>1. ASSUME NEW r \in Choices
          PROVE  job[r] \in [of : Hands \cup {Nothing}, state : JobStates, tries : 0 .. Attempts, stalls : 0 .. 2]
      <4>1. job[r] \in Jobs /\ TriesOf(job[r])
        BY DEF MailTypes, JobsCounted
      <4>2. job[r].tries \in 0 .. Attempts /\ job[r].stalls \in 0 .. 2
        BY <4>1, LettersAssumption DEF Jobs, TriesOf
      <4> QED BY <4>1, <4>2 DEF Jobs
    <3> QED BY <3>1 DEF MailTypes
  <2>2. run \in [state : {"due", "waiting", "active", "done", "failed"}, stalls : 0 .. 2,
                list : SUBSET Hands, todo : SUBSET Hands]
    BY DEF MailTypes, Runs, RunCounted
  <2>3. copies \in [Letters!Mails -> 0 .. Attempts + 1]
    <3>1. ASSUME NEW r \in Choices
          PROVE copies[Cancelled(r)] <= Attempts + 1
      <4>1. job[r].tries \in Nat /\ job[r].stalls \in Nat /\ copies[Cancelled(r)] \in Nat
        BY DEF MailTypes, Jobs, Letters!Mails, Cancelled
      <4>2. TriesOf(job[r]) /\ JobCopies(r) /\ (HandedOver("email", r) => job[r].state = "active")
        BY DEF JobsCounted, HandedOver
      <4> QED BY <4>1, <4>2, LettersAssumption DEF TriesOf, JobCopies
    <3>2. ASSUME NEW b \in Hands
          PROVE copies[Reminder(b)] <= Attempts + 1
      <4>1. copies[Reminder(b)] \in Nat
        BY DEF MailTypes, Letters!Mails, Reminder
      <4> QED BY <4>1, LettersAssumption DEF RunCounted, RunCopies
    <3>3. \A m \in Letters!Mails : (\E r \in Choices : m = Cancelled(r)) \/ (\E b \in Hands : m = Reminder(b))
      BY DEF Letters!Mails, Cancelled, Reminder
    <3> QED BY <3>1, <3>2, <3>3, LettersAssumption DEF MailTypes
  <2>4. /\ \A r \in Choices : job[r].state = "active" <=> sending["email"].to = r
        /\ \A r \in Choices : job[r].state # "none" => job[r].of \in Hands
        /\ sending["email"].to \in Choices \cup {Nothing} /\ sending["reminder"].to \in Hands \cup {Nothing}
        /\ sending["reminder"].to # Nothing => run.state = "active"
    BY MailBusy DEF JobsCounted, RunCounted, MailTypes, JobsOf, Recipients, Letters!Workers
  <2>5. gone \cup twice \subseteq Hands
    BY DEF MailTypes
  <2> QED
    BY <2>1, <2>2, <2>3, <2>4, <2>5
       DEF MailTypes, Letters!TypeOK, Sendings, JobStates, Letters!Asking, Letters!Queued
<1> QED BY <1>1, <1>2, MailKept, PTL DEF Letters!Spec

-----------------------------------------------------------------------------
(* The e-mail configuration: its forms, its requests and its flag (email-config.service.ts). *)

(* The flag alone is not inductive: a request that is under way has read a row, and the form that is *)
(* being saved is complete.                                                                          *)
Underway ==
  \A s \in Hands :
    /\ request[s].kind \in {"verify", "generate"} => row # Nothing /\ request[s].read # Nothing
    /\ request[s].kind = "save" =>
         form[s] # Nothing /\ (form[s].mode = "custom" => form[s].from # Nothing)
SendersInv == Senders!TypeOK /\ Underway /\ Senders!VerifiedIsProven

(* Steps that leave the row and the requests alone. *)
LEMMA FormKeeps ==
  ASSUME SendersInv, NEW s \in Hands, Senders!OpenForm(s) \/ Senders!LeaveForm(s) \/ Senders!EditForm(s)
  PROVE  SendersInv'
<1> USE DEF SendersInv
<1>1. UNCHANGED <<row, dns, request, proven, raced>> /\ request[s] = Senders!Quiet
  BY DEF Senders!OpenForm, Senders!LeaveForm, Senders!EditForm
<1>2. PICK f \in Senders!Filled \cup {Nothing} : form' = [form EXCEPT ![s] = f]
  <2>1. CASE Senders!OpenForm(s)
    <3>1. Senders!Default \in Senders!Filled
      BY DEF Senders!Default, Senders!Filled, Senders!Modes
    <3>2. row # Nothing => Senders!Of(row) \in Senders!Filled
      BY DEF Senders!TypeOK, Senders!Rows, Senders!Of, Senders!Filled
    <3> QED BY <2>1, <3>1, <3>2 DEF Senders!OpenForm
  <2>2. CASE Senders!LeaveForm(s)
    BY <2>2 DEF Senders!LeaveForm
  <2>3. CASE Senders!EditForm(s)
    <3>1. form[s] \in Senders!Filled
      BY <2>3 DEF Senders!EditForm, Senders!TypeOK
    <3>2. CASE \E m \in Senders!Modes : form' = [form EXCEPT ![s].mode = m]
      BY <3>1, <3>2 DEF Senders!Filled, Senders!TypeOK
    <3>3. CASE \E d \in Domains \cup {Nothing} : form' = [form EXCEPT ![s].from = d]
      BY <3>1, <3>3 DEF Senders!Filled, Senders!TypeOK
    <3>4. CASE \E k \in Choices \cup {Nothing} : form' = [form EXCEPT ![s].selector = k]
      BY <3>1, <3>4 DEF Senders!Filled, Senders!TypeOK
    <3> QED BY <2>3, <3>2, <3>3, <3>4 DEF Senders!EditForm
  <2> QED BY <2>1, <2>2, <2>3
<1>3. Senders!TypeOK'
  BY <1>1, <1>2 DEF Senders!TypeOK
<1>4. Underway'
  BY <1>1, <1>2 DEF Senders!TypeOK, Underway, Senders!Quiet
<1>5. Senders!VerifiedIsProven'
  BY <1>1 DEF Senders!VerifiedIsProven, Senders!NameOf
<1> QED BY <1>3, <1>4, <1>5

(* A request starts, and has read what it needs; or it ends and has written nothing. *)
LEMMA RequestKeeps ==
  ASSUME SendersInv, NEW s \in Hands,
         \/ Senders!SaveReads(s) \/ Senders!VerifyReads(s) \/ Senders!GenerateReads(s) \/ Senders!CallFails(s)
  PROVE  SendersInv'
<1> USE DEF SendersInv
<1>1. UNCHANGED <<row, dns, form, proven, raced>>
  BY DEF Senders!SaveReads, Senders!VerifyReads, Senders!GenerateReads, Senders!CallFails
<1>2. PICK c \in [kind : Senders!Calls \cup {"none"}, read : Senders!Rows \cup {Nothing}] :
        /\ request' = [request EXCEPT ![s] = c]
        /\ c.kind \in {"verify", "generate"} => row # Nothing /\ c.read = row
        /\ c.kind = "save" => form[s] # Nothing /\ (form[s].mode = "custom" => form[s].from # Nothing)
  <2>1. CASE Senders!CallFails(s)
    <3>1. request' = [request EXCEPT ![s] = Senders!Quiet]
      BY <2>1 DEF Senders!CallFails, Senders!Done
    <3>2. /\ Senders!Quiet \in [kind : Senders!Calls \cup {"none"}, read : Senders!Rows \cup {Nothing}]
          /\ Senders!Quiet.kind \notin {"verify", "generate", "save"}
      BY DEF Senders!Quiet
    <3> QED BY <3>1, <3>2
  <2>2. CASE Senders!SaveReads(s)
    BY <2>2 DEF Senders!SaveReads, Senders!Reads, Senders!Calls, Senders!TypeOK
  <2>3. CASE Senders!VerifyReads(s)
    BY <2>3 DEF Senders!VerifyReads, Senders!Reads, Senders!Calls, Senders!TypeOK
  <2>4. CASE Senders!GenerateReads(s)
    <3> DEFINE c == [kind |-> "generate", read |-> row]
    <3>1. request' = [request EXCEPT ![s] = c] /\ row # Nothing
      BY <2>4 DEF Senders!GenerateReads, Senders!Reads
    <3>2. /\ c \in [kind : Senders!Calls \cup {"none"}, read : Senders!Rows \cup {Nothing}]
          /\ c.kind = "generate" /\ c.read = row
      BY DEF Senders!Calls, Senders!TypeOK
    <3> HIDE DEF c
    <3> QED BY <3>1, <3>2
  <2> QED BY <2>1, <2>2, <2>3, <2>4
<1>3. Senders!TypeOK'
  BY <1>1, <1>2 DEF Senders!TypeOK
<1>4. Underway'
  BY <1>1, <1>2 DEF Senders!TypeOK, Underway
<1>5. Senders!VerifiedIsProven'
  BY <1>1 DEF Senders!VerifiedIsProven, Senders!NameOf
<1> QED BY <1>3, <1>4, <1>5

(* What every writing request leaves behind, when the row it writes is well formed. *)
LEMMA WriteKeeps ==
  ASSUME SendersInv, NEW s \in Hands, NEW r \in Senders!Rows, Senders!Writes(s, r),
         r.mode = "custom" => r.from # Nothing, UNCHANGED <<dns, form>>,
         proven' \in Senders!Names \cup {Nothing}, raced' \in BOOLEAN
  PROVE  Senders!TypeOK' /\ Underway' /\ row' = r
<1> USE DEF SendersInv
<1>1. row' = r /\ request' = [request EXCEPT ![s] = Senders!Quiet]
  BY DEF Senders!Writes, Senders!Done
<1>2. Senders!Quiet \in [kind : Senders!Calls \cup {"none"}, read : Senders!Rows \cup {Nothing}]
  BY DEF Senders!Quiet
<1>3. Senders!TypeOK'
  BY <1>1, <1>2 DEF Senders!TypeOK
<1>4. r # Nothing
  BY SendersAssumption
<1>5. Underway'
  BY <1>1, <1>4 DEF Senders!TypeOK, Underway, Senders!Quiet
<1> QED BY <1>1, <1>3, <1>5

LEMMA SaveWriteKeeps ==
  ASSUME SendersInv, NEW s \in Hands, Senders!SaveWrites(s)
  PROVE  SendersInv'
<1> USE DEF SendersInv
<1> DEFINE old  == request[s].read
           same == old # Nothing /\ Senders!Of(old) = form[s]
           kept == same /\ row # Nothing /\ row.verified
           r    == Senders!Merged(form[s], kept)
<1>1. /\ Senders!Writes(s, r) /\ UNCHANGED <<dns, form>>
      /\ proven' = IF same THEN proven ELSE Nothing
      /\ raced' = (same /\ (raced \/ Senders!Late(s)))
      /\ request[s].kind = "save"
  BY DEF Senders!SaveWrites
<1>2. form[s] \in Senders!Filled /\ (form[s].mode = "custom" => form[s].from # Nothing)
  BY <1>1 DEF Underway, Senders!TypeOK
<1>3. kept \in BOOLEAN
  BY DEF Senders!TypeOK, Senders!Rows
<1>4. r \in Senders!Rows /\ r.mode = form[s].mode /\ r.from = form[s].from
        /\ r.selector = form[s].selector /\ r.verified = kept
  <2> HIDE DEF kept
  <2> QED BY <1>2, <1>3 DEF Senders!Merged, Senders!Rows, Senders!Filled
<1>5. proven' \in Senders!Names \cup {Nothing} /\ raced' \in BOOLEAN
  BY <1>1 DEF Senders!TypeOK
<1>6. Senders!TypeOK' /\ Underway' /\ row' = r
  <2> HIDE DEF r
  <2> QED BY <1>1, <1>2, <1>4, <1>5, WriteKeeps
<1>7. ASSUME r.mode = "custom", kept PROVE proven' = Senders!NameOf(r) \/ raced'
  <2>1. same /\ row # Nothing /\ row.verified /\ proven' = proven
    BY <1>1, <1>7
  <2>2. CASE row # old
    BY <1>1, <2>1, <2>2 DEF Senders!Late
  <2>3. CASE row = old
    <3>1. row.mode = form[s].mode /\ Senders!NameOf(row) = Senders!NameOf(r)
      BY <1>4, <2>1, <2>3 DEF Senders!Of, Senders!NameOf
    <3>2. proven = Senders!NameOf(row) \/ raced
      BY <1>4, <1>7, <2>1, <3>1 DEF Senders!VerifiedIsProven
    <3> QED BY <1>1, <2>1, <3>1, <3>2
  <2> QED BY <2>2, <2>3
<1>8. Senders!VerifiedIsProven'
  <2> HIDE DEF r, kept
  <2> QED BY <1>4, <1>6, <1>7 DEF Senders!VerifiedIsProven, Senders!NameOf
<1> QED BY <1>6, <1>8

LEMMA VerifyWriteKeeps ==
  ASSUME SendersInv, NEW s \in Hands, Senders!VerifyWrites(s)
  PROVE  SendersInv'
<1> USE DEF SendersInv
<1> DEFINE old   == request[s].read
           found == IF old.mode = "platform" THEN TRUE ELSE Senders!Found(old)
           r     == [row EXCEPT !.verified = found]
<1>1. /\ Senders!Writes(s, r) /\ UNCHANGED <<dns, form>>
      /\ proven' = IF old.mode # "platform" /\ Senders!Found(old) THEN Senders!NameOf(old) ELSE Nothing
      /\ raced' = Senders!Late(s)
      /\ request[s].kind = "verify"
  BY DEF Senders!VerifyWrites
<1>2. row \in Senders!Rows /\ old \in Senders!Rows /\ found \in BOOLEAN
  <2>1. Senders!Found(old) \in BOOLEAN
    BY DEF Senders!Found
  <2>2. row \in Senders!Rows /\ old \in Senders!Rows
    BY <1>1 DEF Underway, Senders!TypeOK
  <2> QED BY <2>1, <2>2
<1>3. r \in Senders!Rows /\ r.mode = row.mode /\ r.from = row.from /\ r.selector = row.selector
        /\ r.verified = found
  <2> HIDE DEF found
  <2> QED BY <1>2 DEF Senders!Rows
<1>4. proven' \in Senders!Names \cup {Nothing} /\ raced' \in BOOLEAN
  BY <1>1 DEF Senders!TypeOK, Senders!Found, Senders!Late
<1>5. r.mode = "custom" => r.from # Nothing
  BY <1>2, <1>3, SendersAssumption DEF Senders!TypeOK
<1>6. Senders!TypeOK' /\ Underway' /\ row' = r
  <2> HIDE DEF r
  <2> QED BY <1>1, <1>3, <1>4, <1>5, WriteKeeps
<1>7. ASSUME r.mode = "custom", found PROVE proven' = Senders!NameOf(r) \/ raced'
  <2>1. CASE row # old
    BY <1>1, <2>1 DEF Senders!Late
  <2>2. CASE row = old
    BY <1>1, <1>3, <1>7, <2>2 DEF Senders!NameOf
  <2> QED BY <2>1, <2>2
<1>8. Senders!VerifiedIsProven'
  <2> HIDE DEF r, found
  <2> QED BY <1>3, <1>6, <1>7 DEF Senders!VerifiedIsProven, Senders!NameOf
<1> QED BY <1>6, <1>8

LEMMA GenerateWriteKeeps ==
  ASSUME SendersInv, NEW s \in Hands, Senders!GenerateWrites(s)
  PROVE  SendersInv'
<1> USE DEF SendersInv
<1>1. PICK k \in Choices : Senders!Writes(s, [row EXCEPT !.selector = k, !.verified = FALSE])
  BY DEF Senders!GenerateWrites
<1> DEFINE r == [row EXCEPT !.selector = k, !.verified = FALSE]
<1>2. /\ UNCHANGED <<dns, form>> /\ proven' = Nothing /\ raced' = FALSE /\ request[s].kind = "generate"
  BY DEF Senders!GenerateWrites
<1>3. row \in Senders!Rows /\ row # Nothing
  BY <1>2 DEF Underway, Senders!TypeOK
<1>4. r \in Senders!Rows /\ r.mode = row.mode /\ r.from = row.from /\ r.verified = FALSE
  BY <1>3 DEF Senders!Rows
<1>5. r.mode = "custom" => r.from # Nothing
  BY <1>3, <1>4 DEF Senders!TypeOK
<1>6. Senders!TypeOK' /\ Underway' /\ row' = r
  <2> HIDE DEF r
  <2> QED BY <1>1, <1>2, <1>4, <1>5, WriteKeeps DEF r
<1>7. Senders!VerifiedIsProven'
  <2> HIDE DEF r
  <2> QED BY <1>4, <1>6 DEF Senders!VerifiedIsProven
<1> QED BY <1>6, <1>7

(* email-config.service.ts: the flag of a custom sender says that the record of the very address and
   selector was found, unless a write had not read what it replaced. *)
THEOREM SendersCorrect == Senders!Spec => [](Senders!TypeOK /\ Senders!VerifiedIsProven)
<1>1. Senders!Init => SendersInv
  <2> SUFFICES ASSUME Senders!Init PROVE SendersInv OBVIOUS
  <2>1. Senders!Quiet \in [kind : Senders!Calls \cup {"none"}, read : Senders!Rows \cup {Nothing}]
    BY DEF Senders!Quiet
  <2>2. Senders!TypeOK
    BY <2>1 DEF Senders!Init, Senders!TypeOK
  <2>3. Underway /\ Senders!VerifiedIsProven
    BY DEF Senders!Init, Underway, Senders!VerifiedIsProven, Senders!Quiet
  <2> QED BY <2>2, <2>3 DEF SendersInv
<1>2. SendersInv /\ [Senders!Next]_(Senders!vars) => SendersInv'
  <2> SUFFICES ASSUME SendersInv, [Senders!Next]_(Senders!vars) PROVE SendersInv' OBVIOUS
  <2>1. CASE UNCHANGED Senders!vars
    BY <2>1 DEF Senders!vars, SendersInv, Senders!TypeOK, Underway, Senders!VerifiedIsProven, Senders!NameOf
  <2>2. CASE Senders!Publish
    BY <2>2
       DEF Senders!Publish, SendersInv, Senders!TypeOK, Underway, Senders!VerifiedIsProven, Senders!NameOf
  <2> QED
    BY <2>1, <2>2, FormKeeps, RequestKeeps, SaveWriteKeeps, VerifyWriteKeeps, GenerateWriteKeeps
       DEF Senders!Next
<1>3. SendersInv => Senders!TypeOK /\ Senders!VerifiedIsProven
  BY DEF SendersInv
<1> QED BY <1>1, <1>2, <1>3, PTL DEF Senders!Spec

-----------------------------------------------------------------------------
(* The wizard and its gateway (booking-wizard.tsx, payment.service.ts). *)

WizardPages == {"closed", "lock", "details", "review", "error", "gateway", "confirmation", "left"}
TabRecs == [page : WizardPages, method : Wizards!Methods, call : {Nothing, "lock", "book", "initiate"},
            answer : {Nothing, "ok", "no"}, expired : BOOLEAN]

(* The customer sits at the gateway, or has closed the tab: this tab sends nothing any more. *)
Over(t) == tab[t].call = Nothing /\ (tab[t].page = "gateway" \/ (tab[t].page = "closed" /\ t \in cut))

(* A booking that still needs its customer to be led on. *)
Waits(t) ==
  \/ booking[t].status = "confirmed" /\ booking[t].method = "pay_at_venue"
  \/ booking[t].status = "pending" /\ booking[t].method = "online"

(* Where a request may be under way, and what a tab knows of its booking and of its form. *)
Requests(t) ==
  /\ tab[t].call = "lock" => tab[t].page = "lock"
  /\ tab[t].call \in {"book", "initiate"} => tab[t].page \in {"review", "left"}
  /\ tab[t].call = "initiate" => tab[t].method = "online"
  /\ tab[t].page = "left" /\ tab[t].method = "online" => t \in cut
FormHad(t) ==
  /\ tab[t].page = "gateway" => order[t] # Nothing
  /\ tab[t].call = "initiate" /\ tab[t].answer = "ok" => order[t] # Nothing
  /\ order[t] # Nothing =>
       \/ tab[t].call = "initiate" /\ tab[t].answer # Nothing
       \/ /\ tab[t].call = Nothing
          /\ tab[t].page \in {"gateway", "confirmation", "left"} \/ (tab[t].page = "closed" /\ t \in cut)
  /\ slug[t] # Nothing =>
       \/ tab[t].call = "initiate"
       \/ /\ tab[t].call = Nothing
          /\ tab[t].page \in {"gateway", "confirmation", "left"} \/ (tab[t].page = "closed" /\ t \in cut)
  /\ slug[t] # Nothing \/ order[t] # Nothing =>
       booking[t].status # "none" /\ booking[t].method # "pay_at_venue"
LedOn(t) ==
  /\ booking[t].method = "pay_at_venue" => booking[t].status # "pending"
  /\ tab[t].call = "book" /\ tab[t].answer = "ok" => booking[t].method = tab[t].method
  /\ tab[t].call = "book" /\ tab[t].answer # "ok" /\ t \notin cut => ~Waits(t)
  /\ booking[t].status = "confirmed" /\ booking[t].method = "pay_at_venue" =>
       tab[t].page = "confirmation" \/ tab[t].call = "book" \/ t \in cut
  /\ booking[t].status = "pending" /\ booking[t].method = "online" =>
       tab[t].page = "gateway" \/ tab[t].call \in {"book", "initiate"} \/ t \in cut
Fine(t) == Requests(t) /\ FormHad(t) /\ LedOn(t)

(* A report is about the form that its tab has submitted. *)
Reported ==
  /\ \A n \in notes : Over(n.tab) /\ n.form = order[n.tab]
  /\ \A t \in heard : Over(t)

(* PaidIsBooked alone is not inductive: a decline that is worked on has found its booking pending, and *)
(* what has become of that booking or of its payment since is an excuse.                               *)
Declines(n) ==
  ~n.paid => (booking[n.tab].status = "pending" /\ n.tab \notin heard) \/ n.tab \in spoilt
PaidFor ==
  /\ Wizards!PaidIsBooked
  /\ \A t \in Hands : booking[t].status = "cancelled" => t \in spoilt
  /\ \A n \in reading : Declines(n)

WizardsInv == Wizards!TypeOK /\ (\A t \in Hands : Fine(t)) /\ Reported /\ PaidFor

(* A step of one tab. *)
LEMMA OneTabFine ==
  ASSUME WizardsInv, NEW t \in Hands, Fine(t)',
         \A u \in Hands \ {t} : /\ tab'[u] = tab[u] /\ booking'[u] = booking[u]
                                /\ order'[u] = order[u] /\ slug'[u] = slug[u]
                                /\ (u \in cut) = (u \in cut')
  PROVE  \A u \in Hands : Fine(u)'
<1> TAKE u \in Hands
<1>1. CASE u = t BY <1>1
<1>2. CASE u # t BY <1>2 DEF WizardsInv, Fine, Requests, FormHad, LedOn, Waits
<1> QED BY <1>1, <1>2

LEMMA OneTabReported ==
  ASSUME WizardsInv, NEW t \in Hands, ~Over(t) \/ Over(t)',
         UNCHANGED <<order, notes, heard>>,
         cut \subseteq cut', \A u \in Hands \ {t} : tab'[u] = tab[u]
  PROVE  Reported'
<1>1. \A u \in Hands : Over(u) => Over(u)'
  <2> TAKE u \in Hands
  <2>1. CASE u = t BY <2>1
  <2>2. CASE u # t BY <2>2 DEF Over
  <2> QED BY <2>1, <2>2
<1>2. \A n \in notes : n.tab \in Hands
  BY DEF WizardsInv, Wizards!TypeOK
<1>3. heard \subseteq Hands
  BY DEF WizardsInv, Wizards!TypeOK
<1> QED BY <1>1, <1>2, <1>3 DEF WizardsInv, Reported

(* What the wizard's own steps come to: the tab is changed, and perhaps cut off. *)
LEMMA TabStepKeeps ==
  ASSUME WizardsInv, NEW t \in Hands, NEW c \in TabRecs, tab' = [tab EXCEPT ![t] = c],
         UNCHANGED <<booking, order, slug, notes, reading, active, heard, spoilt>>, lock' \in Hands \cup {Nothing},
         cut' \in {cut, cut \cup {t}}, Fine(t)', ~Over(t) \/ Over(t)'
  PROVE  WizardsInv'
<1>1. tab' \in [Hands -> TabRecs] /\ (\A u \in Hands \ {t} : tab'[u] = tab[u]) /\ tab'[t] = c
  BY DEF WizardsInv, Wizards!TypeOK, TabRecs, WizardPages
<1>2. \A u \in Hands : Fine(u)'
  BY <1>1, OneTabFine
<1>3. Reported'
  BY <1>1, OneTabReported
<1>4. Wizards!TypeOK'
  <2>1. \A u \in Hands : tab'[u].page = "gateway" => order'[u] # Nothing
    BY <1>2 DEF Fine, FormHad
  <2> QED BY <1>1, <2>1 DEF WizardsInv, Wizards!TypeOK, TabRecs, WizardPages
<1>5. PaidFor'
  BY DEF WizardsInv, PaidFor, Declines, Wizards!PaidIsBooked
<1> QED BY <1>2, <1>3, <1>4, <1>5 DEF WizardsInv

(* The records that the wizard's steps write. *)
LEMMA TabWrites ==
  ASSUME WizardsInv, NEW t \in Hands
  PROVE  /\ tab[t] \in TabRecs
         /\ \A page \in WizardPages : Wizards!Shows(t, page) => \E c \in TabRecs :
              /\ tab' = [tab EXCEPT ![t] = c] /\ tab'[t] = c
              /\ c.page = page /\ c.call = Nothing /\ c.answer = Nothing /\ c.method = tab[t].method
         /\ \A req \in {"lock", "book", "initiate"} : Wizards!Calls(t, req) => \E c \in TabRecs :
              /\ tab' = [tab EXCEPT ![t] = c] /\ tab'[t] = c
              /\ c.page = tab[t].page /\ c.call = req /\ c.answer = Nothing /\ c.method = tab[t].method
         /\ \A a \in {"ok", "no"} : Wizards!Answers(t, a) => \E c \in TabRecs :
              /\ tab' = [tab EXCEPT ![t] = c] /\ tab'[t] = c
              /\ c.page = tab[t].page /\ c.call = tab[t].call /\ c.answer = a /\ c.method = tab[t].method
<1>1. tab \in [Hands -> TabRecs] /\ tab[t] \in TabRecs
  BY DEF WizardsInv, Wizards!TypeOK, TabRecs, WizardPages
<1>2. ASSUME NEW page \in WizardPages, Wizards!Shows(t, page)
      PROVE  \E c \in TabRecs :
              /\ tab' = [tab EXCEPT ![t] = c] /\ tab'[t] = c
              /\ c.page = page /\ c.call = Nothing /\ c.answer = Nothing /\ c.method = tab[t].method
  <2> DEFINE c == [tab[t] EXCEPT !.page = page, !.call = Nothing, !.answer = Nothing]
  <2>1. c \in TabRecs /\ c.page = page /\ c.call = Nothing /\ c.answer = Nothing /\ c.method = tab[t].method
    BY <1>1 DEF TabRecs
  <2>2. tab' = [tab EXCEPT ![t] = c]
    BY <1>1, <1>2 DEF Wizards!Shows
  <2> HIDE DEF c
  <2> QED BY <1>1, <2>1, <2>2
<1>3. ASSUME NEW req \in {"lock", "book", "initiate"}, Wizards!Calls(t, req)
      PROVE  \E c \in TabRecs :
              /\ tab' = [tab EXCEPT ![t] = c] /\ tab'[t] = c
              /\ c.page = tab[t].page /\ c.call = req /\ c.answer = Nothing /\ c.method = tab[t].method
  <2> DEFINE c == [tab[t] EXCEPT !.call = req, !.answer = Nothing]
  <2>1. c \in TabRecs /\ c.page = tab[t].page /\ c.call = req /\ c.answer = Nothing
          /\ c.method = tab[t].method
    BY <1>1 DEF TabRecs
  <2>2. tab' = [tab EXCEPT ![t] = c]
    BY <1>1, <1>3 DEF Wizards!Calls
  <2> HIDE DEF c
  <2> QED BY <1>1, <2>1, <2>2
<1>4. ASSUME NEW a \in {"ok", "no"}, Wizards!Answers(t, a)
      PROVE  \E c \in TabRecs :
              /\ tab' = [tab EXCEPT ![t] = c] /\ tab'[t] = c
              /\ c.page = tab[t].page /\ c.call = tab[t].call /\ c.answer = a /\ c.method = tab[t].method
  <2> DEFINE c == [tab[t] EXCEPT !.answer = a]
  <2>1. c \in TabRecs /\ c.page = tab[t].page /\ c.call = tab[t].call /\ c.answer = a
          /\ c.method = tab[t].method
    BY <1>1 DEF TabRecs
  <2>2. tab' = [tab EXCEPT ![t] = c]
    BY <1>1, <1>4 DEF Wizards!Answers
  <2> HIDE DEF c
  <2> QED BY <1>1, <2>1, <2>2
<1> QED BY <1>1, <1>2, <1>3, <1>4

(* What the wizard does on its own, and what it does with an answer. *)
LEMMA WizardKeeps ==
  ASSUME WizardsInv, NEW t \in Hands,
         \/ Wizards!OpenWizard(t) \/ Wizards!Continue(t) \/ Wizards!Back(t) \/ Wizards!Confirm(t)
         \/ Wizards!CountdownEnds(t) \/ Wizards!Leave(t) \/ Wizards!CloseTab(t) \/ Wizards!NetworkFails(t)
  PROVE  WizardsInv'
<1>1. tab \in [Hands -> TabRecs] /\ tab[t] \in TabRecs /\ lock \in Hands \cup {Nothing} /\ cut \subseteq Hands
  BY DEF WizardsInv, Wizards!TypeOK, TabRecs, WizardPages
<1>2. Fine(t)
  BY DEF WizardsInv
<1>3. UNCHANGED <<booking, order, slug, notes, reading, active, heard, spoilt>>
  BY DEF Wizards!OpenWizard, Wizards!Continue, Wizards!Back, Wizards!Confirm, Wizards!CountdownEnds,
         Wizards!Leave, Wizards!CloseTab, Wizards!NetworkFails, Wizards!OnlyTab, Wizards!paying, Wizards!reports
<1> USE DEF Fine, Requests, FormHad, LedOn, Waits, Over
<1>4. CASE Wizards!OpenWizard(t)
  <2>0. tab[t].page = "closed" /\ t \notin cut /\ UNCHANGED <<lock, cut>>
    BY <1>4 DEF Wizards!OpenWizard, Wizards!OnlyTab
  <2>1. order[t] = Nothing /\ tab[t].call \notin {"lock", "book", "initiate"}
    BY <1>2, <2>0, WizardsAssumption
  <2>2. CASE tab' = [tab EXCEPT ![t].page = "lock", ![t].call = "lock"]
    <3> DEFINE c == [tab[t] EXCEPT !.page = "lock", !.call = "lock"]
    <3>1. c \in TabRecs /\ c.page = "lock" /\ c.call = "lock" /\ c.method = tab[t].method
            /\ c.answer = tab[t].answer
      BY <1>1 DEF TabRecs, WizardPages
    <3>2. tab' = [tab EXCEPT ![t] = c] /\ tab'[t] = c
      BY <1>1, <2>2
    <3> HIDE DEF c
    <3>3. Fine(t)' /\ ~Over(t)
      BY <1>2, <1>3, <2>0, <2>1, <3>1, <3>2, WizardsAssumption
    <3> QED BY <1>1, <1>3, <2>0, <3>1, <3>2, <3>3, TabStepKeeps
  <2>3. CASE Wizards!Shows(t, "error")
    <3>1. PICK c \in TabRecs : /\ tab' = [tab EXCEPT ![t] = c] /\ tab'[t] = c
                               /\ c.page = "error" /\ c.call = Nothing /\ c.answer = Nothing
                                  /\ c.method = tab[t].method
      BY <2>3, TabWrites DEF WizardPages
    <3>2. Fine(t)' /\ ~Over(t)
      BY <1>2, <1>3, <2>0, <2>1, <3>1, WizardsAssumption
    <3> QED BY <1>1, <1>3, <2>0, <3>1, <3>2, TabStepKeeps
  <2> QED BY <1>4, <2>2, <2>3 DEF Wizards!OpenWizard
<1>5. CASE Wizards!Continue(t)
  <2>0. tab[t].page = "details" /\ UNCHANGED <<lock, cut>>
    BY <1>5 DEF Wizards!Continue, Wizards!OnlyTab
  <2>1. PICK m \in Wizards!Methods : tab' = [tab EXCEPT ![t].page = "review", ![t].method = m]
    BY <1>5 DEF Wizards!Continue
  <2> DEFINE c == [tab[t] EXCEPT !.page = "review", !.method = m]
  <2>2. c \in TabRecs /\ c.page = "review" /\ c.call = tab[t].call /\ c.method = m /\ c.answer = tab[t].answer
    BY <1>1 DEF TabRecs, WizardPages
  <2>3. tab' = [tab EXCEPT ![t] = c] /\ tab'[t] = c
    BY <1>1, <2>1
  <2> HIDE DEF c
  <2>4. Fine(t)' /\ ~Over(t)
    BY <1>2, <1>3, <2>0, <2>2, <2>3, WizardsAssumption
  <2> QED BY <1>1, <1>3, <2>0, <2>2, <2>3, <2>4, TabStepKeeps
<1>6. CASE Wizards!Back(t)
  <2>0. tab[t].page = "review" /\ tab[t].call = Nothing /\ UNCHANGED <<lock, cut>>
          /\ Wizards!Shows(t, "details")
    BY <1>6 DEF Wizards!Back, Wizards!OnlyTab
  <2>1. PICK c \in TabRecs : /\ tab' = [tab EXCEPT ![t] = c] /\ tab'[t] = c
                             /\ c.page = "details" /\ c.call = Nothing /\ c.answer = Nothing
                                /\ c.method = tab[t].method
    BY <2>0, TabWrites DEF WizardPages
  <2>2. Fine(t)' /\ ~Over(t)
    BY <1>2, <1>3, <2>0, <2>1, WizardsAssumption
  <2> QED BY <1>1, <1>3, <2>0, <2>1, <2>2, TabStepKeeps
<1>7. CASE Wizards!Confirm(t)
  <2>0. tab[t].page = "review" /\ tab[t].call = Nothing /\ UNCHANGED <<lock, cut>> /\ Wizards!Calls(t, "book")
    BY <1>7 DEF Wizards!Confirm, Wizards!OnlyTab
  <2>1. PICK c \in TabRecs : /\ tab' = [tab EXCEPT ![t] = c] /\ tab'[t] = c
                             /\ c.page = tab[t].page /\ c.call = "book" /\ c.answer = Nothing
                                /\ c.method = tab[t].method
    BY <2>0, TabWrites
  <2>2. Fine(t)' /\ ~Over(t)
    BY <1>2, <1>3, <2>0, <2>1, WizardsAssumption
  <2> QED BY <1>1, <1>3, <2>0, <2>1, <2>2, TabStepKeeps
<1>8. CASE Wizards!CountdownEnds(t)
  <2>0. tab[t].page \in {"details", "review"} /\ UNCHANGED cut /\ lock' \in Hands \cup {Nothing}
        /\ tab' = [tab EXCEPT ![t].expired = TRUE]
    BY <1>1, <1>8 DEF Wizards!CountdownEnds
  <2> DEFINE c == [tab[t] EXCEPT !.expired = TRUE]
  <2>2. c \in TabRecs /\ c.page = tab[t].page /\ c.call = tab[t].call /\ c.method = tab[t].method
          /\ c.answer = tab[t].answer
    BY <1>1 DEF TabRecs
  <2>3. tab' = [tab EXCEPT ![t] = c] /\ tab'[t] = c
    BY <1>1, <2>0
  <2> HIDE DEF c
  <2>4. Fine(t)' /\ ~Over(t)
    BY <1>2, <1>3, <2>0, <2>2, <2>3, WizardsAssumption
  <2> QED BY <1>1, <1>3, <2>0, <2>2, <2>3, <2>4, TabStepKeeps
<1>9. CASE Wizards!Leave(t)
  <2>0. /\ tab[t].page \in {"details", "review", "error"} /\ UNCHANGED lock
        /\ tab' = [tab EXCEPT ![t].page = "left"]
        /\ cut' = IF tab[t].method = "online" THEN cut \cup {t} ELSE cut
    BY <1>9 DEF Wizards!Leave, Wizards!OnlyTab
  <2> DEFINE c == [tab[t] EXCEPT !.page = "left"]
  <2>2. c \in TabRecs /\ c.page = "left" /\ c.call = tab[t].call /\ c.method = tab[t].method
          /\ c.answer = tab[t].answer
    BY <1>1 DEF TabRecs, WizardPages
  <2>3. tab' = [tab EXCEPT ![t] = c] /\ tab'[t] = c
    BY <1>1, <2>0
  <2> HIDE DEF c
  <2>4. Fine(t)' /\ ~Over(t)
    BY <1>2, <1>3, <2>0, <2>2, <2>3, WizardsAssumption
  <2> QED BY <1>1, <1>3, <2>0, <2>2, <2>3, <2>4, TabStepKeeps
<1>10. CASE Wizards!CloseTab(t)
  <2>0. UNCHANGED lock /\ tab' = [tab EXCEPT ![t] = Wizards!Fresh] /\ cut' = cut \cup {t}
    BY <1>10 DEF Wizards!CloseTab, Wizards!OnlyTab
  <2>1. /\ Wizards!Fresh \in TabRecs /\ Wizards!Fresh.page = "closed" /\ Wizards!Fresh.call = Nothing
        /\ Wizards!Fresh.answer = Nothing /\ Wizards!Fresh.method = "online"
    BY DEF Wizards!Fresh, TabRecs, WizardPages, Wizards!Methods
  <2>2. tab'[t] = Wizards!Fresh
    BY <1>1, <2>0
  <2>3. Fine(t)' /\ Over(t)'
    BY <1>2, <1>3, <2>0, <2>1, <2>2, WizardsAssumption
  <2> QED BY <1>1, <1>3, <2>0, <2>1, <2>3, TabStepKeeps
<1>11. CASE Wizards!NetworkFails(t)
  <2>0. tab[t].call # Nothing /\ UNCHANGED lock /\ cut' = cut \cup {t} /\ Wizards!Answers(t, "no")
    BY <1>11 DEF Wizards!NetworkFails, Wizards!OnlyTab
  <2>1. PICK c \in TabRecs : /\ tab' = [tab EXCEPT ![t] = c] /\ tab'[t] = c
                             /\ c.page = tab[t].page /\ c.call = tab[t].call /\ c.answer = "no"
                                /\ c.method = tab[t].method
    BY <2>0, TabWrites
  <2>2. Fine(t)' /\ ~Over(t)
    BY <1>2, <1>3, <2>0, <2>1, WizardsAssumption
  <2> QED BY <1>1, <1>3, <2>0, <2>1, <2>2, TabStepKeeps
<1> QED BY <1>4, <1>5, <1>6, <1>7, <1>8, <1>9, <1>10, <1>11

LEMMA AnswerKeeps ==
  ASSUME WizardsInv, NEW t \in Hands, Wizards!Locked(t) \/ Wizards!Booked(t) \/ Wizards!Initiated(t)
  PROVE  WizardsInv'
<1>1. tab \in [Hands -> TabRecs] /\ tab[t] \in TabRecs /\ lock \in Hands \cup {Nothing} /\ cut \subseteq Hands
  BY DEF WizardsInv, Wizards!TypeOK, TabRecs, WizardPages
<1>2. Fine(t)
  BY DEF WizardsInv
<1>3. UNCHANGED <<lock, booking, order, slug, notes, reading, active, heard, spoilt>>
  BY DEF Wizards!Locked, Wizards!Booked, Wizards!Initiated, Wizards!OnlyTab, Wizards!paying, Wizards!reports
<1>p. tab[t].page \in WizardPages /\ "confirmation" \in WizardPages /\ "gateway" \in WizardPages
      /\ "details" \in WizardPages /\ "error" \in WizardPages
  BY <1>1 DEF TabRecs, WizardPages
<1> USE DEF Fine, Requests, FormHad, LedOn, Waits, Over
<1>4. CASE Wizards!Locked(t)
  <2>1. tab[t].call = "lock" /\ tab[t].answer # Nothing /\ UNCHANGED cut
    BY <1>4 DEF Wizards!Locked, Wizards!Got
  <2>2. PICK page \in {"details", "error"} : Wizards!Shows(t, page)
    BY <1>2, <1>4, <2>1 DEF Wizards!Locked
  <2>3. PICK c \in TabRecs : /\ tab' = [tab EXCEPT ![t] = c] /\ tab'[t] = c
                             /\ c.page = page /\ c.call = Nothing /\ c.answer = Nothing
                                /\ c.method = tab[t].method
    BY <1>p, <2>2, TabWrites
  <2>4. Fine(t)' /\ ~Over(t)
    BY <1>2, <1>3, <2>1, <2>3, WizardsAssumption
  <2> QED BY <1>1, <1>3, <2>1, <2>3, <2>4, TabStepKeeps
<1>5. CASE Wizards!Booked(t)
  <2>1. tab[t].call = "book" /\ tab[t].answer # Nothing /\ UNCHANGED cut
    BY <1>5 DEF Wizards!Booked, Wizards!Got
  <2>2. CASE tab[t].answer = "ok" /\ tab[t].method = "online"
    <3>1. PICK c \in TabRecs : /\ tab' = [tab EXCEPT ![t] = c] /\ tab'[t] = c
                               /\ c.page = tab[t].page /\ c.call = "initiate" /\ c.answer = Nothing
                                  /\ c.method = tab[t].method
      BY <1>5, <2>2, TabWrites DEF Wizards!Booked
    <3>2. Fine(t)' /\ ~Over(t)
      BY <1>2, <1>3, <2>1, <2>2, <3>1, WizardsAssumption
    <3> QED BY <1>1, <1>3, <2>1, <3>1, <3>2, TabStepKeeps
  <2>3. CASE tab[t].answer = "ok" /\ tab[t].method # "online"
    <3>1. PICK c \in TabRecs : /\ tab' = [tab EXCEPT ![t] = c] /\ tab'[t] = c
                               /\ c.page = "confirmation" /\ c.call = Nothing /\ c.answer = Nothing
                                  /\ c.method = tab[t].method
      BY <1>5, <1>p, <2>3, TabWrites DEF Wizards!Booked
    <3>2. Fine(t)' /\ ~Over(t)
      BY <1>2, <1>3, <2>1, <2>3, <3>1, WizardsAssumption
    <3> QED BY <1>1, <1>3, <2>1, <3>1, <3>2, TabStepKeeps
  <2>4. CASE tab[t].answer # "ok"
    <3>1. PICK c \in TabRecs : /\ tab' = [tab EXCEPT ![t] = c] /\ tab'[t] = c
                               /\ c.page = tab[t].page /\ c.call = Nothing /\ c.answer = Nothing
                                  /\ c.method = tab[t].method
      BY <1>5, <1>p, <2>4, TabWrites DEF Wizards!Booked
    <3>2. Fine(t)' /\ ~Over(t)
      BY <1>2, <1>3, <2>1, <2>4, <3>1, WizardsAssumption
    <3> QED BY <1>1, <1>3, <2>1, <3>1, <3>2, TabStepKeeps
  <2> QED BY <2>2, <2>3, <2>4
<1>6. CASE Wizards!Initiated(t)
  <2>1. tab[t].call = "initiate" /\ tab[t].answer \in {"ok", "no"}
    BY <1>1, <1>6 DEF Wizards!Initiated, Wizards!Got, TabRecs
  <2>2. PICK page \in WizardPages :
          /\ Wizards!Shows(t, page) /\ cut' \in {cut, cut \cup {t}}
          /\ \/ page = "confirmation" /\ cut' = cut \cup {t}
             \/ page = "gateway" /\ tab[t].answer = "ok"
             \/ page = tab[t].page /\ page = "left"
    <3>1. CASE tab[t].answer = "no"
      BY <1>6, <1>p, <3>1 DEF Wizards!Initiated
    <3>2. CASE tab[t].answer = "ok" /\ tab[t].page = "review"
      BY <1>6, <1>p, <3>2 DEF Wizards!Initiated
    <3>3. CASE tab[t].answer = "ok" /\ tab[t].page # "review"
      <4>1. tab[t].page = "left" BY <1>2, <2>1, <3>3
      <4> QED BY <1>6, <1>p, <3>3, <4>1 DEF Wizards!Initiated
    <3> QED BY <2>1, <3>1, <3>2, <3>3
  <2>3. PICK c \in TabRecs : /\ tab' = [tab EXCEPT ![t] = c] /\ tab'[t] = c
                             /\ c.page = page /\ c.call = Nothing /\ c.answer = Nothing
                                /\ c.method = tab[t].method
    BY <2>2, TabWrites
  <2>4. Fine(t)' /\ ~Over(t)
    BY <1>2, <1>3, <2>1, <2>2, <2>3, WizardsAssumption
  <2> QED BY <1>1, <1>3, <2>2, <2>3, <2>4, TabStepKeeps
<1> QED BY <1>4, <1>5, <1>6

(* The API serves a request of the wizard. *)
LEMMA ServedKeeps ==
  ASSUME WizardsInv, NEW t \in Hands, Wizards!ServeLock(t) \/ Wizards!ServeBook(t)
  PROVE  WizardsInv'
<1>1. tab \in [Hands -> TabRecs] /\ tab[t] \in TabRecs /\ lock \in Hands \cup {Nothing} /\ cut \subseteq Hands
  BY DEF WizardsInv, Wizards!TypeOK, TabRecs, WizardPages
<1>2. Fine(t)
  BY DEF WizardsInv
<1>3. UNCHANGED <<cut, order, slug, notes, reading, active, heard, spoilt>>
  BY DEF Wizards!ServeLock, Wizards!ServeBook, Wizards!paying, Wizards!reports
<1>4. CASE Wizards!ServeLock(t)
  <2>1. tab[t].call = "lock" /\ UNCHANGED booking /\ lock' \in Hands \cup {Nothing}
    BY <1>1, <1>4 DEF Wizards!ServeLock, Wizards!Waiting, Wizards!paying
  <2>2. PICK a \in {"ok", "no"} : Wizards!Answers(t, a)
    BY <1>4 DEF Wizards!ServeLock
  <2>3. PICK c \in TabRecs : /\ tab' = [tab EXCEPT ![t] = c] /\ tab'[t] = c
                             /\ c.page = tab[t].page /\ c.call = tab[t].call /\ c.answer = a
                                /\ c.method = tab[t].method
    BY <2>2, TabWrites
  <2>4. Fine(t)' /\ ~Over(t)
    BY <1>2, <1>3, <2>1, <2>3, WizardsAssumption DEF Fine, Requests, FormHad, LedOn, Waits, Over
  <2> QED BY <1>1, <1>3, <2>1, <2>3, <2>4, TabStepKeeps
<1>5. CASE Wizards!ServeBook(t)
  <2>1. tab[t].call = "book" /\ tab[t].answer = Nothing
    BY <1>5 DEF Wizards!ServeBook, Wizards!Waiting
  <2>2. CASE Wizards!Answers(t, "no") /\ UNCHANGED <<lock, booking>>
    <3>1. PICK c \in TabRecs : /\ tab' = [tab EXCEPT ![t] = c] /\ tab'[t] = c
                               /\ c.page = tab[t].page /\ c.call = tab[t].call /\ c.answer = "no"
                                  /\ c.method = tab[t].method
      BY <2>2, TabWrites
    <3>2. Fine(t)' /\ ~Over(t)
      BY <1>2, <1>3, <2>1, <2>2, <3>1, WizardsAssumption DEF Fine, Requests, FormHad, LedOn, Waits, Over
    <3> QED BY <1>1, <1>3, <2>1, <2>2, <3>1, <3>2, TabStepKeeps
  <2>3. CASE lock' = Nothing /\ Wizards!Answers(t, "ok")
               /\ ~(Wizards!Answers(t, "no") /\ UNCHANGED <<lock, booking>>)
    <3> DEFINE b == [status |-> IF tab[t].method = "pay_at_venue" THEN "confirmed" ELSE "pending",
                     method |-> tab[t].method]
    <3>1. PICK c \in TabRecs : /\ tab' = [tab EXCEPT ![t] = c] /\ tab'[t] = c
                               /\ c.page = tab[t].page /\ c.call = tab[t].call /\ c.answer = "ok"
                                  /\ c.method = tab[t].method
      BY <2>3, TabWrites
    <3>2. booking' = [booking EXCEPT ![t] = b]
      BY <1>5, <2>3 DEF Wizards!ServeBook
    <3>3. /\ tab' \in [Hands -> TabRecs] /\ tab'[t] = c /\ booking'[t] = b
          /\ \A u \in Hands \ {t} : tab'[u] = tab[u] /\ booking'[u] = booking[u]
          /\ booking' \in [Hands ->
               [status : {"none", "pending", "confirmed", "cancelled"}, method : Wizards!Methods]]
      BY <1>1, <3>1, <3>2 DEF WizardsInv, Wizards!TypeOK, TabRecs
    <3>4. Fine(t)' /\ ~Over(t)
      BY <1>2, <1>3, <2>1, <3>1, <3>3, WizardsAssumption DEF Fine, Requests, FormHad, LedOn, Waits, Over
    <3>5. \A u \in Hands : Fine(u)'
      BY <1>3, <2>1, <3>3, <3>4, OneTabFine
    <3>6. Reported'
      BY <1>3, <2>1, <3>3, <3>4, OneTabReported
    <3>7. \A u \in Hands : tab'[u].page = "gateway" => order'[u] # Nothing
      BY <3>5 DEF Fine, FormHad
    <3>8. Wizards!TypeOK'
      BY <1>3, <2>1, <2>3, <3>3, <3>7 DEF WizardsInv, Wizards!TypeOK, TabRecs, WizardPages
    <3>9. PaidFor'
      <4>1. t \notin heard /\ \A n \in reading : n.tab # t /\ n.tab \in Hands
        BY <3>4 DEF WizardsInv, Wizards!TypeOK, Reported
      <4>2. b.status # "cancelled" OBVIOUS
      <4> QED
        BY <1>3, <3>3, <4>1, <4>2 DEF WizardsInv, Wizards!TypeOK, PaidFor, Declines, Wizards!PaidIsBooked
    <3> QED BY <3>5, <3>6, <3>8, <3>9 DEF WizardsInv
  <2> QED BY <1>5, <2>2, <2>3 DEF Wizards!ServeBook
<1> QED BY <1>4, <1>5

(* The two reads of the gateway: the slug is kept, or the form is made or refused. *)
LEMMA GatewayKeeps ==
  ASSUME WizardsInv, NEW t \in Hands, Wizards!FindGateway(t) \/ Wizards!ServeInitiate(t)
  PROVE  WizardsInv'
<1>1. /\ tab \in [Hands -> TabRecs] /\ tab[t] \in TabRecs /\ order \in [Hands -> Wizards!Forms \cup {Nothing}]
      /\ slug \in [Hands -> Gateways \cup {Nothing}] /\ active \in Wizards!Forms \cup {Nothing}
  BY DEF WizardsInv, Wizards!TypeOK, TabRecs, WizardPages
<1>2. Fine(t)
  BY DEF WizardsInv
<1>3. /\ UNCHANGED <<lock, booking, cut, notes, reading, active, heard, spoilt>>
      /\ tab[t].call = "initiate" /\ tab[t].answer = Nothing
  BY DEF Wizards!FindGateway, Wizards!ServeInitiate, Wizards!Waiting, Wizards!reports
<1>4. order[t] = Nothing /\ ~Over(t)
  BY <1>2, <1>3, WizardsAssumption DEF Fine, FormHad, Over
<1>5. Wizards!Master \in Wizards!Forms
  BY WizardsAssumption DEF Wizards!Master, Wizards!Forms
<1>6. \E c \in TabRecs, f \in Gateways \cup {Nothing}, o \in Wizards!Forms \cup {Nothing} :
        /\ tab' = [tab EXCEPT ![t] = c] /\ slug' = [slug EXCEPT ![t] = f] /\ order' = [order EXCEPT ![t] = o]
        /\ c.page = tab[t].page /\ c.call = "initiate" /\ c.method = tab[t].method
        /\ o # Nothing => c.answer = "ok" /\ slug[t] # Nothing
        /\ c.answer = "ok" => o # Nothing
        /\ f # Nothing => booking[t].status = "pending"
  <2>1. CASE Wizards!FindGateway(t)
    <3>1. CASE booking[t].status = "pending"
      <4> DEFINE f == IF active = Nothing THEN PayHere ELSE active.gateway
      <4>1. f \in Gateways BY <1>1, WizardsAssumption DEF Wizards!Forms
      <4>2. slug' = [slug EXCEPT ![t] = f] /\ tab' = [tab EXCEPT ![t] = tab[t]]
              /\ order' = [order EXCEPT ![t] = Nothing]
        BY <1>1, <1>4, <2>1, <3>1 DEF Wizards!FindGateway
      <4> HIDE DEF f
      <4> QED BY <1>1, <1>3, <3>1, <4>1, <4>2, WizardsAssumption
    <3>2. CASE booking[t].status # "pending"
      <4>1. Wizards!Answers(t, "no") /\ slug' = [slug EXCEPT ![t] = Nothing]
              /\ order' = [order EXCEPT ![t] = Nothing]
        BY <1>1, <1>4, <2>1, <3>2 DEF Wizards!FindGateway
      <4>2. PICK c \in TabRecs : /\ tab' = [tab EXCEPT ![t] = c] /\ tab'[t] = c
                                 /\ c.page = tab[t].page /\ c.call = tab[t].call /\ c.answer = "no"
                                    /\ c.method = tab[t].method
        BY <4>1, TabWrites
      <4> QED BY <1>3, <4>1, <4>2
    <3> QED BY <3>1, <3>2
  <2>2. CASE Wizards!ServeInitiate(t)
    <3>1. slug[t] # Nothing /\ slug' = [slug EXCEPT ![t] = Nothing]
      BY <2>2 DEF Wizards!ServeInitiate
    <3>2. PICK a \in {"ok", "no"}, o \in Wizards!Forms \cup {Nothing} :
            /\ Wizards!Answers(t, a) /\ order' = [order EXCEPT ![t] = o]
            /\ (a = "ok") = (o # Nothing)
      <4>1. CASE active # Nothing /\ active.gateway = slug[t]
        <5>1. Wizards!Answers(t, "ok") /\ order' = [order EXCEPT ![t] = active]
          BY <2>2, <4>1 DEF Wizards!ServeInitiate
        <5> QED BY <1>1, <4>1, <5>1
      <4>2. CASE (active # Nothing => active.gateway # slug[t]) /\ slug[t] = PayHere
        <5>1. Wizards!Answers(t, "ok") /\ order' = [order EXCEPT ![t] = Wizards!Master]
          BY <2>2, <4>2 DEF Wizards!ServeInitiate
        <5>2. Wizards!Master # Nothing BY <1>5, WizardsAssumption
        <5> HIDE DEF Wizards!Master
        <5> QED BY Zenon, <1>5, <5>1, <5>2
      <4>3. CASE (active # Nothing => active.gateway # slug[t]) /\ slug[t] # PayHere
        <5>1. Wizards!Answers(t, "no") /\ order' = [order EXCEPT ![t] = Nothing]
          BY <1>1, <1>4, <2>2, <4>3 DEF Wizards!ServeInitiate
        <5> QED BY <5>1
      <4> QED BY <4>1, <4>2, <4>3
    <3>3. PICK c \in TabRecs : /\ tab' = [tab EXCEPT ![t] = c] /\ tab'[t] = c
                               /\ c.page = tab[t].page /\ c.call = tab[t].call /\ c.answer = a
                                  /\ c.method = tab[t].method
      BY <3>2, TabWrites
    <3> QED BY <1>3, <3>1, <3>2, <3>3
  <2> QED BY <2>1, <2>2
<1>7. PICK c \in TabRecs, f \in Gateways \cup {Nothing}, o \in Wizards!Forms \cup {Nothing} :
        /\ tab' = [tab EXCEPT ![t] = c] /\ slug' = [slug EXCEPT ![t] = f] /\ order' = [order EXCEPT ![t] = o]
        /\ c.page = tab[t].page /\ c.call = "initiate" /\ c.method = tab[t].method
        /\ o # Nothing => c.answer = "ok" /\ slug[t] # Nothing
        /\ c.answer = "ok" => o # Nothing
        /\ f # Nothing => booking[t].status = "pending"
  BY <1>6
<1>8. /\ tab' \in [Hands -> TabRecs] /\ tab'[t] = c /\ order'[t] = o /\ slug'[t] = f
      /\ \A u \in Hands \ {t} : tab'[u] = tab[u] /\ order'[u] = order[u] /\ slug'[u] = slug[u]
      /\ order' \in [Hands -> Wizards!Forms \cup {Nothing}] /\ slug' \in [Hands -> Gateways \cup {Nothing}]
  BY <1>1, <1>7
<1>9. Fine(t)'
  BY <1>2, <1>3, <1>4, <1>7, <1>8, WizardsAssumption DEF Fine, Requests, FormHad, LedOn, Waits
<1>10. \A u \in Hands : Fine(u)'
  BY <1>3, <1>8, <1>9, OneTabFine
<1>11. Reported'
  <2>1. \A u \in Hands \ {t} : Over(u)' = Over(u)
    BY <1>3, <1>8 DEF Over
  <2> QED BY <1>3, <1>4, <1>8, <2>1 DEF WizardsInv, Wizards!TypeOK, Reported
<1>12. PaidFor'
  BY <1>3 DEF WizardsInv, PaidFor, Declines, Wizards!PaidIsBooked
<1>13. Wizards!TypeOK'
  <2>1. \A u \in Hands : tab'[u].page = "gateway" => order'[u] # Nothing
    BY <1>10 DEF Fine, FormHad
  <2> QED BY <1>3, <1>8, <2>1 DEF WizardsInv, Wizards!TypeOK, TabRecs, WizardPages
<1> QED BY <1>10, <1>11, <1>12, <1>13 DEF WizardsInv

(* The gateway reports: no tab moves. *)
LEMMA PaysKeeps ==
  ASSUME WizardsInv, NEW t \in Hands, Wizards!Pays(t)
  PROVE  WizardsInv'
<1>1. UNCHANGED <<lock, booking, tab, order, slug, reading, active, cut, heard, spoilt>>
        /\ tab[t].page = "gateway"
  BY DEF Wizards!Pays, Wizards!wizard, Wizards!reports
<1>2. PICK paid \in BOOLEAN : notes' = notes \cup {[tab |-> t, form |-> order[t], paid |-> paid]}
  BY DEF Wizards!Pays
<1> DEFINE n == [tab |-> t, form |-> order[t], paid |-> paid]
<1>3. order[t] # Nothing /\ order[t] \in Wizards!Forms
  BY <1>1 DEF WizardsInv, Wizards!TypeOK
<1>4. n \in [tab : Hands, form : Wizards!Forms, paid : BOOLEAN] /\ n.tab = t /\ n.form = order[t]
  BY <1>3
<1>5. Over(t)
  BY <1>1 DEF WizardsInv, Wizards!TypeOK, Fine, Requests, Over
<1>6. \A u \in Hands : Fine(u)' /\ Over(u)' = Over(u)
  BY <1>1 DEF WizardsInv, Fine, Requests, FormHad, LedOn, Waits, Over
<1> HIDE DEF n
<1>7. notes' = notes \cup {n} BY <1>2 DEF n
<1>8. Reported'
  BY <1>1, <1>4, <1>5, <1>6, <1>7 DEF WizardsInv, Wizards!TypeOK, Reported
<1>9. Wizards!TypeOK'
  BY <1>1, <1>4, <1>7 DEF WizardsInv, Wizards!TypeOK
<1>10. PaidFor'
  BY <1>1 DEF WizardsInv, PaidFor, Declines, Wizards!PaidIsBooked
<1> QED BY <1>6, <1>8, <1>9, <1>10 DEF WizardsInv

(* A booking changes its status: its tab is led on as before, since it is not one to pay at the venue *)
(* that is confirmed.                                                                                  *)
LEMMA BookingKeeps ==
  ASSUME WizardsInv, NEW t \in Hands, NEW s \in {"confirmed", "cancelled"},
         booking' = [booking EXCEPT ![t].status = s],
         s = "confirmed" => booking[t].method # "pay_at_venue",
         UNCHANGED <<lock, tab, order, slug, notes, active, cut>>
  PROVE  /\ \A u \in Hands : Fine(u)'
         /\ booking'[t].status = s /\ \A u \in Hands \ {t} : booking'[u] = booking[u]
         /\ booking' \in [Hands ->
               [status : {"none", "pending", "confirmed", "cancelled"}, method : Wizards!Methods]]
<1>1. /\ booking'[t].status = s /\ booking'[t].method = booking[t].method
      /\ \A u \in Hands \ {t} : booking'[u] = booking[u]
      /\ booking' \in [Hands ->
               [status : {"none", "pending", "confirmed", "cancelled"}, method : Wizards!Methods]]
  BY DEF WizardsInv, Wizards!TypeOK
<1>2. Fine(t)'
  BY <1>1 DEF WizardsInv, Fine, Requests, FormHad, LedOn, Waits
<1>3. \A u \in Hands : Fine(u)'
  BY <1>1, <1>2, OneTabFine
<1> QED BY <1>1, <1>3

LEMMA EndsKeeps ==
  ASSUME WizardsInv, NEW t \in Hands, Wizards!BookingEnds(t)
  PROVE  WizardsInv'
<1>1. /\ UNCHANGED <<lock, tab, order, slug, notes, reading, active, cut, heard>>
      /\ booking' = [booking EXCEPT ![t].status = "cancelled"] /\ spoilt' = spoilt \cup {t}
  BY DEF Wizards!BookingEnds, Wizards!wizard, Wizards!paying
<1>2. /\ \A u \in Hands : Fine(u)'
      /\ \A u \in Hands \ {t} : booking'[u] = booking[u]
      /\ booking' \in [Hands ->
               [status : {"none", "pending", "confirmed", "cancelled"}, method : Wizards!Methods]]
  BY <1>1, BookingKeeps
<1>3. Reported'
  BY <1>1 DEF WizardsInv, Reported, Over
<1>4. PaidFor'
  BY <1>1, <1>2 DEF WizardsInv, Wizards!TypeOK, PaidFor, Declines, Wizards!PaidIsBooked
<1>5. Wizards!TypeOK'
  BY <1>1, <1>2 DEF WizardsInv, Wizards!TypeOK
<1> QED BY <1>2, <1>3, <1>4, <1>5 DEF WizardsInv

(* A report is checked: it is ignored, or has found its booking pending. *)
LEMMA ReadKeeps ==
  ASSUME WizardsInv, NEW n \in notes, Wizards!WebhookRead(n)
  PROVE  WizardsInv'
<1>1. UNCHANGED <<lock, booking, tab, order, slug, notes, active, cut>> /\ n \notin reading
  BY DEF Wizards!WebhookRead, Wizards!wizard, Wizards!paying
<1>2. n.tab \in Hands /\ n.form \in Wizards!Forms /\ Over(n.tab) /\ n.form = order[n.tab]
  BY DEF WizardsInv, Wizards!TypeOK, Reported
<1>3. \A u \in Hands : Fine(u)' /\ Over(u)' = Over(u)
  BY <1>1 DEF WizardsInv, Fine, Requests, FormHad, LedOn, Waits, Over
<1>4. CASE reading' = reading \cup {n} /\ UNCHANGED <<heard, spoilt>> /\ booking[n.tab].status = "pending"
  <2>1. Declines(n)
    BY <1>4 DEF WizardsInv, PaidFor, Declines, Wizards!PaidIsBooked
  <2>2. PaidFor'
    BY <1>1, <1>4, <2>1 DEF WizardsInv, PaidFor, Declines, Wizards!PaidIsBooked
  <2>3. Wizards!TypeOK' /\ Reported'
    BY <1>1, <1>3, <1>4 DEF WizardsInv, Wizards!TypeOK, Reported
  <2> QED BY <1>3, <2>2, <2>3 DEF WizardsInv
<1>5. CASE Wizards!Ignores(n) /\ ~(Wizards!Believes(n.form) /\ booking[n.tab].status = "pending")
  <2>1. /\ UNCHANGED reading /\ heard \subseteq heard' /\ heard' \subseteq heard \cup {n.tab}
        /\ ~n.paid => heard' = heard
        /\ spoilt \subseteq spoilt' /\ spoilt' \subseteq spoilt \cup {n.tab}
    BY <1>5 DEF Wizards!Ignores
  <2>2. n.paid => booking[n.tab].status = "confirmed" \/ n.tab \in spoilt'
    <3>1. CASE n.tab \in heard
      BY <2>1, <3>1 DEF WizardsInv, PaidFor, Wizards!PaidIsBooked
    <3>2. CASE n.tab \notin heard /\ ~Wizards!Believes(n.form)
      <4>1. n.form # Wizards!InForce
        BY <3>2 DEF Wizards!Believes, Wizards!InForce
      <4> QED BY <1>5, <3>2, <4>1 DEF Wizards!Ignores
    <3>3. CASE booking[n.tab].status # "pending"
      <4>1. booking[n.tab].status # "none"
        BY <1>2, WizardsAssumption DEF WizardsInv, Fine, FormHad
      <4>2. booking[n.tab].status \in {"none", "pending", "confirmed", "cancelled"}
        BY <1>2 DEF WizardsInv, Wizards!TypeOK
      <4> QED BY <1>2, <2>1, <3>3, <4>1, <4>2 DEF WizardsInv, PaidFor
    <3> QED BY <1>5, <3>1, <3>2, <3>3
  <2>3. ASSUME NEW m \in reading, ~m.paid
        PROVE  \/ booking[m.tab].status = "pending" /\ m.tab \notin heard'
               \/ m.tab \in spoilt'
    <3>1. CASE m.tab \in spoilt
      BY <2>1, <3>1
    <3>2. CASE booking[m.tab].status = "pending" /\ m.tab \notin heard
      <4>1. CASE m.tab \in heard'
        <5>1. m.tab = n.tab /\ n.paid
          BY <2>1, <3>2, <4>1
        <5> QED BY <2>2, <3>2, <5>1
      <4> QED BY <3>2, <4>1
    <3> QED BY <2>3, <3>1, <3>2 DEF WizardsInv, PaidFor, Declines
  <2>4. Wizards!PaidIsBooked'
    <3>1. ASSUME NEW u \in heard' PROVE booking[u].status = "confirmed" \/ u \in spoilt'
      <4>1. CASE u \in heard
        BY <2>1, <4>1 DEF WizardsInv, PaidFor, Wizards!PaidIsBooked
      <4>2. CASE u \notin heard
        <5>1. u = n.tab /\ n.paid BY <2>1, <3>1, <4>2
        <5> QED BY <2>2, <5>1
      <4> QED BY <4>1, <4>2
    <3> QED BY <1>1, <3>1 DEF Wizards!PaidIsBooked
  <2>5. PaidFor'
    BY <1>1, <2>1, <2>3, <2>4 DEF WizardsInv, PaidFor, Declines
  <2>6. Wizards!TypeOK' /\ Reported'
    BY <1>1, <1>2, <1>3, <2>1 DEF WizardsInv, Wizards!TypeOK, Reported
  <2> QED BY <1>3, <2>5, <2>6 DEF WizardsInv
<1> QED BY <1>4, <1>5 DEF Wizards!WebhookRead

(* A report is written: who has paid has the booking, and a decline that finds a payment heard has an *)
(* excuse.                                                                                            *)
LEMMA WrittenKeeps ==
  ASSUME WizardsInv, NEW n \in notes, Wizards!WebhookWrite(n)
  PROVE  WizardsInv'
<1>1. UNCHANGED <<lock, tab, order, slug, notes, active, cut>> /\ n \in reading /\ reading' = reading \ {n}
  BY DEF Wizards!WebhookWrite, Wizards!wizard, Wizards!paying
<1>2. n.tab \in Hands /\ n.form \in Wizards!Forms /\ Over(n.tab) /\ n.form = order[n.tab] /\ n.paid \in BOOLEAN
  BY DEF WizardsInv, Wizards!TypeOK, Reported
<1>3. booking[n.tab].method # "pay_at_venue"
  BY <1>2, WizardsAssumption DEF WizardsInv, Fine, FormHad
<1>4. PICK s \in {"confirmed", "cancelled"} :
        s = (IF n.paid THEN "confirmed" ELSE "cancelled") /\ booking' = [booking EXCEPT ![n.tab].status = s]
  BY DEF Wizards!WebhookWrite
<1>5. /\ \A u \in Hands : Fine(u)'
      /\ booking'[n.tab].status = s /\ \A u \in Hands \ {n.tab} : booking'[u] = booking[u]
      /\ booking' \in [Hands ->
               [status : {"none", "pending", "confirmed", "cancelled"}, method : Wizards!Methods]]
  BY <1>1, <1>2, <1>3, <1>4, BookingKeeps
<1>6. /\ heard' = IF n.paid THEN heard \cup {n.tab} ELSE heard
      /\ spoilt \subseteq spoilt' /\ spoilt' \subseteq spoilt \cup {n.tab}
      /\ ~n.paid /\ n.tab \notin heard => n.tab \in spoilt'
      /\ (\E m \in reading : m.tab = n.tab /\ m.paid # n.paid) => n.tab \in spoilt'
  BY DEF Wizards!WebhookWrite
<1>7. ~n.paid => n.tab \in spoilt'
  BY <1>1, <1>6 DEF WizardsInv, PaidFor, Declines
<1>8. ASSUME NEW m \in reading', ~m.paid
      PROVE  \/ booking'[m.tab].status = "pending" /\ m.tab \notin heard'
             \/ m.tab \in spoilt'
  <2>1. m \in reading /\ m.tab \in Hands
    BY <1>1 DEF WizardsInv, Wizards!TypeOK
  <2>2. CASE m.tab = n.tab
    BY <1>2, <1>6, <1>7, <1>8, <2>1, <2>2
  <2>3. CASE m.tab # n.tab
    BY <1>5, <1>6, <1>8, <2>1, <2>3 DEF WizardsInv, PaidFor, Declines
  <2> QED BY <2>2, <2>3
<1>9. ASSUME NEW u \in Hands
      PROVE  /\ u \in heard' => booking'[u].status = "confirmed" \/ u \in spoilt'
             /\ booking'[u].status = "cancelled" => u \in spoilt'
  <2>1. CASE u = n.tab
    <3>1. CASE n.paid
      BY <1>4, <1>5, <2>1, <3>1
    <3>2. CASE ~n.paid
      BY <1>7, <2>1, <3>2
    <3> QED BY <3>1, <3>2
  <2>2. CASE u # n.tab
    BY <1>5, <1>6, <2>2 DEF WizardsInv, PaidFor, Wizards!PaidIsBooked
  <2> QED BY <2>1, <2>2
<1>10. heard' \subseteq Hands /\ spoilt' \subseteq Hands
  BY <1>2, <1>6 DEF WizardsInv, Wizards!TypeOK
<1>11. PaidFor'
  BY <1>8, <1>9, <1>10 DEF PaidFor, Declines, Wizards!PaidIsBooked
<1>12. Reported'
  BY <1>1, <1>2, <1>6 DEF WizardsInv, Reported, Over
<1>13. Wizards!TypeOK'
  BY <1>1, <1>5, <1>10 DEF WizardsInv, Wizards!TypeOK
<1> QED BY <1>5, <1>11, <1>12, <1>13 DEF WizardsInv

LEMMA VenueKeeps ==
  ASSUME WizardsInv, Wizards!VenueSaves \/ Wizards!LockExpires
  PROVE  WizardsInv'
<1>1. /\ UNCHANGED <<booking, tab, order, slug, notes, reading, cut, heard, spoilt>>
      /\ lock' \in {lock, Nothing} /\ active' \in Wizards!Forms \cup {Nothing}
  BY DEF Wizards!VenueSaves, Wizards!LockExpires, Wizards!wizard, Wizards!paying, Wizards!reports,
         WizardsInv, Wizards!TypeOK, Wizards!Forms
<1>2. \A u \in Hands : Fine(u)'
  BY <1>1 DEF WizardsInv, Fine, Requests, FormHad, LedOn, Waits
<1>3. Reported' /\ PaidFor'
  BY <1>1 DEF WizardsInv, Reported, Over, PaidFor, Declines, Wizards!PaidIsBooked
<1>4. Wizards!TypeOK'
  BY <1>1 DEF WizardsInv, Wizards!TypeOK
<1> QED BY <1>2, <1>3, <1>4 DEF WizardsInv

(* booking-wizard.tsx, payment.service.ts: who has a booking is shown it or led on to the gateway, and
   reports that are late, repeated or out of order take no booking from who has paid for it. *)
THEOREM WizardsCorrect ==
  Wizards!Spec => [](/\ Wizards!TypeOK /\ Wizards!PaidIsBooked
                     /\ Wizards!ConfirmedIsShown /\ Wizards!OnlineIsPaid)
<1>1. Wizards!Init => WizardsInv
  <2> SUFFICES ASSUME Wizards!Init PROVE WizardsInv OBVIOUS
  <2>1. Wizards!NoBooking \in
          [status : {"none", "pending", "confirmed", "cancelled"}, method : Wizards!Methods]
    BY DEF Wizards!NoBooking, Wizards!Methods
  <2>2. Wizards!Fresh \in TabRecs
    BY DEF Wizards!Fresh, TabRecs, WizardPages, Wizards!Methods
  <2>3. Wizards!TypeOK
    BY <2>1, <2>2 DEF Wizards!Init, Wizards!TypeOK, TabRecs, WizardPages, Wizards!Fresh
  <2>4. \A t \in Hands : Fine(t)
    BY WizardsAssumption
       DEF Wizards!Init, Fine, Requests, FormHad, LedOn, Waits, Wizards!Fresh, Wizards!NoBooking
  <2>5. Reported
    BY DEF Wizards!Init, Reported
  <2>6. PaidFor
    BY DEF Wizards!Init, Wizards!NoBooking, PaidFor, Wizards!PaidIsBooked
  <2> QED BY <2>3, <2>4, <2>5, <2>6 DEF WizardsInv
<1>2. WizardsInv /\ [Wizards!Next]_(Wizards!vars) => WizardsInv'
  <2> SUFFICES ASSUME WizardsInv, [Wizards!Next]_(Wizards!vars) PROVE WizardsInv' OBVIOUS
  <2>1. CASE UNCHANGED Wizards!vars
    BY <2>1
       DEF Wizards!vars, WizardsInv, Wizards!TypeOK, Fine, Requests, FormHad, LedOn, Waits, Over, Reported,
           PaidFor, Declines, Wizards!PaidIsBooked
  <2> QED
    BY <2>1, WizardKeeps, AnswerKeeps, ServedKeeps, GatewayKeeps, PaysKeeps, EndsKeeps, ReadKeeps, WrittenKeeps,
       VenueKeeps DEF Wizards!Next
<1>3. WizardsInv => /\ Wizards!TypeOK /\ Wizards!PaidIsBooked
                    /\ Wizards!ConfirmedIsShown /\ Wizards!OnlineIsPaid
  BY DEF WizardsInv, PaidFor, Fine, LedOn, Wizards!ConfirmedIsShown,
         Wizards!OnlineIsPaid
<1> QED BY <1>1, <1>2, <1>3, PTL DEF Wizards!Spec

-----------------------------------------------------------------------------
(* The tables of the pages and of the API (WebPages, ApiRoutes).  No two tables have a key in common. *)
LEMMA OneEntry ==
  ASSUME NEW tables, NEW t \in tables, NEW k \in DOMAIN t, \A u \in tables : k \in DOMAIN u => u = t
  PROVE  k \in DOMAIN Merged(tables) /\ Merged(tables)[k] = t[k]
<1>1. k \in UNION {DOMAIN u : u \in tables} OBVIOUS
<1>2. (CHOOSE u \in tables : k \in DOMAIN u) = t OBVIOUS
<1> QED BY <1>1, <1>2 DEF Merged

LEMMA SomeEntry ==
  ASSUME NEW tables, NEW k \in DOMAIN Merged(tables)
  PROVE  \E t \in tables : k \in DOMAIN t /\ Merged(tables)[k] = t[k]
<1>1. PICK t \in tables : k \in DOMAIN t BY DEF Merged
<1>2. (CHOOSE u \in tables : k \in DOMAIN u) \in tables /\ k \in DOMAIN (CHOOSE u \in tables : k \in DOMAIN u)
  BY <1>1
<1> QED BY <1>2 DEF Merged

QueryNames ==   {"bookings", "booking", "myBookings", "myBooking", "request", "daily", "revenue",
   "adminStats", "adminCompanies", "adminCompany", "myRequests", "requests", "calendar", "locations",
   "subVenues", "subVenue", "occupancy", "location", "slotDetail", "bank", "slots", "gateways",
   "gatewayConfig", "company", "members", "plans", "subscription", "invoices", "adminPlans", "drivers",
   "domains", "mail", "media", "auditLogs"}
ChangeNames ==   {"createBooking", "bookOnline", "cancelBooking", "cancelMine", "checkIn", "markPaid",
   "uploadSlip", "uploadMySlip", "verifySlip", "lockSlot", "unlockSlot", "generateSlots",
   "createRequest", "submitRequest", "rejectRequest", "withdraw", "approveRequest", "cancelRequest",
   "createLocation", "updateLocation", "closeLocation", "saveHours", "saveHoliday", "createSubVenue",
   "updateSubVenue", "deleteSubVenue", "savePrice", "deletePrice", "inviteMember", "updateMember",
   "removeMember", "saveBranding", "uploadLogo", "saveBank", "upgrade", "cancelPlan", "saveGateway",
   "addDomain", "verifyDomain", "removeDomain", "mailPlatform", "mailSubdomain", "mailOwn",
   "verifyMail", "changeMedia", "setSubscription", "saveCompanyBank", "savePlan", "saveDriver",
   "adminMarkPaid"}

(* Who reads what. *)
LEMMA Readers ==
  ASSUME NEW q \in Queries
  PROVE
    /\ q \in QueryNames
    /\ "bookings" \in Reads[q] => q \in {"bookings", "booking", "myBookings", "myBooking", "request",
          "daily", "revenue", "adminStats", "adminCompanies", "adminCompany"}
    /\ "slips" \in Reads[q] => q \in {"booking", "myBooking"}
    /\ "courts" \in Reads[q] => q \in {"bookings", "booking", "myBookings", "myBooking", "myRequests",
          "requests", "request", "calendar", "locations", "subVenues", "subVenue", "daily", "revenue",
          "occupancy", "adminCompany"}
    /\ "places" \in Reads[q] => q \in {"bookings", "booking", "myBookings", "myBooking", "myRequests",
          "requests", "request", "locations", "location", "revenue", "adminStats", "adminCompanies",
          "adminCompany"}
    /\ "bank" \in Reads[q] => q \in {"booking", "myBooking", "slotDetail", "bank", "adminCompany"}
    /\ "requests" \in Reads[q] => q \in {"myRequests", "requests", "request"}
    /\ "slots" \in Reads[q] => q \in {"request", "slots", "calendar", "slotDetail", "daily", "occupancy"}
    /\ "gateways" \in Reads[q] => q \in {"slotDetail", "gateways", "gatewayConfig"}
    /\ "hours" \in Reads[q] => q \in {"location"}
    /\ "prices" \in Reads[q] => q \in {"subVenues", "subVenue"}
    /\ "company" \in Reads[q] => q \in {"company", "adminCompany"}
    /\ "members" \in Reads[q] => q \in {"members", "adminCompany"}
    /\ "plans" \in Reads[q] => q \in {"plans", "subscription", "invoices", "adminPlans"}
    /\ "subscription" \in Reads[q] => q \in {"subscription", "adminStats", "adminCompanies",
          "adminCompany"}
    /\ "invoices" \in Reads[q] => q \in {"invoices", "adminCompany"}
    /\ "drivers" \in Reads[q] => q \in {"gateways", "drivers"}
    /\ "domains" \in Reads[q] => q \in {"domains"}
    /\ "mail" \in Reads[q] => q \in {"mail"}
    /\ "media" \in Reads[q] => q \in {"media"}
    /\ "audit" \in Reads[q] => q \in {"auditLogs"}
<1>1. PICK t \in {BookingReads, MyReads, RequestReads, SlotReads, PlaceReads, CourtReads, CompanyReads,
            BankReads, MemberReads, BillingReads, GatewayReads, DomainReads, MailReads, MediaReads,
            DailyReads, RevenueReads, OccupancyReads, AdminStatsReads, AdminCompaniesReads,
            AdminCompanyReads, AdminPlansReads, AuditReads, DriverReads} :
        q \in DOMAIN t /\ Reads[q] = t[q]
  BY SomeEntry DEF Queries, Reads
<1> USE <1>1 DEF QueryNames
<1>2. CASE t = BookingReads BY <1>2 DEF BookingReads
<1>3. CASE t = MyReads BY <1>3 DEF MyReads
<1>4. CASE t = RequestReads BY <1>4 DEF RequestReads
<1>5. CASE t = SlotReads BY <1>5 DEF SlotReads
<1>6. CASE t = PlaceReads BY <1>6 DEF PlaceReads
<1>7. CASE t = CourtReads BY <1>7 DEF CourtReads
<1>8. CASE t = CompanyReads BY <1>8 DEF CompanyReads
<1>9. CASE t = BankReads BY <1>9 DEF BankReads
<1>10. CASE t = MemberReads BY <1>10 DEF MemberReads
<1>11. CASE t = BillingReads BY <1>11 DEF BillingReads
<1>12. CASE t = GatewayReads BY <1>12 DEF GatewayReads
<1>13. CASE t = DomainReads BY <1>13 DEF DomainReads
<1>14. CASE t = MailReads BY <1>14 DEF MailReads
<1>15. CASE t = MediaReads BY <1>15 DEF MediaReads
<1>16. CASE t = DailyReads BY <1>16 DEF DailyReads
<1>17. CASE t = RevenueReads BY <1>17 DEF RevenueReads
<1>18. CASE t = OccupancyReads BY <1>18 DEF OccupancyReads
<1>19. CASE t = AdminStatsReads BY <1>19 DEF AdminStatsReads
<1>20. CASE t = AdminCompaniesReads BY <1>20 DEF AdminCompaniesReads
<1>21. CASE t = AdminCompanyReads BY <1>21 DEF AdminCompanyReads
<1>22. CASE t = AdminPlansReads BY <1>22 DEF AdminPlansReads
<1>23. CASE t = AuditReads BY <1>23 DEF AuditReads
<1>24. CASE t = DriverReads BY <1>24 DEF DriverReads
<1> QED BY <1>1, <1>2, <1>3, <1>4, <1>5, <1>6, <1>7, <1>8, <1>9, <1>10, <1>11, <1>12, <1>13, <1>14,
           <1>15, <1>16, <1>17, <1>18, <1>19, <1>20, <1>21, <1>22, <1>23, <1>24

(* Who writes what. *)
LEMMA Writers ==
  ASSUME NEW o \in DOMAIN Writes
  PROVE
    /\ o \in ChangeNames
    /\ o \in {"createBooking", "bookOnline", "cancelBooking", "cancelMine"} => Writes[o] = {"bookings", "slots"}
    /\ o \in {"checkIn", "markPaid"} => Writes[o] = {"bookings"}
    /\ o \in {"uploadSlip", "uploadMySlip"} => Writes[o] = {"slips"}
    /\ o \in {"verifySlip"} => Writes[o] = {"bookings", "slips", "slots"}
    /\ o \in {"lockSlot", "unlockSlot", "generateSlots"} => Writes[o] = {"slots"}
    /\ o \in {"createRequest", "submitRequest", "rejectRequest", "withdraw"} => Writes[o] = {"requests"}
    /\ o \in {"approveRequest", "cancelRequest"} => Writes[o] = {"requests", "bookings", "slots"}
    /\ o \in {"createLocation", "updateLocation", "closeLocation"} => Writes[o] = {"places"}
    /\ o \in {"saveHours", "saveHoliday"} => Writes[o] = {"hours"}
    /\ o \in {"createSubVenue", "updateSubVenue", "deleteSubVenue"} => Writes[o] = {"courts"}
    /\ o \in {"savePrice", "deletePrice"} => Writes[o] = {"prices"}
    /\ o \in {"inviteMember", "updateMember", "removeMember"} => Writes[o] = {"members"}
    /\ o \in {"saveBranding", "uploadLogo"} => Writes[o] = {"company"}
    /\ o \in {"saveBank"} => Writes[o] = {"bank"}
    /\ o \in {"upgrade", "cancelPlan"} => Writes[o] = {"subscription", "invoices"}
    /\ o \in {"saveGateway"} => Writes[o] = {"gateways"}
    /\ o \in {"addDomain", "verifyDomain", "removeDomain"} => Writes[o] = {"domains"}
    /\ o \in {"mailPlatform", "mailSubdomain", "mailOwn", "verifyMail"} => Writes[o] = {"mail"}
    /\ o \in {"changeMedia"} => Writes[o] = {"media"}
    /\ o \in {"setSubscription"} => Writes[o] = {"subscription", "audit"}
    /\ o \in {"saveCompanyBank"} => Writes[o] = {"bank", "audit"}
    /\ o \in {"savePlan"} => Writes[o] = {"plans", "audit"}
    /\ o \in {"saveDriver"} => Writes[o] = {"drivers", "audit"}
    /\ o \in {"adminMarkPaid"} => Writes[o] = {"invoices", "subscription", "audit"}
<1>1. PICK t \in {BookingWrites, SlipWrites, LockWrites, SlotWrites, RequestWrites, ApproveWrites,
            EndWrites, PlaceWrites, CourtWrites, PriceWrites, MemberWrites, CompanyWrites, LogoWrites,
            BankWrites, PlanWrites, GatewayWrites, DomainWrites, MailWrites, MediaWrites, AdminWrites,
            AdminBankWrites, AdminPlanWrites, AdminDriverWrites, AdminInvoiceWrites} :
        o \in DOMAIN t /\ Writes[o] = t[o]
  BY SomeEntry DEF Writes
<1> USE <1>1 DEF ChangeNames, Changes
<1>2. CASE t = BookingWrites
  BY <1>2, SomeEntry DEF BookingWrites
<1>3. CASE t = SlipWrites
  BY <1>3, SomeEntry DEF SlipWrites
<1>4. CASE t = LockWrites BY <1>4 DEF LockWrites
<1>5. CASE t = SlotWrites BY <1>5 DEF SlotWrites
<1>6. CASE t = RequestWrites BY <1>6 DEF RequestWrites
<1>7. CASE t = ApproveWrites BY <1>7 DEF ApproveWrites
<1>8. CASE t = EndWrites BY <1>8 DEF EndWrites
<1>9. CASE t = PlaceWrites
  BY <1>9, SomeEntry DEF PlaceWrites
<1>10. CASE t = CourtWrites BY <1>10 DEF CourtWrites
<1>11. CASE t = PriceWrites BY <1>11 DEF PriceWrites
<1>12. CASE t = MemberWrites BY <1>12 DEF MemberWrites
<1>13. CASE t = CompanyWrites BY <1>13 DEF CompanyWrites
<1>14. CASE t = LogoWrites BY <1>14 DEF LogoWrites
<1>15. CASE t = BankWrites BY <1>15 DEF BankWrites
<1>16. CASE t = PlanWrites BY <1>16 DEF PlanWrites
<1>17. CASE t = GatewayWrites BY <1>17 DEF GatewayWrites
<1>18. CASE t = DomainWrites BY <1>18 DEF DomainWrites
<1>19. CASE t = MailWrites BY <1>19 DEF MailWrites
<1>20. CASE t = MediaWrites BY <1>20 DEF MediaWrites
<1>21. CASE t = AdminWrites BY <1>21 DEF AdminWrites
<1>22. CASE t = AdminBankWrites BY <1>22 DEF AdminBankWrites
<1>23. CASE t = AdminPlanWrites BY <1>23 DEF AdminPlanWrites
<1>24. CASE t = AdminDriverWrites BY <1>24 DEF AdminDriverWrites
<1>25. CASE t = AdminInvoiceWrites BY <1>25 DEF AdminInvoiceWrites
<1> QED BY <1>1, <1>2, <1>3, <1>4, <1>5, <1>6, <1>7, <1>8, <1>9, <1>10, <1>11, <1>12, <1>13, <1>14,
           <1>15, <1>16, <1>17, <1>18, <1>19, <1>20, <1>21, <1>22, <1>23, <1>24, <1>25

\* The queries that the pages of an area show.
StaffShows ==
  {"subscription", "locations", "bookings", "subVenues", "slots", "slotDetail", "booking",
   "requests", "request", "calendar", "location", "subVenue", "daily", "revenue", "occupancy",
   "company", "members", "plans", "invoices", "gateways", "bank", "gatewayConfig", "media", "domains",
   "mail"}
PlayerShows == {"slots", "myRequests", "myBookings", "myBooking"}
AdminShows == {"adminStats", "adminCompanies", "adminCompany", "adminPlans", "drivers", "auditLogs"}

(* How the pages are put together.  A part is whole in an area that shows Q: it shows nothing else, and a
   change that it offers refreshes what it changes of Q, or is listed as one that does not. *)
Shaped(part)     == \A i \in part : i = [op |-> i.op, by |-> i.by, tier |-> i.tier, refresh |-> i.refresh]
Kept(ops, r, Q)  ==
  \A o \in ops : /\ o \in Queries => o \in Q
                 /\ \A q \in Q \cap Queries : Affects(o, q) => q \in r \/ <<o, q>> \in Overlooked
Whole(part, Q)   == Shaped(part) /\ \A i \in part : Kept({i.op}, i.refresh, Q)

LEMMA WholeParts ==
  ASSUME NEW Q
  PROVE  /\ \A ops, r : Kept(ops, r, Q) => Whole(Does(ops, r), Q)
         /\ \A ops : Kept(ops, {}, Q) => Whole(Shows(ops), Q)
         /\ \A A, B : Whole(A, Q) /\ Whole(B, Q) => Whole(A \cup B, Q)
         /\ \A p, part : Whole(part, Q) => Whole(For(p, part), Q)
         /\ \A t, part : Whole(part, Q) => Whole(From(t, part), Q)
<1>1. \A ops, r : Kept(ops, r, Q) => Whole(Does(ops, r), Q)
  BY DEF Shaped, Whole, Kept, Does
<1>2. \A ops : Kept(ops, {}, Q) => Whole(Shows(ops), Q)
  BY DEF Shaped, Whole, Kept, Shows
<1>3. \A A, B : Whole(A, Q) /\ Whole(B, Q) => Whole(A \cup B, Q)
  BY DEF Shaped, Whole
<1>4. \A p, part : Whole(part, Q) => Whole(For(p, part), Q)
  BY DEF Shaped, Whole, For
<1>5. \A t, part : Whole(part, Q) => Whole(From(t, part), Q)
  BY DEF Shaped, Whole, From
<1> QED BY <1>1, <1>2, <1>3, <1>4, <1>5

(* What changes nothing is kept, and so is what shows one of the queries. *)
LEMMA ShowsKept ==
  ASSUME NEW Q, NEW ops, ops \cap ChangeNames = {}, ops \cap QueryNames \subseteq Q, NEW r
  PROVE  Kept(ops, r, Q)
BY Readers, Writers DEF Kept, Affects

(* What the staff changes. *)
LEMMA StaffChangesKept ==
  /\ Kept({"lockSlot", "createBooking"}, {}, StaffShows)
  /\ Kept({"unlockSlot"}, {"slots"}, StaffShows)
  /\ Kept({"checkIn", "markPaid"}, BookingKeys, StaffShows)
  /\ Kept({"verifySlip"}, BookingKeys, StaffShows)
  /\ Kept({"cancelBooking"}, BookingKeys, StaffShows)
  /\ Kept({"uploadSlip"}, BookingKeys, StaffShows)
  /\ Kept({"createRequest"}, CreateRefreshes, StaffShows)
  /\ Kept({"approveRequest", "rejectRequest"}, ReviewRefreshes, StaffShows)
  /\ Kept({"cancelRequest"}, ReviewRefreshes, StaffShows)
  /\ Kept({"createLocation"}, PlaceKeys, StaffShows)
  /\ Kept({"updateLocation"}, PlaceKeys, StaffShows)
  /\ Kept({"closeLocation", "updateLocation"}, PlaceKeys, StaffShows)
  /\ Kept({"saveHours"}, {"location"}, StaffShows)
  /\ Kept({"saveHoliday"}, {"location"}, StaffShows)
  /\ Kept({"createSubVenue"}, CourtKeys, StaffShows)
  /\ Kept({"updateSubVenue", "deleteSubVenue"}, CourtKeys, StaffShows)
  /\ Kept({"savePrice"}, {"subVenue"}, StaffShows)
  /\ Kept({"deletePrice"}, {"subVenue"}, StaffShows)
  /\ Kept({"generateSlots"}, {"calendar"}, StaffShows)
  /\ Kept({"saveBranding"}, {"company"}, StaffShows)
  /\ Kept({"uploadLogo"}, {}, StaffShows)
  /\ Kept({"inviteMember", "removeMember"}, {"members"}, StaffShows)
  /\ Kept({"updateMember"}, {"members"}, StaffShows)
  /\ Kept({"upgrade", "cancelPlan"}, BillingKeys, StaffShows)
  /\ Kept({"saveBank"}, {"bank"}, StaffShows)
  /\ Kept({"saveGateway"}, {"gatewayConfig", "gateways"}, StaffShows)
  /\ Kept({"changeMedia"}, {"media"}, StaffShows)
  /\ Kept({"addDomain", "verifyDomain", "removeDomain"}, {"domains"}, StaffShows)
  /\ Kept({"mailPlatform", "verifyMail"}, {"mail"}, StaffShows)
  /\ Kept({"mailSubdomain"}, {"mail"}, StaffShows)
  /\ Kept({"mailOwn"}, {"mail"}, StaffShows)
<1> USE Readers, Writers
        DEF Kept, Affects, StaffShows, ChangeNames, QueryNames, Overlooked, Diary, Titled, BookingKeys,
            RequestKeys, PlaceKeys, CourtKeys, BillingKeys, MyKeys, CompanyKeys, CreateRefreshes,
            ReviewRefreshes
<1>1. Kept({"lockSlot", "createBooking"}, {}, StaffShows) OBVIOUS
<1>2. Kept({"unlockSlot"}, {"slots"}, StaffShows) OBVIOUS
<1>3. Kept({"checkIn", "markPaid"}, BookingKeys, StaffShows) OBVIOUS
<1>4. Kept({"verifySlip"}, BookingKeys, StaffShows) OBVIOUS
<1>5. Kept({"cancelBooking"}, BookingKeys, StaffShows) OBVIOUS
<1>6. Kept({"uploadSlip"}, BookingKeys, StaffShows) OBVIOUS
<1>7. Kept({"createRequest"}, CreateRefreshes, StaffShows) OBVIOUS
<1>8. Kept({"approveRequest", "rejectRequest"}, ReviewRefreshes, StaffShows) OBVIOUS
<1>9. Kept({"cancelRequest"}, ReviewRefreshes, StaffShows) OBVIOUS
<1>10. Kept({"createLocation"}, PlaceKeys, StaffShows) OBVIOUS
<1>11. Kept({"updateLocation"}, PlaceKeys, StaffShows) OBVIOUS
<1>12. Kept({"closeLocation", "updateLocation"}, PlaceKeys, StaffShows) OBVIOUS
<1>13. Kept({"saveHours"}, {"location"}, StaffShows) OBVIOUS
<1>14. Kept({"saveHoliday"}, {"location"}, StaffShows) OBVIOUS
<1>15. Kept({"createSubVenue"}, CourtKeys, StaffShows) OBVIOUS
<1>16. Kept({"updateSubVenue", "deleteSubVenue"}, CourtKeys, StaffShows) OBVIOUS
<1>17. Kept({"savePrice"}, {"subVenue"}, StaffShows) OBVIOUS
<1>18. Kept({"deletePrice"}, {"subVenue"}, StaffShows) OBVIOUS
<1>19. Kept({"generateSlots"}, {"calendar"}, StaffShows) OBVIOUS
<1>20. Kept({"saveBranding"}, {"company"}, StaffShows) OBVIOUS
<1>21. Kept({"uploadLogo"}, {}, StaffShows) OBVIOUS
<1>22. Kept({"inviteMember", "removeMember"}, {"members"}, StaffShows) OBVIOUS
<1>23. Kept({"updateMember"}, {"members"}, StaffShows) OBVIOUS
<1>24. Kept({"upgrade", "cancelPlan"}, BillingKeys, StaffShows) OBVIOUS
<1>25. Kept({"saveBank"}, {"bank"}, StaffShows) OBVIOUS
<1>26. Kept({"saveGateway"}, {"gatewayConfig", "gateways"}, StaffShows) OBVIOUS
<1>27. Kept({"changeMedia"}, {"media"}, StaffShows) OBVIOUS
<1>28. Kept({"addDomain", "verifyDomain", "removeDomain"}, {"domains"}, StaffShows) OBVIOUS
<1>29. Kept({"mailPlatform", "verifyMail"}, {"mail"}, StaffShows) OBVIOUS
<1>30. Kept({"mailSubdomain"}, {"mail"}, StaffShows) OBVIOUS
<1>31. Kept({"mailOwn"}, {"mail"}, StaffShows) OBVIOUS
<1> QED BY <1>1, <1>2, <1>3, <1>4, <1>5, <1>6, <1>7, <1>8, <1>9, <1>10, <1>11, <1>12, <1>13, <1>14,
           <1>15, <1>16, <1>17, <1>18, <1>19, <1>20, <1>21, <1>22, <1>23, <1>24, <1>25, <1>26, <1>27,
           <1>28, <1>29, <1>30, <1>31

(* What a player changes. *)
LEMMA PlayerChangesKept ==
  /\ Kept({"submitRequest"}, {"myRequests"}, PlayerShows)
  /\ Kept({"lockSlot", "bookOnline"}, {}, PlayerShows)
  /\ Kept({"withdraw"}, {"myRequests"}, PlayerShows)
  /\ Kept({"cancelMine"}, MyKeys, PlayerShows)
  /\ Kept({"uploadMySlip"}, {"myBooking"}, PlayerShows)
<1> USE Readers, Writers
        DEF Kept, Affects, PlayerShows, ChangeNames, QueryNames, Overlooked, Diary, Titled, BookingKeys,
            RequestKeys, PlaceKeys, CourtKeys, BillingKeys, MyKeys, CompanyKeys, CreateRefreshes,
            ReviewRefreshes
<1>1. Kept({"submitRequest"}, {"myRequests"}, PlayerShows) OBVIOUS
<1>2. Kept({"lockSlot", "bookOnline"}, {}, PlayerShows) OBVIOUS
<1>3. Kept({"withdraw"}, {"myRequests"}, PlayerShows) OBVIOUS
<1>4. Kept({"cancelMine"}, MyKeys, PlayerShows) OBVIOUS
<1>5. Kept({"uploadMySlip"}, {"myBooking"}, PlayerShows) OBVIOUS
<1> QED BY <1>1, <1>2, <1>3, <1>4, <1>5

(* What an administrator changes. *)
LEMMA AdminChangesKept ==
  /\ Kept({"setSubscription"}, CompanyKeys, AdminShows)
  /\ Kept({"adminMarkPaid"}, {"adminCompany"}, AdminShows)
  /\ Kept({"saveCompanyBank"}, CompanyKeys, AdminShows)
  /\ Kept({"savePlan"}, {"adminPlans"}, AdminShows)
  /\ Kept({"saveDriver"}, {"drivers"}, AdminShows)
<1> USE Readers, Writers
        DEF Kept, Affects, AdminShows, ChangeNames, QueryNames, Overlooked, Diary, Titled, BookingKeys,
            RequestKeys, PlaceKeys, CourtKeys, BillingKeys, MyKeys, CompanyKeys, CreateRefreshes,
            ReviewRefreshes
<1>1. Kept({"setSubscription"}, CompanyKeys, AdminShows) OBVIOUS
<1>2. Kept({"adminMarkPaid"}, {"adminCompany"}, AdminShows) OBVIOUS
<1>3. Kept({"saveCompanyBank"}, CompanyKeys, AdminShows) OBVIOUS
<1>4. Kept({"savePlan"}, {"adminPlans"}, AdminShows) OBVIOUS
<1>5. Kept({"saveDriver"}, {"drivers"}, AdminShows) OBVIOUS
<1> QED BY <1>1, <1>2, <1>3, <1>4, <1>5

LEMMA StaffShowsKept ==
  /\ Kept({"subscription"}, {}, StaffShows) /\ Kept({"locations", "bookings"}, {}, StaffShows)
  /\ Kept({"locations", "subVenues", "slots", "slotDetail"}, {}, StaffShows)
  /\ Kept({"booking"}, {}, StaffShows) /\ Kept({"locations", "requests"}, {}, StaffShows)
  /\ Kept({"locations", "subVenues"}, {}, StaffShows) /\ Kept({"request"}, {}, StaffShows)
  /\ Kept({"calendar"}, {}, StaffShows) /\ Kept({"locations"}, {}, StaffShows)
  /\ Kept({"location"}, {}, StaffShows) /\ Kept({"subVenues"}, {}, StaffShows)
  /\ Kept({"subVenue"}, {}, StaffShows) /\ Kept({"daily"}, {}, StaffShows)
  /\ Kept({"revenue"}, {}, StaffShows) /\ Kept({"occupancy"}, {}, StaffShows)
  /\ Kept({"company"}, {}, StaffShows) /\ Kept({"members", "locations"}, {}, StaffShows)
  /\ Kept({"gateways"}, {}, StaffShows) /\ Kept({"bank"}, {}, StaffShows)
  /\ Kept({"gatewayConfig"}, {}, StaffShows) /\ Kept({"media"}, {}, StaffShows)
  /\ Kept({"domains"}, {}, StaffShows) /\ Kept({"mail"}, {}, StaffShows)
  /\ Kept(BillingKeys, {}, StaffShows) /\ Kept({"initiate"}, {}, StaffShows)
  /\ Kept({"export"}, {}, StaffShows) /\ Kept({"testMail"}, {}, StaffShows)
BY ShowsKept DEF StaffShows, ChangeNames, QueryNames, BillingKeys

LEMMA MenuWhole ==
  ASSUME NEW s \in DOMAIN Menu
  PROVE  Whole(Menu[s], StaffShows)
<1> USE WholeParts, StaffShowsKept, StaffChangesKept DEF Menu
<1>1. CASE s = "overview" BY <1>1 DEF OverviewPage
<1>2. CASE s = "locations" BY <1>2 DEF LocationsPage
<1>3. CASE s = "bookings" BY <1>3 DEF BookingsPage
<1>4. CASE s = "requests" BY <1>4 DEF RequestsPage
<1>5. CASE s = "reports" BY <1>5 DEF ReportsPage, LocationSelect, DailyTab, RevenueTab, OccupancyTab
<1>6. CASE s = "slots" BY <1>6 DEF SlotsPage
<1>7. CASE s = "staff" BY <1>7 DEF StaffPage, EditMemberDialog
<1>8. CASE s = "payments" BY <1>8 DEF PaymentsPage, BankCard, GatewayForm
<1>9. CASE s = "media" BY <1>9 DEF MediaPage, MediaActions
<1>10. CASE s = "mail" BY <1>10 DEF MailPage, MailForm
<1>11. CASE s = "domains" BY <1>11 DEF DomainsPage, DomainsCard
<1>12. CASE s = "billing" BY <1>12 DEF BillingPage
<1>13. CASE s = "branding" BY <1>13 DEF BrandingPage
<1> QED BY <1>1, <1>2, <1>3, <1>4, <1>5, <1>6, <1>7, <1>8, <1>9, <1>10, <1>11, <1>12, <1>13

LEMMA LinkedWhole ==
  ASSUME NEW s \in DOMAIN Linked
  PROVE  Whole(Linked[s], StaffShows)
<1> USE WholeParts, StaffShowsKept, StaffChangesKept DEF Linked
<1>1. CASE s = "newBooking" BY <1>1 DEF NewBookingPage
<1>2. CASE s = "booking" BY <1>2 DEF BookingPage, BookingActions
<1>3. CASE s = "newRequest" BY <1>3 DEF NewRequestPage
<1>4. CASE s = "request" BY <1>4 DEF RequestPage
<1>5. CASE s = "newLocation" BY <1>5 DEF NewLocationPage
<1>6. CASE s = "location" BY <1>6 DEF LocationPage, LocationTab, HoursTab, HolidaysTab, CourtsTab
<1>7. CASE s = "newCourt" BY <1>7 DEF NewCourtPage
<1>8. CASE s = "court" BY <1>8 DEF CourtPage, CourtTab, PriceForm, PricingTab, GenerateTab
<1> QED BY <1>1, <1>2, <1>3, <1>4, <1>5, <1>6, <1>7, <1>8

LEMMA StaffWhole ==
  ASSUME NEW s \in DOMAIN Staff
  PROVE  Whole(Staff[s], StaffShows)
<1> DEFINE both  == {Menu, Linked}
           pages == Merged(both)
<1>1. Staff = [k \in DOMAIN pages |-> Banner \cup pages[k]]
  BY DEF Staff
<1>2. s \in DOMAIN pages /\ Staff[s] = Banner \cup pages[s]
  BY <1>1
<1>3. PICK t \in both : s \in DOMAIN t /\ pages[s] = t[s]
  BY <1>2, SomeEntry
<1>4. Whole(pages[s], StaffShows)
  BY <1>3, MenuWhole, LinkedWhole
<1>5. Whole(Banner, StaffShows)
  BY StaffShowsKept, WholeParts DEF Banner
<1> HIDE DEF pages
<1> QED BY <1>2, <1>4, <1>5, WholeParts

LEMMA PlayerWhole ==
  ASSUME NEW s \in DOMAIN Player
  PROVE  Whole(Player[s], PlayerShows)
<1>0. /\ Kept({"slots"}, {}, PlayerShows) /\ Kept({"myRequests"}, {}, PlayerShows)
      /\ Kept({"myBookings"}, {}, PlayerShows) /\ Kept({"myBooking"}, {}, PlayerShows)
  BY ShowsKept DEF PlayerShows, ChangeNames, QueryNames
<1> USE <1>0, WholeParts, PlayerChangesKept DEF Player
<1>1. CASE s = "venue" BY <1>1 DEF Availability, PermanentCard
<1>2. CASE s = "wizard" BY <1>2 DEF Wizard
<1>3. CASE s = "myBookings" BY <1>3 DEF MyBookingsPage, MySlots
<1>4. CASE s = "myBooking" BY <1>4 DEF MyBookingPage, SlipForm
<1>5. CASE s = "confirmation" BY <1>5 DEF Confirmation, SlipForm
<1>6. CASE s = "cancelled" BY <1>6 DEF CancelledPage
<1> QED BY <1>1, <1>2, <1>3, <1>4, <1>5, <1>6

LEMMA AdminWhole ==
  ASSUME NEW s \in DOMAIN Admin
  PROVE  Whole(Admin[s], AdminShows)
<1>0. /\ Kept({"adminStats"}, {}, AdminShows) /\ Kept({"adminCompanies"}, {}, AdminShows)
      /\ Kept({"adminCompany", "adminPlans"}, {}, AdminShows) /\ Kept({"adminPlans"}, {}, AdminShows)
      /\ Kept({"drivers"}, {}, AdminShows) /\ Kept({"auditLogs"}, {}, AdminShows)
  BY ShowsKept DEF AdminShows, ChangeNames, QueryNames
<1> USE <1>0, WholeParts, AdminChangesKept DEF Admin
<1>1. CASE s = "stats" BY <1>1 DEF StatsPage
<1>2. CASE s = "companies" BY <1>2 DEF CompaniesPage
<1>3. CASE s = "company" BY <1>3 DEF CompanyPage, CompanyForms, CompanyBank
<1>4. CASE s = "plans" BY <1>4 DEF PlansPage
<1>5. CASE s = "drivers" BY <1>5 DEF DriversPage
<1>6. CASE s = "audit" BY <1>6 DEF AuditPage
<1> QED BY <1>1, <1>2, <1>3, <1>4, <1>5, <1>6

(* Every change that a page offers refreshes the queries it changes of those that its area shows, or is
   listed as one that does not (Overlooked). *)
ChangesRefresh ==
  \A a \in DOMAIN Areas, q \in Queries :
    (\E s \in DOMAIN Walks[a][q] : Showing(Walks[a][q][s], q)) =>
      \A s \in DOMAIN Walks[a][q] : \A i \in Walks[a][q][s] :
        i.op # q => q \in i.refresh \/ <<i.op, q>> \in Overlooked

LEMMA PagesRefresh == ChangesRefresh
<1>1. ASSUME NEW a \in DOMAIN Areas
      PROVE  \E Q : \A s \in DOMAIN Areas[a] : Whole(Areas[a][s], Q)
  BY StaffWhole, PlayerWhole, AdminWhole DEF Areas
<1> SUFFICES ASSUME NEW a \in DOMAIN Areas, NEW q \in Queries,
                    NEW t \in DOMAIN Walks[a][q], Showing(Walks[a][q][t], q),
                    NEW s \in DOMAIN Walks[a][q], NEW i \in Walks[a][q][s], i.op # q
             PROVE  q \in i.refresh \/ <<i.op, q>> \in Overlooked
  BY DEF ChangesRefresh
<1>2. Walks[a][q] = PagesOf(a, q)
  BY DEF Walks
<1>3. \A p \in DOMAIN Walks[a][q] : \A j \in Walks[a][q][p] :
        p \in DOMAIN Areas[a] /\ j \in Areas[a][p] /\ (j.op = q \/ Affects(j.op, q))
  BY <1>2 DEF PagesOf
<1>4. PICK Q : \A p \in DOMAIN Areas[a] : Whole(Areas[a][p], Q)
  BY <1>1
<1>5. q \in Q
  <2>1. PICK j \in Walks[a][q][t] : j.op = q
    BY DEF Showing
  <2> QED BY <1>3, <1>4, <2>1 DEF Whole, Kept
<1>6. Kept({i.op}, i.refresh, Q) /\ Affects(i.op, q)
  BY <1>3, <1>4 DEF Whole
<1> QED BY <1>5, <1>6 DEF Kept

-----------------------------------------------------------------------------
(* The browser: one entry of the query cache, and the walk through the pages of an area. *)

Offers  == UNION {Walk[s] : s \in DOMAIN Walk}
Entries == [data : Nat \cup {Nothing}, stale : BOOLEAN]
Fetches == [pc : {"none", "asked", "answered"}, got : Nat \cup {Nothing}]
Changing == [pc : {"none", "asked", "orphan", "done"}, item : Offers \cup {Nothing}]

(* The type invariant is not inductive without the shape of the records, the room that the change
   under way has below the bound, and what it changes. *)
BrowserTypes ==
  /\ TypeOK
  /\ entry \in Entries /\ fetch \in Fetches /\ call \in Changing
  /\ call.pc = "none" => call = NoCall
  /\ call.pc \in {"asked", "orphan"} => truth < MaxChanges
  /\ call.pc # "none" => call.item \in Offers /\ call.item.op # watched

(* Unless it is excused, or a change has been made that the page has not settled yet: an answer that
   has not landed is the truth, what is kept is the truth or known to be old, and what is shown while
   nothing is fetched is the truth. *)
UpToDate ==
  ~excused /\ call.pc # "done" =>
    /\ fetch.pc = "answered" => fetch.got = truth
    /\ entry.data \in {truth, Nothing} \/ entry.stale
    /\ Shown /\ fetch = NoFetch => entry.data = truth

SomewhereShown == \E s \in DOMAIN Walk : Showing(Walk[s], watched)

BrowserInv == BrowserTypes /\ SomewhereShown /\ UpToDate

LEMMA WalkPages ==
  ASSUME watched \in Queries, area \in DOMAIN Areas
  PROVE  /\ "elsewhere" \in DOMAIN Walk
         /\ \A i \in Offers : i.op = watched \/ Affects(i.op, watched)
<1>1. Walk = PagesOf(area, watched)
  BY DEF Walk, Walks
<1> QED BY <1>1 DEF PagesOf, Offers

LEMMA BrowserStarts ==
  ASSUME Init PROVE BrowserInv
<1>1. "elsewhere" \in DOMAIN Walk
  BY WalkPages DEF Init
<1>2. TypeOK
  <2>1. watched \in Queries /\ area \in DOMAIN Areas /\ screen = "elsewhere" /\ truth = 0 /\ excused = FALSE
    BY DEF Init
  <2>2. entry.data = Nothing /\ entry.stale = FALSE /\ fetch.pc = "none" /\ fetch.got = Nothing
          /\ call.pc = "none"
    BY DEF Init, Empty, NoFetch, NoCall
  <2>3. truth \in 0 .. MaxChanges
    BY <2>1, BrowserAssumption
  <2> QED BY <1>1, <2>1, <2>2, <2>3 DEF TypeOK
<1>3. entry \in Entries /\ fetch \in Fetches /\ call \in Changing /\ call = NoCall
  BY DEF Init, Empty, NoFetch, NoCall, Entries, Fetches, Changing
<1>4. BrowserTypes
  BY <1>2, <1>3 DEF BrowserTypes, NoCall
<1>5. ~Shown
  BY DEF Init, Shown, Page, Walk, Walks, PagesOf, Showing
<1>6. UpToDate
  BY <1>5 DEF Init, UpToDate, Empty, NoFetch
<1> QED BY <1>4, <1>6 DEF BrowserInv, SomewhereShown, Init

(* Every step walks through the same pages. *)
LEMMA SamePages ==
  ASSUME [Next]_vars
  PROVE  UNCHANGED <<watched, area, Walk, Offers, Changing>>
<1>1. UNCHANGED <<watched, area>>
  BY DEF Next, vars, Open, Ages, Poll, Answer, Land, FetchFails, Collect, Reload, Click, Apply, Refuse, Lost,
         Settle
<1>2. UNCHANGED Walk
  BY <1>1 DEF Walk
<1> QED BY <1>1, <1>2 DEF Offers, Changing

(* Steps of the cache: none touches the change under way, or the truth. *)
LEMMA CacheTypes ==
  ASSUME BrowserTypes, [Next]_vars,
         \/ \E s \in DOMAIN Walk : Open(s)
         \/ Ages \/ Poll \/ Answer \/ Land \/ FetchFails \/ Collect \/ Reload
  PROVE  BrowserTypes'
<1> USE DEF BrowserTypes
<1>1. UNCHANGED <<watched, area, Walk, Offers, Changing>>
  BY SamePages
<1>2. UNCHANGED <<truth, call>>
  BY DEF Open, Ages, Poll, Answer, Land, FetchFails, Collect, Reload
<1>3. /\ screen' \in DOMAIN Walk /\ excused' \in BOOLEAN
      /\ entry' \in Entries /\ entry'.data \in 0 .. truth \cup {Nothing}
      /\ fetch' \in Fetches /\ fetch'.got \in 0 .. truth \cup {Nothing}
      /\ (fetch'.pc = "answered") = (fetch'.got # Nothing)
  <2> USE BrowserAssumption DEF TypeOK, Entries, Fetches, NoFetch, Asked, Empty
  <2>1. CASE \E s \in DOMAIN Walk : Open(s)
    BY <2>1 DEF Open
  <2>2. CASE Ages
    BY <2>2 DEF Ages
  <2>3. CASE Poll
    BY <2>3 DEF Poll
  <2>4. CASE Answer
    <3>1. truth \in 0 .. truth /\ truth # Nothing /\ truth \in Nat
      OBVIOUS
    <3> QED BY <2>4, <3>1 DEF Answer
  <2>5. CASE Land
    BY <2>5 DEF Land
  <2>6. CASE FetchFails
    BY <2>6 DEF FetchFails
  <2>7. CASE Collect
    BY <2>7 DEF Collect
  <2>8. CASE Reload
    BY <2>8 DEF Reload
  <2> QED BY <2>1, <2>2, <2>3, <2>4, <2>5, <2>6, <2>7, <2>8
<1>4. TypeOK'
  <2>1. watched \in Queries /\ area \in DOMAIN Areas /\ truth \in 0 .. MaxChanges
        /\ call.pc \in {"none", "asked", "orphan", "done"}
        /\ (call.pc # "none" => Affects(call.item.op, watched))
    BY DEF TypeOK
  <2>2. (call.pc # "none" => Affects(call.item.op, watched))'
    BY <1>1, <1>2, <2>1 DEF Affects
  <2>3. entry'.stale \in BOOLEAN /\ fetch'.pc \in {"none", "asked", "answered"}
    BY <1>3 DEF Entries, Fetches
  <2> QED BY <1>1, <1>2, <1>3, <2>1, <2>2, <2>3 DEF TypeOK
<1> QED BY <1>1, <1>2, <1>3, <1>4 DEF Entries, Fetches, NoCall

(* Steps of the change under way. *)
LEMMA ChangeTypes ==
  ASSUME BrowserTypes, [Next]_vars, (\E i \in Page : Click(i)) \/ Apply \/ Refuse \/ Lost \/ Settle
  PROVE  BrowserTypes'
<1> USE DEF BrowserTypes
<1>1. UNCHANGED <<watched, area, Walk, Offers, Changing>>
  BY SamePages
<1>2. /\ screen' = screen /\ excused' \in BOOLEAN
      /\ entry' \in Entries /\ entry'.data \in 0 .. truth \cup {Nothing}
      /\ fetch' \in Fetches /\ fetch'.got \in 0 .. truth \cup {Nothing}
      /\ (fetch'.pc = "answered") = (fetch'.got # Nothing)
  <2>1. CASE Settle
    <3>1. CASE watched \in call.item.refresh
      <4>1. screen' = screen /\ Refresh
        BY <2>1, <3>1 DEF Settle
      <4>2. excused' \in BOOLEAN
        BY <4>1 DEF Refresh, TypeOK
      <4>3. entry' \in Entries /\ entry'.data \in 0 .. truth \cup {Nothing}
        BY <4>1 DEF Refresh, TypeOK, Entries
      <4>4. fetch' \in {fetch, Asked}
        BY <4>1 DEF Refresh
      <4> QED BY <4>1, <4>2, <4>3, <4>4, BrowserAssumption DEF TypeOK, Fetches, Asked
    <3>2. CASE watched \notin call.item.refresh
      BY <2>1, <3>2, BrowserAssumption DEF Settle, TypeOK, Entries, Fetches
    <3> QED BY <3>1, <3>2
  <2>2. CASE ~Settle
    BY <2>2, BrowserAssumption DEF Click, Apply, Refuse, Lost, TypeOK, Entries, Fetches
  <2> QED BY <2>1, <2>2
<1>3. /\ call' \in Changing /\ (call'.pc = "none" => call' = NoCall)
      /\ call'.pc # "none" => /\ call'.item \in Offers /\ call'.item.op # watched
                              /\ Affects(call'.item.op, watched)
      /\ truth' \in 0 .. MaxChanges /\ truth' \in {truth, truth + 1}
      /\ call'.pc \in {"asked", "orphan"} => truth' < MaxChanges
  <2> USE BrowserAssumption DEF TypeOK, Changing, NoCall
  <2>1. CASE \E i \in Page : Click(i)
    <3>1. PICK i \in Page : Click(i)
      BY <2>1
    <3>2. i \in Offers
      BY DEF Page, Offers
    <3>3. i.op # watched /\ Affects(i.op, watched)
      BY <3>1, <3>2, WalkPages DEF Click
    <3> QED BY <3>1, <3>2, <3>3 DEF Click
  <2>2. CASE Apply
    BY <2>2 DEF Apply
  <2>3. CASE Refuse
    BY <2>3 DEF Refuse
  <2>4. CASE Lost
    BY <2>4 DEF Lost
  <2>5. CASE Settle
    BY <2>5 DEF Settle
  <2> QED BY <2>1, <2>2, <2>3, <2>4, <2>5
<1>4. truth \in Nat /\ 0 .. truth \subseteq 0 .. truth'
  BY <1>3, BrowserAssumption DEF TypeOK
<1>5. TypeOK'
  <2>1. watched \in Queries /\ area \in DOMAIN Areas /\ screen \in DOMAIN Walk
    BY DEF TypeOK
  <2>2. (call.pc # "none" => Affects(call.item.op, watched))'
    BY <1>1, <1>3 DEF Affects
  <2>3. /\ entry'.stale \in BOOLEAN /\ fetch'.pc \in {"none", "asked", "answered"}
        /\ call'.pc \in {"none", "asked", "orphan", "done"}
    BY <1>2, <1>3 DEF Entries, Fetches, Changing
  <2>4. entry'.data \in 0 .. truth' \cup {Nothing} /\ fetch'.got \in 0 .. truth' \cup {Nothing}
    BY <1>2, <1>4
  <2> QED BY <1>1, <1>2, <1>3, <2>1, <2>2, <2>3, <2>4 DEF TypeOK
<1> QED BY <1>1, <1>2, <1>3, <1>5 DEF Entries, Fetches, NoCall

LEMMA BrowserTypesKeep ==
  ASSUME BrowserTypes, [Next]_vars
  PROVE  BrowserTypes'
<1>1. CASE UNCHANGED vars
  <2>1. UNCHANGED <<Walk, Offers, Changing>>
    BY SamePages
  <2> QED BY <1>1, <2>1 DEF BrowserTypes, TypeOK, vars, Affects, Entries, Fetches, NoCall
<1> QED BY <1>1, CacheTypes, ChangeTypes DEF Next

LEMMA SomewhereKeeps ==
  ASSUME SomewhereShown, [Next]_vars
  PROVE  SomewhereShown'
BY SamePages DEF SomewhereShown, Showing

(* The cache never makes what it shows older than the truth without an excuse. *)
LEMMA CacheUpToDate ==
  ASSUME BrowserInv, [Next]_vars,
         \/ \E s \in DOMAIN Walk : Open(s)
         \/ Ages \/ Poll \/ Answer \/ Land \/ FetchFails \/ Collect \/ Reload
  PROVE  UpToDate'
<1> SUFFICES ASSUME ~excused', call'.pc # "done"
             PROVE  /\ fetch'.pc = "answered" => fetch'.got = truth'
                    /\ entry'.data \in {truth', Nothing} \/ entry'.stale
                    /\ Shown' /\ fetch' = NoFetch => entry'.data = truth'
  BY DEF UpToDate, NoFetch
<1>1. UNCHANGED <<watched, area, Walk>>
  BY SamePages
<1>2. UNCHANGED <<truth, call>> /\ call.pc # "done"
  BY DEF Open, Ages, Poll, Answer, Land, FetchFails, Collect, Reload
<1>3. entry \in Entries /\ fetch \in Fetches
  BY DEF BrowserInv, BrowserTypes
<1>4. ~excused => /\ fetch.pc = "answered" => fetch.got = truth
                  /\ entry.data \in {truth, Nothing} \/ entry.stale
                  /\ Shown /\ fetch = NoFetch => entry.data = truth
  BY <1>2 DEF BrowserInv, UpToDate
<1>5. UNCHANGED screen => UNCHANGED Shown
  BY <1>1 DEF Shown, Page, Showing
<1> USE DEF Entries, Fetches, NoFetch, Asked
<1>6. CASE \E s \in DOMAIN Walk : Open(s)
  <2>1. PICK s \in DOMAIN Walk : Open(s)
    BY <1>6
  <2>2. Shown' = Showing(Walk[s], watched)
    BY <1>1, <2>1 DEF Open, Shown, Page, Showing
  <2>3. entry' = entry /\ ~excused
    BY <2>1 DEF Open
  <2>4. CASE Showing(Walk[s], watched) /\ Needs /\ fetch = NoFetch
    BY <1>2, <1>3, <1>4, <2>1, <2>3, <2>4 DEF Open
  <2>5. CASE ~(Showing(Walk[s], watched) /\ Needs /\ fetch = NoFetch)
    <3>1. fetch' = fetch
      BY <2>1, <2>5 DEF Open
    <3>2. ASSUME Shown', fetch = NoFetch PROVE entry.data = truth
      <4>1. ~Needs
        BY <2>2, <2>5, <3>2
      <4> QED BY <1>4, <2>3, <4>1 DEF Needs
    <3> QED BY <1>2, <1>4, <2>3, <3>1, <3>2
  <2> QED BY <2>4, <2>5
<1>7. CASE Ages
  BY <1>2, <1>3, <1>4, <1>5, <1>7 DEF Ages
<1>8. CASE Poll
  BY <1>2, <1>3, <1>4, <1>5, <1>8 DEF Poll
<1>9. CASE Answer
  BY <1>2, <1>3, <1>4, <1>5, <1>9 DEF Answer
<1>10. CASE Land
  BY <1>2, <1>3, <1>4, <1>5, <1>10 DEF Land
<1>11. CASE FetchFails
  BY <1>11 DEF FetchFails
<1>12. CASE Collect
  BY <1>2, <1>5, <1>12 DEF Collect, Empty
<1>13. CASE Reload
  BY <1>2, <1>5, <1>13 DEF Reload, Empty
<1> QED BY <1>6, <1>7, <1>8, <1>9, <1>10, <1>11, <1>12, <1>13

(* A change makes the entry old; the page that made it sees to it when it settles. *)
LEMMA ChangeUpToDate ==
  ASSUME BrowserInv, [Next]_vars,
         (\E i \in Page : Click(i)) \/ Apply \/ Refuse \/ Lost \/ Settle
  PROVE  UpToDate'
<1> SUFFICES ASSUME ~excused', call'.pc # "done"
             PROVE  /\ fetch'.pc = "answered" => fetch'.got = truth'
                    /\ entry'.data \in {truth', Nothing} \/ entry'.stale
                    /\ Shown' /\ fetch' = NoFetch => entry'.data = truth'
  BY DEF UpToDate, NoFetch
<1>1. UNCHANGED <<watched, area, Walk, screen>>
  BY SamePages DEF Click, Apply, Refuse, Lost, Settle
<1>2. UNCHANGED Shown
  BY <1>1 DEF Shown, Page, Showing
<1>3. entry \in Entries /\ fetch \in Fetches /\ call \in Changing
  BY DEF BrowserInv, BrowserTypes
<1>4. ~excused /\ call.pc # "done" =>
         /\ fetch.pc = "answered" => fetch.got = truth
         /\ entry.data \in {truth, Nothing} \/ entry.stale
         /\ Shown /\ fetch = NoFetch => entry.data = truth
  BY DEF BrowserInv, UpToDate
<1>5. CASE (\E i \in Page : Click(i)) \/ Refuse
  <2>1. UNCHANGED <<truth, entry, fetch, excused>> /\ call.pc # "done"
    BY <1>5 DEF Click, Refuse, NoCall
  <2> QED BY <1>2, <1>4, <2>1 DEF NoFetch
<1>6. CASE Apply \/ Lost
  <2>1. UNCHANGED <<truth, entry, fetch, excused>> /\ call.pc # "done"
    BY <1>3, <1>6 DEF Apply, Lost, Changing
  <2> QED BY <1>2, <1>4, <2>1 DEF NoFetch
<1>7. CASE Settle
  <2>1. truth' = truth /\ call.pc = "done"
    BY <1>7 DEF Settle
  <2>2. watched \in call.item.refresh
    <3>1. call.item \in Offers /\ call.item.op # watched
      BY <2>1 DEF BrowserInv, BrowserTypes
    <3>2. watched \in call.item.refresh \/ <<call.item.op, watched>> \in Overlooked
      <4>1. watched \in Queries /\ area \in DOMAIN Areas /\ Walk = Walks[area][watched]
        BY DEF BrowserInv, BrowserTypes, TypeOK, Walk
      <4> QED BY <3>1, <4>1, PagesRefresh DEF ChangesRefresh, BrowserInv, SomewhereShown, Offers
    <3> QED BY <1>7, <3>2 DEF Settle
  <2>3. Refresh
    BY <1>7, <2>2 DEF Settle
  <2>4. fetch'.pc = "answered" => fetch'.got = truth
    BY <2>3 DEF Refresh
  <2>5. entry'.data = Nothing \/ entry'.stale
    BY <1>3, <2>3 DEF Refresh, Entries
  <2>6. Shown => fetch' # NoFetch
    BY <2>3 DEF Refresh, Asked, NoFetch
  <2> QED BY <1>2, <2>1, <2>4, <2>5, <2>6 DEF NoFetch
<1> QED BY <1>5, <1>6, <1>7

(* hooks of apps/web: what a page shows, when nothing is under way and no excuse applies, is what its
   user has changed, on this page or on another one. *)
THEOREM BrowserCorrect == Spec => [](TypeOK /\ OwnChangeShown)
<1>1. Init => BrowserInv
  BY BrowserStarts
<1>2. BrowserInv /\ [Next]_vars => BrowserInv'
  <2> SUFFICES ASSUME BrowserInv, [Next]_vars PROVE BrowserInv' OBVIOUS
  <2>1. BrowserTypes' /\ SomewhereShown'
    BY BrowserTypesKeep, SomewhereKeeps DEF BrowserInv
  <2>2. CASE UNCHANGED vars
    <3>1. UNCHANGED Walk
      BY SamePages
    <3> QED BY <2>1, <2>2, <3>1 DEF BrowserInv, UpToDate, vars, Shown, Page, Showing, NoFetch
  <2> QED BY <2>1, <2>2, CacheUpToDate, ChangeUpToDate DEF Next, BrowserInv
<1>3. BrowserInv => TypeOK /\ OwnChangeShown
  BY DEF BrowserInv, BrowserTypes, UpToDate, OwnChangeShown, NoCall
<1> QED BY <1>1, <1>2, <1>3, PTL DEF Spec

-----------------------------------------------------------------------------
(* The pages and the routes: what a page offers and what the API lets its user do (rbac.ts, permissions.ts,
   the pages of apps/web).  The tables of guards have no key in common, so each guard is that of its table. *)
LEMMA OneTable ==
  ASSUME NEW tables, NEW t \in tables, NEW k \in DOMAIN t, \A u \in tables : k \in DOMAIN u => u = t
  PROVE  k \in DOMAIN Sessions!Merged(tables) /\ Sessions!Merged(tables)[k] = t[k]
<1>1. k \in UNION {DOMAIN u : u \in tables} OBVIOUS
<1>2. (CHOOSE u \in tables : k \in DOMAIN u) = t OBVIOUS
<1> QED BY <1>1, <1>2 DEF Sessions!Merged

GuardTables ==
  {Sessions!BookingGuards, Sessions!RequestGuards, Sessions!SlotGuards, Sessions!PlaceGuards,
   Sessions!CourtGuards, Sessions!CompanyGuards, Sessions!BillingGuards, Sessions!PaymentGuards,
   Sessions!DomainGuards, Sessions!MailGuards, Sessions!MediaGuards, Sessions!ReportGuards,
   Sessions!AdminGuards, Sessions!PlayerGuards}

LEMMA OneGuard ==
  ASSUME NEW t \in GuardTables, NEW o \in DOMAIN t
  PROVE  o \in DOMAIN Sessions!Guard /\ Sessions!Guard[o] = t[o]
<1> USE DEF GuardTables, Sessions!BookingGuards, Sessions!RequestGuards, Sessions!SlotGuards,
            Sessions!PlaceGuards, Sessions!CourtGuards, Sessions!CompanyGuards, Sessions!BillingGuards,
            Sessions!PaymentGuards, Sessions!DomainGuards, Sessions!MailGuards, Sessions!MediaGuards,
            Sessions!ReportGuards, Sessions!AdminGuards, Sessions!PlayerGuards
<1>1. \A u \in GuardTables : o \in DOMAIN u => u = t
  <2>1. CASE t = Sessions!BookingGuards BY <2>1
  <2>2. CASE t = Sessions!RequestGuards BY <2>2
  <2>3. CASE t = Sessions!SlotGuards BY <2>3
  <2>4. CASE t = Sessions!PlaceGuards BY <2>4
  <2>5. CASE t = Sessions!CourtGuards BY <2>5
  <2>6. CASE t = Sessions!CompanyGuards BY <2>6
  <2>7. CASE t = Sessions!BillingGuards BY <2>7
  <2>8. CASE t = Sessions!PaymentGuards BY <2>8
  <2>9. CASE t = Sessions!DomainGuards BY <2>9
  <2>10. CASE t = Sessions!MailGuards BY <2>10
  <2>11. CASE t = Sessions!MediaGuards BY <2>11
  <2>12. CASE t = Sessions!ReportGuards BY <2>12
  <2>13. CASE t = Sessions!AdminGuards BY <2>13
  <2>14. CASE t = Sessions!PlayerGuards BY <2>14
  <2> QED BY <2>1, <2>2, <2>3, <2>4, <2>5, <2>6, <2>7, <2>8, <2>9, <2>10, <2>11, <2>12, <2>13, <2>14
<1> QED BY <1>1, OneTable DEF Sessions!Guard

(* The API lets a do o, or is known to refuse it. *)
May(a, o) ==
  /\ o \in DOMAIN Sessions!Guard
  /\ Sessions!Allows(Sessions!Guard[o], a) \/ <<a.role, o>> \in Sessions!KnownRefusals

(* A guard of some table that asks for no plan and for rights that a has. *)
LEMMA GuardMet ==
  ASSUME NEW a \in Sessions!Actors, NEW t \in GuardTables, NEW o \in DOMAIN t,
         t[o].need \subseteq Sessions!Roles[a.role], Sessions!Rank[a.tier] >= Sessions!Rank[t[o].tier]
  PROVE  May(a, o)
BY OneGuard DEF May, Sessions!Allows

LEMMA RoleFacts ==
  ASSUME NEW a \in Sessions!Members
  PROVE  /\ a.role \in {"receptionist", "location_manager", "owner"}
         /\ Sessions!Reception \subseteq Sessions!Roles[a.role]
         /\ a.role # "receptionist" => Sessions!Manager \subseteq Sessions!Roles[a.role]
         /\ a.role = "owner" => Sessions!Owner \subseteq Sessions!Roles[a.role]
         /\ Sessions!Rank["basic"] = 1 /\ Sessions!Rank["pro"] = 2 /\ Sessions!Rank["elite"] = 3
         /\ Sessions!Rank[a.tier] \in 1..3
BY DEF Sessions!Members, Sessions!Roles, Sessions!Owner, Sessions!Manager, Sessions!Rank

(* Rights that only some roles have. *)
LEMMA RightsOfRoles ==
  ASSUME NEW a \in Sessions!Members
  PROVE  /\ \A p \in {"sub_venues.write", "slots.write", "pricing.write", "reports.daily"} :
              p \in Sessions!Roles[a.role] => a.role # "receptionist"
         /\ \A p \in {"locations.write", "locations.delete", "company.branding", "staff.invite",
                      "payments.gateway_config", "reports.full_ledger"} :
              p \in Sessions!Roles[a.role] => a.role = "owner"
BY DEF Sessions!Members, Sessions!Roles, Sessions!Owner, Sessions!Manager, Sessions!Reception

LEMMA EveryMemberMay ==
  ASSUME NEW a \in Sessions!Members,
         NEW o \in {"locations", "location", "subVenues", "subVenue", "company", "plans", "initiate"}
                     \cup DOMAIN Sessions!BookingGuards \cup DOMAIN Sessions!RequestGuards
                     \cup DOMAIN Sessions!SlotGuards
  PROVE  May(a, o)
<1> USE RoleFacts, GuardMet
        DEF GuardTables, Sessions!Actors, Sessions!Signed, Sessions!Need, Sessions!Reception
<1>1. CASE o \in DOMAIN Sessions!BookingGuards BY <1>1 DEF Sessions!BookingGuards
<1>2. CASE o \in DOMAIN Sessions!RequestGuards BY <1>2 DEF Sessions!RequestGuards
<1>3. CASE o \in DOMAIN Sessions!SlotGuards BY <1>3 DEF Sessions!SlotGuards
<1>4. CASE o \in {"locations", "location"} BY <1>4 DEF Sessions!PlaceGuards
<1>5. CASE o \in {"subVenues", "subVenue"} BY <1>5 DEF Sessions!CourtGuards
<1>6. CASE o = "company" BY <1>6 DEF Sessions!CompanyGuards
<1>7. CASE o = "plans" BY <1>7 DEF Sessions!BillingGuards
<1>8. CASE o = "initiate" BY <1>8 DEF Sessions!PaymentGuards
<1> QED BY <1>1, <1>2, <1>3, <1>4, <1>5, <1>6, <1>7, <1>8

LEMMA ManagersMay ==
  ASSUME NEW a \in Sessions!Members, a.role # "receptionist",
         NEW o \in DOMAIN Sessions!CourtGuards \cup {"daily", "occupancy"}
  PROVE  May(a, o)
<1> USE RoleFacts, GuardMet
        DEF GuardTables, Sessions!Actors, Sessions!Need, Sessions!Manager, Sessions!Reception
<1>1. CASE o \in DOMAIN Sessions!CourtGuards BY <1>1 DEF Sessions!CourtGuards
<1>2. CASE o \in {"daily", "occupancy"} BY <1>2 DEF Sessions!ReportGuards
<1> QED BY <1>1, <1>2

LEMMA OwnersMay ==
  ASSUME NEW a \in Sessions!Members, a.role = "owner",
         NEW o \in DOMAIN Sessions!PlaceGuards \cup DOMAIN Sessions!CompanyGuards
                     \cup DOMAIN Sessions!BillingGuards \cup DOMAIN Sessions!PaymentGuards
                     \cup DOMAIN Sessions!MediaGuards
                     \cup {"domains", "mail", "mailPlatform", "verifyMail", "testMail"}
  PROVE  May(a, o)
<1> USE RoleFacts, GuardMet DEF GuardTables, Sessions!Actors, Sessions!Signed, Sessions!Need,
        Sessions!Owner, Sessions!Manager, Sessions!Reception
<1>1. CASE o \in DOMAIN Sessions!PlaceGuards BY <1>1 DEF Sessions!PlaceGuards
<1>2. CASE o \in DOMAIN Sessions!CompanyGuards BY <1>2 DEF Sessions!CompanyGuards
<1>3. CASE o \in DOMAIN Sessions!BillingGuards BY <1>3 DEF Sessions!BillingGuards
<1>4. CASE o \in DOMAIN Sessions!PaymentGuards BY <1>4 DEF Sessions!PaymentGuards
<1>5. CASE o \in DOMAIN Sessions!MediaGuards BY <1>5 DEF Sessions!MediaGuards
<1>6. CASE o = "domains" BY <1>6 DEF Sessions!DomainGuards
<1>7. CASE o \in {"mail", "mailPlatform", "verifyMail", "testMail"} BY <1>7 DEF Sessions!MailGuards
<1> QED BY <1>1, <1>2, <1>3, <1>4, <1>5, <1>6, <1>7

(* What a plan is asked for, and the banner. *)
LEMMA PlansMay ==
  ASSUME NEW a \in Sessions!Members
  PROVE  /\ May(a, "subscription")
         /\ a.role = "owner" => May(a, "revenue") /\ May(a, "export")
         /\ a.role = "owner" /\ Sessions!Rank[a.tier] >= Sessions!Rank["pro"] => May(a, "mailSubdomain")
         /\ a.role = "owner" /\ Sessions!Rank[a.tier] >= Sessions!Rank["elite"] =>
              May(a, "mailOwn") /\ May(a, "addDomain") /\ May(a, "verifyDomain") /\ May(a, "removeDomain")
<1> USE RoleFacts DEF GuardTables, Sessions!Actors, Sessions!Plan, Sessions!Owner
<1>1. May(a, "subscription")
  <2>1. CASE a.role = "owner" BY <2>1, OwnersMay DEF Sessions!BillingGuards
  <2>2. CASE a.role # "owner" BY <2>2, OneGuard DEF Sessions!BillingGuards, May, Sessions!KnownRefusals
  <2> QED BY <2>1, <2>2
<1>2. a.role = "owner" => May(a, "revenue") /\ May(a, "export")
  BY OneGuard DEF Sessions!ReportGuards, May, Sessions!KnownRefusals
<1>3. a.role = "owner" /\ Sessions!Rank[a.tier] >= Sessions!Rank["pro"] => May(a, "mailSubdomain")
  BY GuardMet DEF Sessions!MailGuards
<1>4. a.role = "owner" /\ Sessions!Rank[a.tier] >= Sessions!Rank["elite"] => May(a, "mailOwn")
  BY GuardMet DEF Sessions!MailGuards
<1>5. a.role = "owner" /\ Sessions!Rank[a.tier] >= Sessions!Rank["elite"] =>
        May(a, "addDomain") /\ May(a, "verifyDomain") /\ May(a, "removeDomain")
  BY GuardMet DEF Sessions!DomainGuards
<1> QED BY <1>1, <1>2, <1>3, <1>4, <1>5

LEMMA AdministratorsMay ==
  ASSUME NEW a \in Sessions!Admins
  PROVE  /\ \A o \in DOMAIN Sessions!AdminGuards \ {"savePlan", "saveDriver"} : May(a, o)
         /\ "super" \in Sessions!Roles[a.role] => May(a, "savePlan") /\ May(a, "saveDriver")
<1>1. a.role \in {"platform_support", "super_admin"} /\ "support" \in Sessions!Roles[a.role]
  BY DEF Sessions!Admins, Sessions!Roles
<1>2. a.role = "super_admin" => "super" \in Sessions!Roles[a.role]
  BY DEF Sessions!Roles
<1>3. Sessions!Rank[a.tier] = 1 /\ Sessions!Rank["basic"] = 1
  BY DEF Sessions!Admins, Sessions!Rank
<1> USE DEF GuardTables, Sessions!Actors, Sessions!Need, Sessions!AdminGuards
<1>4. ASSUME NEW o \in DOMAIN Sessions!AdminGuards, Sessions!AdminGuards[o].need = {"support"} PROVE May(a, o)
  BY <1>1, <1>3, <1>4, GuardMet
<1>5. ASSUME NEW o \in DOMAIN Sessions!AdminGuards, "super" \in Sessions!Roles[a.role] PROVE May(a, o)
  BY <1>1, <1>3, <1>5, GuardMet
<1>6. \A o \in {"setSubscription", "adminMarkPaid"} : May(a, o)
  <2>1. CASE a.role = "super_admin" BY <1>2, <1>5, <2>1
  <2>2. CASE a.role = "platform_support" BY <2>2, OneGuard DEF May, Sessions!KnownRefusals
  <2> QED BY <1>1, <2>1, <2>2
<1> QED BY <1>4, <1>5, <1>6

(* What a page offers a, a may do; and how the pages are put together. *)
Granted(ops, a)  == \A o \in ops : May(a, o)
Welcome(part, a) == \A i \in part : Sessions!Offered(i, a) => May(a, i.op)

LEMMA PartRules ==
  ASSUME NEW a
  PROVE  /\ \A ops, r : Shaped(Sessions!Does(ops, r)) /\ (Granted(ops, a) => Welcome(Sessions!Does(ops, r), a))
         /\ \A ops : Shaped(Sessions!Shows(ops)) /\ (Granted(ops, a) => Welcome(Sessions!Shows(ops), a))
         /\ \A A, B : Shaped(A) /\ Shaped(B) => Shaped(A \cup B)
         /\ \A A, B : Welcome(A, a) /\ Welcome(B, a) => Welcome(A \cup B, a)
         /\ \A p, part : Shaped(part) => Shaped(Sessions!For(p, part))
         /\ \A p, part : Shaped(part) /\ (p \in Sessions!Roles[a.role] => Welcome(part, a))
                           => Welcome(Sessions!For(p, part), a)
         /\ \A t, ops, r : Shaped(Sessions!From(t, Sessions!Does(ops, r)))
         /\ \A t, ops, r : (Sessions!Rank[a.tier] >= Sessions!Rank[t] => Granted(ops, a))
                             => Welcome(Sessions!From(t, Sessions!Does(ops, r)), a)
<1>1. \A ops, r : Shaped(Sessions!Does(ops, r)) /\ (Granted(ops, a) => Welcome(Sessions!Does(ops, r), a))
  BY DEF Shaped, Welcome, Granted, Sessions!Does
<1>2. \A ops : Shaped(Sessions!Shows(ops)) /\ (Granted(ops, a) => Welcome(Sessions!Shows(ops), a))
  BY DEF Shaped, Welcome, Granted, Sessions!Shows
<1>3. \A A, B : Shaped(A) /\ Shaped(B) => Shaped(A \cup B)
  BY DEF Shaped
<1>4. \A A, B : Welcome(A, a) /\ Welcome(B, a) => Welcome(A \cup B, a)
  BY DEF Welcome
<1>5. \A p, part : Shaped(part) => Shaped(Sessions!For(p, part))
  BY DEF Shaped, Sessions!For
<1>6. \A p, part : Shaped(part) /\ (p \in Sessions!Roles[a.role] => Welcome(part, a))
                    => Welcome(Sessions!For(p, part), a)
  BY DEF Shaped, Sessions!For, Welcome, Sessions!Offered
<1>7. \A t, ops, r : Shaped(Sessions!From(t, Sessions!Does(ops, r)))
  BY DEF Shaped, Sessions!From, Sessions!Does
<1>8. \A t, ops, r : (Sessions!Rank[a.tier] >= Sessions!Rank[t] => Granted(ops, a)) =>
               Welcome(Sessions!From(t, Sessions!Does(ops, r)), a)
  BY DEF Sessions!From, Sessions!Does, Welcome, Granted, Sessions!Offered
<1> QED BY <1>1, <1>2, <1>3, <1>4, <1>5, <1>6, <1>7, <1>8


LEMMA MembersGranted ==
  ASSUME NEW a \in Sessions!Members
  PROVE
    /\ Granted({"locations"}, a) /\ Granted({"locations", "bookings"}, a)
    /\ Granted({"locations", "subVenues", "slots", "slotDetail"}, a)
    /\ Granted({"lockSlot", "createBooking"}, a) /\ Granted({"unlockSlot"}, a)
    /\ Granted({"booking"}, a) /\ Granted({"uploadSlip"}, a) /\ Granted({"initiate"}, a)
    /\ Granted({"checkIn", "markPaid"}, a) /\ Granted({"verifySlip"}, a)
    /\ Granted({"cancelBooking"}, a) /\ Granted({"locations", "requests"}, a)
    /\ Granted({"locations", "subVenues"}, a) /\ Granted({"createRequest"}, a)
    /\ Granted({"request"}, a) /\ Granted({"approveRequest", "rejectRequest"}, a)
    /\ Granted({"cancelRequest"}, a) /\ Granted({"calendar"}, a) /\ Granted({"location"}, a)
    /\ Granted({"subVenues"}, a) /\ Granted({"subVenue"}, a) /\ Granted({"subscription"}, a)
BY EveryMemberMay, PlansMay
   DEF Granted, Sessions!BookingGuards, Sessions!RequestGuards, Sessions!SlotGuards

LEMMA ManagersGranted ==
  ASSUME NEW a \in Sessions!Members, a.role # "receptionist"
  PROVE
    /\ Granted({"createSubVenue"}, a) /\ Granted({"updateSubVenue", "deleteSubVenue"}, a)
    /\ Granted({"savePrice"}, a) /\ Granted({"deletePrice"}, a) /\ Granted({"generateSlots"}, a)
    /\ Granted({"daily"}, a) /\ Granted({"occupancy"}, a)
BY ManagersMay DEF Granted, Sessions!CourtGuards

LEMMA OwnersGranted ==
  ASSUME NEW a \in Sessions!Members, a.role = "owner"
  PROVE
    /\ Granted({"createLocation"}, a) /\ Granted({"updateLocation"}, a)
    /\ Granted({"closeLocation", "updateLocation"}, a) /\ Granted({"saveHours"}, a)
    /\ Granted({"saveHoliday"}, a) /\ Granted({"revenue"}, a) /\ Granted({"export"}, a)
    /\ Granted({"company"}, a) /\ Granted({"saveBranding"}, a) /\ Granted({"uploadLogo"}, a)
    /\ Granted({"members", "locations"}, a) /\ Granted({"inviteMember", "removeMember"}, a)
    /\ Granted({"updateMember"}, a) /\ Granted({"subscription", "plans", "invoices"}, a)
    /\ Granted({"upgrade", "cancelPlan"}, a) /\ Granted({"gateways"}, a) /\ Granted({"bank"}, a)
    /\ Granted({"saveBank"}, a) /\ Granted({"gatewayConfig"}, a) /\ Granted({"saveGateway"}, a)
    /\ Granted({"media"}, a) /\ Granted({"changeMedia"}, a) /\ Granted({"domains"}, a)
    /\ Granted({"mail"}, a) /\ Granted({"mailPlatform", "verifyMail"}, a) /\ Granted({"testMail"}, a)
    /\ Sessions!Rank[a.tier] >= Sessions!Rank["pro"] => Granted({"mailSubdomain"}, a)
    /\ Sessions!Rank[a.tier] >= Sessions!Rank["elite"] =>
         Granted({"mailOwn"}, a) /\ Granted({"addDomain", "verifyDomain", "removeDomain"}, a)
BY OwnersMay, PlansMay
   DEF Granted, Sessions!PlaceGuards, Sessions!CompanyGuards, Sessions!BillingGuards, Sessions!PaymentGuards,
       Sessions!MediaGuards

LEMMA MenuWelcomes ==
  ASSUME NEW a \in Sessions!Members, NEW s \in DOMAIN Sessions!Menu
  PROVE  Welcome(Sessions!Menu[s], a)
<1> USE PartRules, MembersGranted, ManagersGranted, OwnersGranted, RightsOfRoles
<1>1. CASE s = "overview" BY <1>1 DEF Sessions!Menu, Sessions!OverviewPage
<1>2. CASE s = "locations" BY <1>2 DEF Sessions!Menu, Sessions!LocationsPage
<1>3. CASE s = "bookings" BY <1>3 DEF Sessions!Menu, Sessions!BookingsPage
<1>4. CASE s = "requests" BY <1>4 DEF Sessions!Menu, Sessions!RequestsPage
<1>5. CASE s = "reports" BY <1>5 DEF Sessions!Menu, Sessions!ReportsPage, Sessions!LocationSelect,
         Sessions!DailyTab, Sessions!RevenueTab, Sessions!OccupancyTab
<1>6. CASE s = "slots" BY <1>6 DEF Sessions!Menu, Sessions!SlotsPage
<1>7. CASE s = "staff" BY <1>7 DEF Sessions!Menu, Sessions!StaffPage, Sessions!EditMemberDialog
<1>8. CASE s = "payments" BY <1>8 DEF Sessions!Menu, Sessions!PaymentsPage, Sessions!BankCard,
         Sessions!GatewayForm
<1>9. CASE s = "media" BY <1>9 DEF Sessions!Menu, Sessions!MediaPage, Sessions!MediaActions
<1>10. CASE s = "mail" BY <1>10 DEF Sessions!Menu, Sessions!MailPage, Sessions!MailForm
<1>11. CASE s = "domains" BY <1>11 DEF Sessions!Menu, Sessions!DomainsPage, Sessions!DomainsCard
<1>12. CASE s = "billing" BY <1>12 DEF Sessions!Menu, Sessions!BillingPage, Sessions!BillingKeys
<1>13. CASE s = "branding" BY <1>13 DEF Sessions!Menu, Sessions!BrandingPage
<1> QED BY <1>1, <1>2, <1>3, <1>4, <1>5, <1>6, <1>7, <1>8, <1>9, <1>10, <1>11, <1>12, <1>13 DEF Sessions!Menu

LEMMA LinksWelcome ==
  ASSUME NEW a \in Sessions!Members, NEW s \in DOMAIN Sessions!Linked
  PROVE  Welcome(Sessions!Linked[s], a)
<1> USE PartRules, MembersGranted, ManagersGranted, OwnersGranted, RightsOfRoles
<1>1. CASE s = "newBooking" BY <1>1 DEF Sessions!Linked, Sessions!NewBookingPage
<1>2. CASE s = "booking" BY <1>2 DEF Sessions!Linked, Sessions!BookingPage, Sessions!BookingActions
<1>3. CASE s = "newRequest" BY <1>3 DEF Sessions!Linked, Sessions!NewRequestPage
<1>4. CASE s = "request"
  <2>1. Shaped(Sessions!RequestPage) /\ Welcome(Sessions!RequestPage, a)
    BY DEF Sessions!RequestPage
  <2> QED BY <1>4, <2>1 DEF Sessions!Linked
<1>5. CASE s = "newLocation" BY <1>5 DEF Sessions!Linked, Sessions!NewLocationPage
<1>6. CASE s = "location" BY <1>6 DEF Sessions!Linked, Sessions!LocationPage, Sessions!LocationTab,
         Sessions!HoursTab, Sessions!HolidaysTab, Sessions!CourtsTab
<1>7. CASE s = "newCourt" BY <1>7 DEF Sessions!Linked, Sessions!NewCourtPage
<1>8. CASE s = "court" BY <1>8 DEF Sessions!Linked, Sessions!CourtPage, Sessions!CourtTab,
         Sessions!PriceForm, Sessions!PricingTab, Sessions!GenerateTab
<1> QED BY <1>1, <1>2, <1>3, <1>4, <1>5, <1>6, <1>7, <1>8 DEF Sessions!Linked

LEMMA StaffWelcome ==
  ASSUME NEW a \in Sessions!Members, NEW s \in DOMAIN Sessions!Staff
  PROVE  Welcome(Sessions!Staff[s], a)
<1> DEFINE both == {Sessions!Menu, Sessions!Linked}
           pages == Sessions!Merged(both)
<1>1. \A k \in DOMAIN Sessions!Menu : k \notin DOMAIN Sessions!Linked
  BY DEF Sessions!Menu, Sessions!Linked
<1>2. Sessions!Staff = [k \in DOMAIN pages |-> Sessions!Banner \cup pages[k]]
  BY DEF Sessions!Staff
<1>3. s \in DOMAIN pages /\ Sessions!Staff[s] = Sessions!Banner \cup pages[s]
  BY <1>2
<1>4. DOMAIN pages = UNION {DOMAIN t : t \in both}
  BY DEF Sessions!Merged
<1>5. Welcome(pages[s], a)
  <2>1. CASE s \in DOMAIN Sessions!Menu BY <1>1, <2>1, OneTable, MenuWelcomes
  <2>2. CASE s \in DOMAIN Sessions!Linked BY <1>1, <2>2, OneTable, LinksWelcome
  <2> QED BY <1>3, <1>4, <2>1, <2>2
<1>6. Welcome(Sessions!Banner, a)
  BY MembersGranted, PartRules DEF Sessions!Banner
<1> HIDE DEF pages
<1> QED BY <1>3, <1>5, <1>6, PartRules

LEMMA AdministrationWelcomes ==
  ASSUME NEW a \in Sessions!Admins, NEW s \in DOMAIN Sessions!Admin
  PROVE  Welcome(Sessions!Admin[s], a)
<1>1. /\ Granted({"adminStats"}, a) /\ Granted({"adminCompanies"}, a)
      /\ Granted({"adminCompany", "adminPlans"}, a)
      /\ Granted({"setSubscription"}, a) /\ Granted({"adminMarkPaid"}, a) /\ Granted({"saveCompanyBank"}, a)
      /\ Granted({"adminPlans"}, a) /\ Granted({"drivers"}, a) /\ Granted({"auditLogs"}, a)
      /\ "super" \in Sessions!Roles[a.role] => Granted({"savePlan"}, a) /\ Granted({"saveDriver"}, a)
  BY AdministratorsMay DEF Granted, Sessions!AdminGuards
<1> USE <1>1, PartRules DEF Sessions!Admin
<1>2. CASE s = "stats" BY <1>2 DEF Sessions!StatsPage
<1>3. CASE s = "companies" BY <1>3 DEF Sessions!CompaniesPage
<1>4. CASE s = "company" BY <1>4 DEF Sessions!CompanyPage, Sessions!CompanyForms, Sessions!CompanyBank
<1>5. CASE s = "plans" BY <1>5 DEF Sessions!PlansPage
<1>6. CASE s = "drivers" BY <1>6 DEF Sessions!DriversPage
<1>7. CASE s = "audit" BY <1>7 DEF Sessions!AuditPage
<1> QED BY <1>2, <1>3, <1>4, <1>5, <1>6, <1>7

-----------------------------------------------------------------------------
(* Sessions: the row, the token and the web's store (rbac.ts, auth.store.ts). *)

(* Nobody's role turns from a member's into an administrator's: without this a refreshed token could
   be of another kind than the store.  Who is not signed in has asked for nothing yet. *)
SessionsInv ==
  /\ Sessions!TypeOK
  /\ token # Nothing => (member \in Sessions!Members) = (token \in Sessions!Members)
  /\ token = Nothing => refused = "none"
  /\ Sessions!OfferedIsAccepted

LEMMA WhoIsSignedIn ==
  ASSUME SessionsInv, Sessions!Next
  PROVE  /\ token' # Nothing => (member' \in Sessions!Members) = (token' \in Sessions!Members)
         /\ member' \in Sessions!Actors
         /\ token' \in Sessions!Actors \cup {Nothing} /\ actor' \in Sessions!Actors \cup {Nothing}
         /\ (token' = Nothing) = (actor' = Nothing)
         /\ actor' # Nothing => (actor' \in Sessions!Members) = (token' \in Sessions!Members)
         /\ saved' \subseteq Sessions!OwnModes /\ saved \subseteq saved'
<1> USE DEF SessionsInv, Sessions!TypeOK
<1>1. CASE Sessions!SignIn
  BY <1>1, SessionsAssumption DEF Sessions!SignIn
<1>2. CASE Sessions!SignOut
  BY <1>2 DEF Sessions!SignOut
<1>3. CASE Sessions!Changed
  BY <1>3 DEF Sessions!Changed
<1>4. CASE Sessions!Refresh
  <2>1. token \in Sessions!Members /\ token # Nothing /\ token' = member /\ UNCHANGED <<member, actor, saved>>
    BY <1>4, SessionsAssumption DEF Sessions!Refresh, Sessions!Actors
  <2>2. member \in Sessions!Members /\ member # Nothing
    BY <2>1, SessionsAssumption
  <2> QED BY <2>1, <2>2
<1>5. CASE actor # Nothing /\ \E s \in DOMAIN Sessions!Pages : \E i \in Sessions!Pages[s] : Sessions!Use(i)
  BY <1>5 DEF Sessions!Use
<1> QED BY <1>1, <1>2, <1>3, <1>4, <1>5 DEF Sessions!Next

(* A page's request: the store offers it, and if the token is the store's, the API lets it pass. *)
LEMMA RequestPasses ==
  ASSUME SessionsInv, actor # Nothing, NEW s \in DOMAIN Sessions!Pages, NEW i \in Sessions!Pages[s],
         Sessions!Use(i)
  PROVE  /\ refused' \in DOMAIN Sessions!Guard \cup {"none"}
         /\ Sessions!OfferedIsAccepted'
<1>1. /\ actor \in Sessions!Actors /\ UNCHANGED <<token, actor>> /\ saved \subseteq saved'
      /\ saved \subseteq Sessions!OwnModes
      /\ Sessions!Offered(i, actor) \/ i.op \in saved
  BY DEF SessionsInv, Sessions!TypeOK, Sessions!Use, Sessions!Preselected
<1>2. refused' = IF Sessions!Allows(Sessions!Guard[i.op], token) THEN "none" ELSE i.op
  BY DEF Sessions!Use
<1>3. Welcome(Sessions!Pages[s], actor)
  <2>1. CASE actor \in Sessions!Members
    BY <2>1, StaffWelcome DEF Sessions!Pages
  <2>2. CASE actor \notin Sessions!Members
    BY <1>1, <2>2, AdministrationWelcomes DEF Sessions!Pages, Sessions!Actors
  <2> QED BY <2>1, <2>2
<1>4. May(actor, i.op) \/ (i.op \in DOMAIN Sessions!Guard /\ i.op \in saved)
  <2>1. CASE Sessions!Offered(i, actor)
    BY <1>3, <2>1 DEF Welcome
  <2>2. CASE i.op \in saved
    <3>1. Sessions!MailGuards \in GuardTables BY DEF GuardTables
    <3>2. i.op \in DOMAIN Sessions!MailGuards
      <4>1. i.op = "mailSubdomain" \/ i.op = "mailOwn" BY <1>1, <2>2 DEF Sessions!OwnModes
      <4>2. {"mailSubdomain", "mailOwn"} \subseteq DOMAIN Sessions!MailGuards
        BY DEF Sessions!MailGuards
      <4> QED BY <4>1, <4>2
    <3>3. i.op \in DOMAIN Sessions!Guard BY <3>1, <3>2, OneGuard
    <3> QED BY <2>2, <3>3
  <2> QED BY <1>1, <2>1, <2>2
<1>5. CASE Sessions!Allows(Sessions!Guard[i.op], token)
  BY <1>2, <1>5 DEF Sessions!OfferedIsAccepted
<1>6. CASE ~Sessions!Allows(Sessions!Guard[i.op], token)
  BY <1>1, <1>2, <1>4, <1>6 DEF May, Sessions!OfferedIsAccepted
<1> QED BY <1>5, <1>6

(* rbac.ts, auth.store.ts: the store and the token are set and cleared together and are both a member's or
   both an administrator's; every request of a page is one that the API has a guard for, and it is allowed
   as long as the token is the store's, but for the known refusals and the modes of mail saved before a
   downgrade. *)
THEOREM SessionsCorrect == Sessions!Spec => [](Sessions!TypeOK /\ Sessions!OfferedIsAccepted)
<1>1. Sessions!Init => SessionsInv
  BY SessionsAssumption
     DEF SessionsInv, Sessions!Init, Sessions!TypeOK, Sessions!OfferedIsAccepted
<1>2. SessionsInv /\ [Sessions!Next]_(Sessions!vars) => SessionsInv'
  <2> SUFFICES ASSUME SessionsInv, [Sessions!Next]_(Sessions!vars) PROVE SessionsInv' OBVIOUS
  <2>1. CASE UNCHANGED Sessions!vars
    BY <2>1 DEF SessionsInv, Sessions!TypeOK, Sessions!OfferedIsAccepted, Sessions!vars
  <2>2. CASE Sessions!Next
    <3>1. /\ refused' \in DOMAIN Sessions!Guard \cup {"none"}
          /\ token' = Nothing => refused' = "none"
          /\ Sessions!OfferedIsAccepted'
      <4>1. CASE actor # Nothing
                 /\ \E s \in DOMAIN Sessions!Pages : \E i \in Sessions!Pages[s] : Sessions!Use(i)
        <5>1. PICK s \in DOMAIN Sessions!Pages : \E i \in Sessions!Pages[s] : Sessions!Use(i)
          BY <4>1
        <5>2. PICK i \in Sessions!Pages[s] : Sessions!Use(i)
          BY <5>1
        <5>3. token # Nothing /\ token' = token
          BY <4>1, <5>2 DEF SessionsInv, Sessions!TypeOK, Sessions!Use
        <5> QED BY <4>1, <5>2, <5>3, RequestPasses
      <4>2. CASE Sessions!SignIn \/ Sessions!SignOut \/ Sessions!Changed \/ Sessions!Refresh
        <5>1. refused' = "none"
          BY <4>2 DEF SessionsInv, Sessions!SignIn, Sessions!SignOut, Sessions!Changed, Sessions!Refresh
        <5> QED BY <5>1 DEF Sessions!OfferedIsAccepted
      <4> QED BY <2>2, <4>1, <4>2 DEF Sessions!Next
    <3> QED BY <2>2, <3>1, WhoIsSignedIn DEF SessionsInv, Sessions!TypeOK
  <2> QED BY <2>1, <2>2
<1>3. SessionsInv => Sessions!TypeOK /\ Sessions!OfferedIsAccepted
  BY DEF SessionsInv
<1> QED BY <1>1, <1>2, <1>3, PTL DEF Sessions!Spec

-----------------------------------------------------------------------------
(* The instance of all five: a behaviour of MCDelivery is one of every component, with stutters. *)

(* The subscript of MCDelivery's specification. *)
AllVars == <<focus, wizards, letters, senders, sessions, vars>>

(* Every step is one of the wizards, or leaves them alone. *)
LEMMA WizardsRun == SpecAll => Wizards!Spec
<1>1. InitAll => Wizards!Init BY DEF InitAll
<1>2. [NextOne]_AllVars => [Wizards!Next]_(Wizards!vars)
  BY DEF NextOne, AllVars, wizards, letters, senders, sessions, Wizards!vars
<1> QED BY <1>1, <1>2, PTL DEF SpecAll, AllVars, Wizards!Spec

(* Every step is one of the mail, or leaves it alone. *)
LEMMA LettersRun == SpecAll => Letters!Spec
<1>1. InitAll => Letters!Init BY DEF InitAll
<1>2. [NextOne]_AllVars => [Letters!Next]_(Letters!vars)
  BY DEF NextOne, AllVars, wizards, letters, senders, sessions, Letters!vars
<1> QED BY <1>1, <1>2, PTL DEF SpecAll, AllVars, Letters!Spec

(* Every step is one of the e-mail configuration, or leaves it alone. *)
LEMMA SendersRun == SpecAll => Senders!Spec
<1>1. InitAll => Senders!Init BY DEF InitAll
<1>2. [NextOne]_AllVars => [Senders!Next]_(Senders!vars)
  BY DEF NextOne, AllVars, wizards, letters, senders, sessions, Senders!vars
<1> QED BY <1>1, <1>2, PTL DEF SpecAll, AllVars, Senders!Spec

(* Every step is one of a session, or leaves it alone. *)
LEMMA SessionsRun == SpecAll => Sessions!Spec
<1>1. InitAll => Sessions!Init BY DEF InitAll
<1>2. [NextOne]_AllVars => [Sessions!Next]_(Sessions!vars)
  BY DEF NextOne, AllVars, wizards, letters, senders, sessions, Sessions!vars
<1> QED BY <1>1, <1>2, PTL DEF SpecAll, AllVars, Sessions!Spec

(* Every step is one of the browser, or leaves it alone. *)
LEMMA BrowserRun == SpecAll => Spec
<1>1. InitAll => Init BY DEF InitAll
<1>2. [NextOne]_AllVars => [Next]_vars
  BY DEF NextOne, AllVars, vars
<1> QED BY <1>1, <1>2, PTL DEF SpecAll, AllVars, Spec

(* Every component keeps its types (the wizard's payments, mail and its
   configuration, the query cache, tokens). *)
THEOREM DeliveryTypesCorrect == SpecAll => []TypesOK
<1>1. Wizards!TypeOK /\ Letters!TypeOK /\ Senders!TypeOK /\ TypeOK /\ Sessions!TypeOK => TypesOK
  BY DEF TypesOK
<1> QED BY <1>1, WizardsRun, LettersRun, SendersRun, BrowserRun, SessionsRun,
           WizardsCorrect, LettersCorrect, SendersCorrect, BrowserCorrect, SessionsCorrect, PTL

(* Who has paid has the booking: reports that are late, repeated or out of order, and gateways that are
   saved meanwhile, take it from nobody, but for the excuses that PaidIsBooked names (payment.service.ts). *)
THEOREM PaymentsAreBooked == SpecAll => []PaidIsBooked
BY WizardsRun, WizardsCorrect, PTL DEF PaidIsBooked

(* Who has a booking is shown it, or is on the way to pay for it (booking-wizard.tsx). *)
THEOREM WizardsLeadOn == SpecAll => []WizardLeadsOn
BY WizardsRun, WizardsCorrect, PTL DEF WizardLeadsOn

(* No mail is sent twice unless its worker died, stalled or could not write its log, and what is logged
   as sent was sent (email.service.ts, queue.ts). *)
THEOREM MailsArriveOnce == SpecAll => []MailArrivesOnce
BY LettersRun, LettersCorrect, PTL DEF MailArrivesOnce

(* No reminder of a booking that was cancelled before the run (reminder.worker.ts). *)
THEOREM RemindersAreOfTheLiving == SpecAll => []RemindsTheLiving
BY LettersRun, LettersCorrect, PTL DEF RemindsTheLiving

(* A verified sender is the one whose record was found (email-config.service.ts). *)
THEOREM SendersAreProven == SpecAll => []VerifiedIsProven
BY SendersRun, SendersCorrect, PTL DEF VerifiedIsProven

(* A page shows its user's own changes, but for the refreshes listed in Overlooked: no order of fetches,
   answers, polls and changes hides them (hooks of apps/web, lib/query-client.ts). *)
THEOREM OwnChangesAreShown == SpecAll => []OwnChangeShown
BY BrowserRun, BrowserCorrect, PTL

(* What a page offers the API allows, as long as role and plan are those of the sign-in, but for the
   refusals listed in KnownRefusals and for a mode of mail that was saved before a downgrade (rbac.ts,
   auth.store.ts, the routes of apps/api). *)
THEOREM OffersAreAccepted == SpecAll => []OfferedIsAccepted
BY SessionsRun, SessionsCorrect, PTL DEF OfferedIsAccepted
=============================================================================
