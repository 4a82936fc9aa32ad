----------------------------- MODULE MailConfig -----------------------------
(***************************************************************************)
(* A company's e-mail configuration (email-config.service.ts), edited on   *)
(* several screens (settings/email/page.tsx): the sending mode and         *)
(* address, the selector of the DKIM record, and the flags that say the    *)
(* records were found in the DNS.  Each function reads the row first and   *)
(* writes later; verifyEmailConfigDns asks the DNS in between.  The keys   *)
(* themselves are left out: no check compares them.                        *)
(***************************************************************************)
CONSTANTS Screens, Domains, Selectors, Absent

VARIABLES
  row,     \* CompanyEmailConfig, or Absent
  dns,     \* the names under which a DKIM record is published
  form,    \* the form of each screen, filled once when it is opened
  call,    \* the request of each screen: what it is and what it has read
  \* history
  proven,  \* the name the stored flag was looked up under
  raced    \* the flag was set, or kept, by a request that had not read the row it changed

vars == <<row, dns, form, call, proven, raced>>

Modes  == {"platform", "custom"}     \* custom_domain and custom_smtp send alike here
Names  == Domains \X Selectors
Filled == [mode : Modes, from : Domains \cup {Absent}, selector : Selectors \cup {Absent}]
Rows   == [mode : Modes, from : Domains \cup {Absent}, selector : Selectors \cup {Absent},
           verified : BOOLEAN]
Calls  == {"save", "verify", "generate"}
Quiet  == [kind |-> "none", read |-> Absent]

Of(r)      == [mode |-> r.mode, from |-> r.from, selector |-> r.selector]
NameOf(r)  == <<r.from, r.selector>>
Default    == [mode |-> "platform", from |-> Absent, selector |-> Absent]

TypeOK ==
  /\ row \in Rows \cup {Absent}
  /\ dns \subseteq Names /\ raced \in BOOLEAN
  /\ form \in [Screens -> Filled \cup {Absent}]
  /\ call \in [Screens -> [kind : Calls \cup {"none"}, read : Rows \cup {Absent}]]
  /\ proven \in Names \cup {Absent}
  /\ row # Absent /\ row.mode = "custom" => row.from # Absent

Init ==
  /\ row = Absent /\ dns = {}
  /\ form = [s \in Screens |-> Absent] /\ call = [s \in Screens |-> Quiet]
  /\ proven = Absent /\ raced = FALSE

-----------------------------------------------------------------------------
\* The page mounts its form with the configuration it got; a later refetch does not
\* change the fields.
OpenForm(s) ==
  /\ form[s] = Absent /\ call[s] = Quiet
  /\ form' = [form EXCEPT ![s] = IF row = Absent THEN Default ELSE Of(row)]
  /\ UNCHANGED <<row, dns, call, proven, raced>>

LeaveForm(s) ==
  /\ form[s] # Absent /\ call[s] = Quiet
  /\ form' = [form EXCEPT ![s] = Absent]
  /\ UNCHANGED <<row, dns, call, proven, raced>>

EditForm(s) ==
  /\ form[s] # Absent /\ call[s] = Quiet
  /\ \/ \E m \in Modes : form' = [form EXCEPT ![s].mode = m]
     \/ \E d \in Domains \cup {Absent} : form' = [form EXCEPT ![s].from = d]
     \/ \E k \in Selectors \cup {Absent} : form' = [form EXCEPT ![s].selector = k]
  /\ UNCHANGED <<row, dns, call, proven, raced>>

Reads(s, kind) == call' = [call EXCEPT ![s] = [kind |-> kind, read |-> row]]
Done(s)        == call' = [call EXCEPT ![s] = Quiet]
Writes(s, r)   == row' = r /\ Done(s)
Late(s)        == row # call[s].read

-----------------------------------------------------------------------------
(***************************************************************************)
(* updateEmailConfig: an address is required in the custom modes.          *)
(***************************************************************************)
SaveReads(s) ==
  /\ form[s] # Absent /\ call[s] = Quiet
  /\ form[s].mode = "custom" => form[s].from # Absent
  /\ Reads(s, "save")
  /\ UNCHANGED <<row, dns, form, proven, raced>>

Merged(f, verified) ==
  [mode |-> f.mode, from |-> f.from, selector |-> f.selector, verified |-> verified]

\* Mutant: a new selector keeps the flags (VerifiedIsProven).
SaveKeepsFlags(s) ==
  /\ call[s].kind = "save"
  /\ LET old == call[s].read
         same == old # Absent /\ old.mode = form[s].mode /\ old.from = form[s].from
     IN  /\ Writes(s, Merged(form[s], same /\ row # Absent /\ row.verified))
         /\ proven' = IF same THEN proven ELSE Absent
         /\ raced' = (same /\ (raced \/ Late(s)))
  /\ UNCHANGED <<dns, form>>

\* The flags are reset when what was read differs from the form.
SaveWrites(s) ==
  /\ call[s].kind = "save"
  /\ LET old  == call[s].read
         same == old # Absent /\ Of(old) = form[s]
     IN  /\ Writes(s, Merged(form[s], same /\ row # Absent /\ row.verified))
         /\ proven' = IF same THEN proven ELSE Absent
         /\ raced' = (same /\ (raced \/ Late(s)))
  /\ UNCHANGED <<dns, form>>

-----------------------------------------------------------------------------
(***************************************************************************)
(* verifyEmailConfigDns: offered once an address is on the form.           *)
(***************************************************************************)
VerifyReads(s) ==
  /\ form[s] # Absent /\ call[s] = Quiet
  /\ form[s].mode = "custom" /\ form[s].from # Absent
  /\ row # Absent
  /\ Reads(s, "verify")
  /\ UNCHANGED <<row, dns, form, proven, raced>>

\* hasTxtRecordStartingWith: some record "v=DKIM1", whatever its key.
Found(r) == NameOf(r) \in dns

\* The answer is written to whatever the row is by now.
VerifyWrites(s) ==
  /\ call[s].kind = "verify"
  /\ LET old == call[s].read IN
     IF old.mode = "platform"
     THEN Writes(s, [row EXCEPT !.verified = TRUE]) /\ proven' = Absent
     ELSE /\ Writes(s, [row EXCEPT !.verified = Found(old)])
          /\ proven' = IF Found(old) THEN NameOf(old) ELSE Absent
  /\ raced' = Late(s)
  /\ UNCHANGED <<dns, form>>

-----------------------------------------------------------------------------
(***************************************************************************)
(* generateDkimKeys: through the API only, no page offers it.  The record  *)
(* is then published by hand, at the name the answer showed.               *)
(***************************************************************************)
GenerateReads(s) ==
  /\ call[s] = Quiet
  /\ row # Absent /\ row.mode = "custom" /\ row.from # Absent
  /\ Reads(s, "generate")
  /\ UNCHANGED <<row, dns, form, proven, raced>>

\* The selector asked for, else the one that was read, else "default".
GenerateWrites(s) ==
  /\ call[s].kind = "generate"
  /\ \E k \in Selectors :
       Writes(s, [row EXCEPT !.selector = k, !.verified = FALSE])
  /\ proven' = Absent /\ raced' = FALSE
  /\ UNCHANGED <<dns, form>>

Publish ==
  /\ \E n \in Names : dns' = (dns \ {n}) \cup ({n} \ dns)
  /\ UNCHANGED <<row, form, call, proven, raced>>

CallFails(s) ==
  /\ call[s] # Quiet /\ Done(s)
  /\ UNCHANGED <<row, dns, form, proven, raced>>

Next ==
  \/ \E s \in Screens :
       \/ OpenForm(s) \/ LeaveForm(s) \/ EditForm(s) \/ CallFails(s)
       \/ SaveReads(s) \/ SaveWrites(s) \/ VerifyReads(s) \/ VerifyWrites(s)
       \/ GenerateReads(s) \/ GenerateWrites(s)
  \/ Publish

Spec == Init /\ [][Next]_vars
-----------------------------------------------------------------------------
\* In a custom mode the flag says that the record was found for the very address and
\* selector that are stored, unless a write had not read what it replaced.
VerifiedIsProven ==
  (row # Absent /\ row.mode = "custom" /\ row.verified) => proven = NameOf(row) \/ raced
=============================================================================
