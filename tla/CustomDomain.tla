--------------------------- MODULE CustomDomain ---------------------------
(***************************************************************************)
(* One custom domain name: domain.service.ts, the Redis key                *)
(* domain:verify:<name>, the list of domains at the hosting service        *)
(* (lib/vercel-domains.ts) and the domain-ssl-check jobs.  A row's id also *)
(* names the token that its add drew.  Hands are the requests under way,   *)
(* of the companies that claim the name; every await is a step.            *)
(***************************************************************************)
EXTENDS Naturals

CONSTANTS Hands, Ids, None,
          Attempts   \* of a domain-ssl-check job

VARIABLES
  row,       \* the CompanyDomain with this name: its id
  verified, ssl,   \* its is_verified and ssl_provisioned
  token,     \* the Redis key: the row whose add drew the value
  dns,       \* the TXT record that is published
  attached,  \* the hosting service has the domain
  issued,    \* ... and its certificate
  jobs,      \* the queue: [row, left, ready]
  claim,     \* the requests under way: [pc, row, saw]
  \* history
  proof,     \* the row was verified by its own record
  muddled,   \* the key was set by the add of a row that was being removed, or gone
  stray,     \* the name was attached after its removal, or detaching failed
  lost       \* a step that certificates depend on died, failed or came too late

domainVars == <<row, verified, ssl, token, dns, attached, issued, jobs, claim,
                proof, muddled, stray, lost>>
record  == <<row, verified, ssl, proof>>
history == <<muddled, stray, lost>>

Idle == [pc |-> "idle", row |-> None, saw |-> None]

TypeOK ==
  /\ {row, token, dns} \subseteq Ids \cup {None}
  /\ {verified, ssl, proof, attached, issued, muddled, stray, lost} \subseteq BOOLEAN
  /\ ssl => verified
  /\ verified => row # None
  /\ jobs \subseteq [row : Ids, left : 1 .. Attempts, ready : BOOLEAN]
  /\ claim \in [Hands -> [pc : {"idle", "token", "get", "dns", "mark", "attach", "enqueue",
                                "detach", "forget", "delete"},
                          row : Ids \cup {None}, saw : Ids \cup {None}]]

Init ==
  /\ row = None /\ verified = FALSE /\ ssl = FALSE /\ proof = TRUE
  /\ token = None /\ dns = None
  /\ attached = FALSE /\ issued = FALSE
  /\ jobs = {}
  /\ claim = [h \in Hands |-> Idle]
  /\ muddled = FALSE /\ stray = FALSE /\ lost = FALSE

At(h, pc) == claim[h].pc = pc
Mine(h)   == claim[h].row
To(h, pc) == claim' = [claim EXCEPT ![h].pc = pc]
Ends(h)   == claim' = [claim EXCEPT ![h] = Idle]
Fresh     == Ids \ ({row, token, dns} \cup {Mine(h) : h \in Hands} \cup {j.row : j \in jobs})
Removing  == \E h \in Hands : claim[h].pc \in {"forget", "delete"} /\ Mine(h) = row

-----------------------------------------------------------------------------
\* addCustomDomain.  The unique index decides between two adds.
AddDomain(h) ==
  /\ At(h, "idle") /\ row = None
  /\ \E new \in Fresh :
       /\ row' = new /\ verified' = FALSE /\ ssl' = FALSE /\ proof' = TRUE
       /\ claim' = [claim EXCEPT ![h] = [Idle EXCEPT !.pc = "token", !.row = new]]
  /\ UNCHANGED <<token, dns, attached, issued, jobs, history>>

SetToken(h) ==
  /\ At(h, "token")
  /\ token' = Mine(h)
  /\ muddled' = \/ row # Mine(h) \/ Removing
                \/ muddled /\ (verified \/ \E g \in Hands \ {h} : ~At(g, "idle"))
  /\ Ends(h)
  /\ UNCHANGED <<record, dns, attached, issued, jobs, stray, lost>>

\* verifyDomain, for a row that is not verified yet.
VerifyDomain(h) ==
  /\ At(h, "idle") /\ row # None /\ ~verified
  /\ claim' = [claim EXCEPT ![h] = [Idle EXCEPT !.pc = "get", !.row = row]]
  /\ UNCHANGED <<record, token, dns, attached, issued, jobs, history>>

GetToken(h) ==
  /\ At(h, "get")
  /\ IF token = None THEN Ends(h)
     ELSE claim' = [claim EXCEPT ![h].pc = "dns", ![h].saw = token]
  /\ UNCHANGED <<record, token, dns, attached, issued, jobs, history>>

\* Mutant: any platform-verify record will do (DomainIsProven).
ResolveAnyTxt(h) ==
  /\ At(h, "dns")
  /\ IF dns # None THEN claim' = [claim EXCEPT ![h].pc = "mark", ![h].saw = dns] ELSE Ends(h)
  /\ UNCHANGED <<record, token, dns, attached, issued, jobs, history>>

ResolveTxt(h) ==
  /\ At(h, "dns")
  /\ IF dns = claim[h].saw THEN To(h, "mark") ELSE Ends(h)
  /\ UNCHANGED <<record, token, dns, attached, issued, jobs, history>>

\* By id: of a row that is gone nothing is written, and the request fails.
MarkVerified(h) ==
  /\ At(h, "mark")
  /\ IF row = Mine(h)
     THEN verified' = TRUE /\ proof' = (claim[h].saw = row) /\ To(h, "attach")
     ELSE UNCHANGED <<verified, proof>> /\ Ends(h)
  /\ UNCHANGED <<row, ssl, token, dns, attached, issued, jobs, history>>

\* addDomainToVercel.  A failure is only logged.
AttachDomain(h) ==
  /\ At(h, "attach")
  /\ \/ attached' = TRUE /\ stray' = (stray \/ row # Mine(h) \/ Removing) /\ UNCHANGED lost
     \/ lost' = TRUE /\ UNCHANGED <<attached, stray>>
  /\ To(h, "enqueue")
  /\ UNCHANGED <<record, token, dns, issued, jobs, muddled>>

\* Mutant: the job is not enqueued for a name that is attached already (CertificateIsAwaited).
EnqueueOnce(h) ==
  /\ At(h, "enqueue")
  /\ jobs' = IF issued THEN jobs ELSE jobs \cup {[row |-> Mine(h), left |-> Attempts, ready |-> FALSE]}
  /\ Ends(h)
  /\ UNCHANGED <<record, token, dns, attached, issued, history>>

EnqueueCheck(h) ==
  /\ At(h, "enqueue")
  /\ jobs' = jobs \cup {[row |-> Mine(h), left |-> Attempts, ready |-> FALSE]}
  /\ Ends(h)
  /\ UNCHANGED <<record, token, dns, attached, issued, history>>

\* removeDomain: the hosting service, the key, the row.
RemoveDomain(h) ==
  /\ At(h, "idle") /\ row # None
  /\ claim' = [claim EXCEPT ![h] = [Idle EXCEPT !.pc = "detach", !.row = row]]
  /\ UNCHANGED <<record, token, dns, attached, issued, jobs, history>>

DetachDomain(h) ==
  /\ At(h, "detach")
  /\ \/ attached' = FALSE /\ issued' = FALSE /\ stray' = FALSE
     \/ stray' = TRUE /\ UNCHANGED <<attached, issued>>      \* only logged
  /\ lost' = TRUE
  /\ To(h, "forget")
  /\ UNCHANGED <<record, token, dns, jobs, muddled>>

ForgetToken(h) ==
  /\ At(h, "forget")
  /\ token' = None
  /\ To(h, "delete")
  /\ UNCHANGED <<record, dns, attached, issued, jobs, history>>

DeleteRow(h) ==
  /\ At(h, "delete")
  /\ IF row = Mine(h)
     THEN row' = None /\ verified' = FALSE /\ ssl' = FALSE /\ proof' = TRUE /\ lost' = FALSE
     ELSE UNCHANGED <<record, lost>>
  /\ Ends(h)
  /\ UNCHANGED <<token, dns, attached, issued, jobs, muddled, stray>>

\* The API process dies, or Redis or the database fails the request.
RequestDies(h) ==
  /\ ~At(h, "idle")
  /\ lost' = (lost \/ claim[h].pc \in {"attach", "enqueue"})
  /\ Ends(h)
  /\ UNCHANGED <<record, token, dns, attached, issued, jobs, muddled, stray>>

-----------------------------------------------------------------------------
\* domainSslWorker: ask the hosting service, then update by id.  A job that
\* throws is tried again, until its attempts are used up.
Fails(j) ==
  /\ jobs' = (jobs \ {j}) \cup
             {k \in {[j EXCEPT !.left = @ - 1, !.ready = FALSE]} : k.left > 0}
  /\ lost' = (lost \/ (j.left = 1 /\ j.row = row))

CheckCertificate(j) ==
  /\ \A k \in jobs : ~k.ready          \* one worker, one job at a time
  /\ IF attached /\ issued
     THEN jobs' = (jobs \ {j}) \cup {[j EXCEPT !.ready = TRUE]} /\ UNCHANGED lost
     ELSE Fails(j)
  /\ UNCHANGED <<record, token, dns, attached, issued, claim, muddled, stray>>

ProvisionSsl(j) ==
  /\ j.ready
  /\ IF j.row = row THEN ssl' = TRUE /\ jobs' = jobs \ {j} /\ UNCHANGED lost
     ELSE UNCHANGED ssl /\ Fails(j)
  /\ UNCHANGED <<row, verified, proof, token, dns, attached, issued, claim, muddled, stray>>

\* The company publishes the record an add has shown it.
PublishTxt ==
  /\ dns' \in ({row, token} \cup {Mine(h) : h \in Hands}) \ {dns}
  /\ UNCHANGED <<record, token, attached, issued, jobs, claim, history>>

IssueCertificate ==
  /\ attached /\ ~issued /\ issued' = TRUE
  /\ UNCHANGED <<record, token, dns, attached, jobs, claim, history>>

TokenExpires ==
  /\ token # None /\ token' = None
  /\ UNCHANGED <<record, dns, attached, issued, jobs, claim, history>>

Next ==
  \/ \E h \in Hands :
       \/ AddDomain(h) \/ SetToken(h)
       \/ VerifyDomain(h) \/ GetToken(h) \/ ResolveTxt(h) \/ MarkVerified(h)
       \/ AttachDomain(h) \/ EnqueueCheck(h)
       \/ RemoveDomain(h) \/ DetachDomain(h) \/ ForgetToken(h) \/ DeleteRow(h)
       \/ RequestDies(h)
  \/ \E j \in jobs : CheckCertificate(j) \/ ProvisionSsl(j)
  \/ PublishTxt \/ IssueCertificate \/ TokenExpires

Spec == Init /\ [][Next]_domainVars
-----------------------------------------------------------------------------
(***************************************************************************)
(* Properties.                                                             *)
(***************************************************************************)

\* A row is verified by the record its own add has shown, not by one that was
\* published for an earlier claim of the same name; unless the add of a row that
\* was already removed set the key late.
ProofIsOwn == verified => proof \/ muddled

\* The hosting service serves the name only for a row that is verified, unless a
\* verification crossed a removal, or detaching failed unnoticed.
AttachedIsVerified == attached => stray \/ (row # None /\ verified)

\* A row that claims a certificate has one, unless its removal stopped half-way:
\* old jobs, for rows that are gone, do not speak for their successors.
LiveIsAttached == ssl => lost \/ (attached /\ issued)

\* What a domain's row says of it is true.
DomainIsProven == ProofIsOwn /\ AttachedIsVerified /\ LiveIsAttached

\* While a verified name waits for its certificate, somebody still works on it,
\* unless a step that only verifyDomain starts died or failed, or the certificate
\* came after the job's last attempt: verifyDomain refuses a verified row, so that
\* nothing but removing and adding the name again would take it up.
CertificateIsAwaited ==
  verified /\ ~ssl /\ ~lost =>
    \/ \E h \in Hands : Mine(h) = row /\ claim[h].pc \in {"attach", "enqueue"}
    \/ attached /\ \E j \in jobs : j.row = row
=============================================================================
