----------------------------- MODULE Accounts -----------------------------
(***************************************************************************)
(* One e-mail address: its user, its membership of one company, and the    *)
(* links that set its password.  registerVenueOwner, forgotPassword and    *)
(* resetPassword of auth.service.ts; inviteMember, updateMember and        *)
(* removeMember of company.service.ts.  Every await is a step; what a      *)
(* transaction writes is one step.  A session is module Sessions' affair.  *)
(***************************************************************************)
CONSTANTS Hands,
          Links,    \* tokens of the keys reset:<token>
          Roles, Places,
          None

VARIABLES
  secret,   \* None: no user has the address; else whose password it is
  owner,    \* the address registered a company of its own
  member,   \* the CompanyMember: [status, role, places]
  links,    \* the Redis keys that live
  task,     \* the requests under way
  \* history
  told,     \* a mail with a link to set the password is queued
  overlap,  \* two invitations, or an invitation that died, were under way
  asked,    \* the role that was last asked for
  crossed,  \* the role was changed while an update that had read it was under way
  spent,    \* links that have set a password, and those that did so again
  loose     \* links used by two resets at once, or by one that died

accountVars == <<secret, owner, member, links, task, told, overlap, asked, crossed, spent, loose>>

Nobody == [status |-> "none", role |-> None, places |-> {}]
Idle   == [pc |-> "idle", role |-> None, places |-> None, new |-> FALSE, link |-> None]

Inviting  == {"create", "member", "insert", "update", "link", "mail"}
Resetting == {"write", "delete"}

\* A link sets a password once, unless two resets used it at the same time or one
\* died before it deleted the key (the last conjunct).
TypeOK ==
  /\ secret \in {None, "random", "chosen"}
  /\ {owner, told, overlap, crossed} \subseteq BOOLEAN
  /\ member \in [status : {"none", "invited", "inactive"}, role : Roles \cup {None}, places : SUBSET Places]
  /\ (member.status = "none") = (member = Nobody)
  /\ member # Nobody => secret # None /\ member.role \in Roles
  /\ owner => secret = "chosen"
  /\ links \subseteq Links /\ loose \subseteq Links
  /\ task \in [Hands -> [pc : {"idle", "register", "change", "remove", "send"} \cup Inviting \cup Resetting,
                         role : Roles \cup {None}, places : {None} \cup SUBSET Places,
                         new : BOOLEAN, link : Links \cup {None}]]
  /\ asked \in Roles \cup {None}
  /\ spent \in [once : SUBSET Links, again : SUBSET Links]
  /\ spent.again \subseteq loose

Init ==
  /\ secret = None /\ owner = FALSE /\ member = Nobody
  /\ links = {}
  /\ task = [h \in Hands |-> Idle]
  /\ told = FALSE /\ overlap = FALSE
  /\ asked = None /\ crossed = FALSE
  /\ spent = [once |-> {}, again |-> {}] /\ loose = {}

At(h, pc)  == task[h].pc = pc
To(h, pc)  == task' = [task EXCEPT ![h].pc = pc]
Ends(h)    == task' = [task EXCEPT ![h] = Idle]
invites    == <<told, overlap>>
roles      == <<asked, crossed>>
resets     == <<spent, loose>>
\* Another update is about to write back the role it has read.
KeepsRole(h) == \E g \in Hands \ {h} : At(g, "change") /\ ~task[g].new
Unused     == Links \ (links \cup {task[h].link : h \in Hands} \cup spent.once \cup loose)

-----------------------------------------------------------------------------
\* registerVenueOwner: look for the address, hash, then company, user, roles and
\* membership in one transaction, which the unique index on the address can undo.
Register(h) ==
  \/ /\ At(h, "idle") /\ secret = None
     /\ To(h, "register")
     /\ UNCHANGED <<secret, owner>>
  \/ /\ At(h, "register")
     /\ secret' = IF secret = None THEN "chosen" ELSE secret
     /\ owner'  = (owner \/ secret = None)
     /\ Ends(h)

RegisterStep(h) == Register(h) /\ UNCHANGED <<member, links, invites, roles, resets>>

\* inviteMember: the look-up of the user, and the creation of one, bcrypt.hash
\* later and outside the transaction; the unique index refuses a second one.
Invite(h) ==
  /\ At(h, "idle")
  /\ \E r \in Roles, ps \in SUBSET Places :
       task' = [task EXCEPT ![h] = [pc |-> IF secret = None THEN "create" ELSE "member", role |-> r,
                                    places |-> ps, new |-> secret = None, link |-> None]]
  /\ overlap' = (overlap \/ \E g \in Hands : task[g].pc \in Inviting)
  /\ UNCHANGED <<secret, owner, member, links, told, roles, resets>>

\* Mutant: whether the user is new is asked once it has been made (MemberIsAsAsked).
CreateUserFirst(h) ==
  /\ At(h, "create")
  /\ IF secret = None
     THEN secret' = "random" /\ task' = [task EXCEPT ![h].pc = "member", ![h].new = FALSE]
     ELSE Ends(h) /\ UNCHANGED secret
  /\ UNCHANGED <<owner, member, links, invites, roles, resets>>

CreateUser(h) ==
  /\ At(h, "create")
  /\ IF secret = None THEN secret' = "random" /\ To(h, "member")
                      ELSE Ends(h) /\ UNCHANGED secret
  /\ UNCHANGED <<owner, member, links, invites, roles, resets>>

FindMember(h) ==
  /\ At(h, "member")
  /\ CASE member.status = "none"     -> To(h, "insert")
       [] member.status = "inactive" -> To(h, "update")
       [] OTHER                      -> Ends(h)
  /\ UNCHANGED <<secret, owner, member, links, invites, roles, resets>>

\* The transaction.  A second row for the same user is refused by the unique
\* index; an inactive one is updated whatever it has become meanwhile.
CommitMember(h) ==
  /\ At(h, "insert") \/ At(h, "update")
  /\ IF At(h, "insert") /\ member # Nobody
     THEN Ends(h) /\ UNCHANGED <<member, roles>>
     ELSE /\ member' = [status |-> "invited", role |-> task[h].role, places |-> task[h].places]
          /\ To(h, IF task[h].new THEN "link" ELSE "mail")
          /\ asked' = task[h].role
          /\ crossed' = KeepsRole(h)
  /\ UNCHANGED <<secret, owner, links, invites, resets>>

SetLink(h) ==
  /\ At(h, "link")
  /\ \E l \in Unused : links' = links \cup {l} /\ task' = [task EXCEPT ![h].pc = "mail", ![h].link = l]
  /\ UNCHANGED <<secret, owner, member, invites, roles, resets>>

QueueInvite(h) ==
  /\ At(h, "mail")
  /\ told' = (told \/ task[h].link # None)
  /\ Ends(h)
  /\ UNCHANGED <<secret, owner, member, links, overlap, roles, resets>>

-----------------------------------------------------------------------------
\* updateMember: the row is read, and without a role in the request its role is
\* written back.  Locations are written only when the request has some.
UpdateMember(h) ==
  /\ At(h, "idle") /\ member # Nobody
  /\ \E r \in Roles \cup {None}, ps \in {None} \cup SUBSET Places :
       task' = [task EXCEPT ![h] = [Idle EXCEPT !.pc = "change", !.places = ps,
                                     !.role = IF r = None THEN member.role ELSE r, !.new = (r # None)]]
  /\ UNCHANGED <<secret, owner, member, links, invites, roles, resets>>

CommitUpdate(h) ==
  /\ At(h, "change")
  /\ member' = [member EXCEPT !.role = task[h].role,
                              !.places = IF task[h].places = None THEN @ ELSE task[h].places]
  /\ IF task[h].new
     THEN /\ asked' = task[h].role
          /\ crossed' = KeepsRole(h)
     ELSE UNCHANGED roles
  /\ Ends(h)
  /\ UNCHANGED <<secret, owner, links, invites, resets>>

RemoveMember(h) ==
  \/ /\ At(h, "idle") /\ member # Nobody
     /\ To(h, "remove")
     /\ UNCHANGED <<secret, owner, member, links, invites, roles, resets>>
  \/ /\ At(h, "remove")
     /\ member' = [member EXCEPT !.status = "inactive"]
     /\ Ends(h)
     /\ UNCHANGED <<secret, owner, links, invites, roles, resets>>

-----------------------------------------------------------------------------
ForgotPassword(h) ==
  \/ /\ At(h, "idle") /\ secret # None
     /\ To(h, "send")
     /\ UNCHANGED <<secret, owner, member, links, invites, roles, resets>>
  \/ /\ At(h, "send")
     /\ \E l \in Unused : links' = links \cup {l}
     /\ Ends(h)
     /\ UNCHANGED <<secret, owner, member, invites, roles, resets>>

\* resetPassword: GET, bcrypt, update, DEL.
GetLink(h) ==
  /\ At(h, "idle")
  /\ \E l \in links :
       /\ task' = [task EXCEPT ![h] = [Idle EXCEPT !.pc = "write", !.link = l]]
       /\ loose' = loose \cup {k \in {l} : \E g \in Hands : task[g].pc \in Resetting /\ task[g].link = k}
  /\ UNCHANGED <<secret, owner, member, links, invites, roles, spent>>

WritePassword(h) ==
  /\ At(h, "write")
  /\ secret' = "chosen"
  /\ spent' = [once  |-> spent.once \cup {task[h].link},
               again |-> spent.again \cup ({task[h].link} \cap spent.once)]
  /\ To(h, "delete")
  /\ UNCHANGED <<owner, member, links, invites, roles, loose>>

DeleteLink(h) ==
  /\ At(h, "delete")
  /\ links' = links \ {task[h].link}
  /\ Ends(h)
  /\ UNCHANGED <<secret, owner, member, invites, roles, resets>>

LinkExpires ==
  /\ \E l \in links : links' = links \ {l}
  /\ UNCHANGED <<secret, owner, member, task, invites, roles, resets>>

\* The API process dies, or the database, Redis or the queue fails the request.
RequestDies(h) ==
  /\ ~At(h, "idle")
  /\ overlap' = (overlap \/ task[h].pc \in Inviting)
  /\ loose' = IF At(h, "delete") THEN loose \cup {task[h].link} ELSE loose
  /\ Ends(h)
  /\ UNCHANGED <<secret, owner, member, links, told, roles, spent>>

Next ==
  \/ \E h \in Hands :
       \/ RegisterStep(h)
       \/ Invite(h) \/ CreateUser(h) \/ FindMember(h) \/ CommitMember(h)
       \/ SetLink(h) \/ QueueInvite(h)
       \/ UpdateMember(h) \/ CommitUpdate(h) \/ RemoveMember(h)
       \/ ForgotPassword(h) \/ GetLink(h) \/ WritePassword(h) \/ DeleteLink(h)
       \/ RequestDies(h)
  \/ LinkExpires

Spec == Init /\ [][Next]_accountVars
-----------------------------------------------------------------------------
(***************************************************************************)
(* Properties.                                                             *)
(***************************************************************************)

\* Whoever is invited and has no password of their own has been sent a link to set
\* one, or is about to be; unless two invitations overlapped (the one that made
\* the user may find the other's membership and stop) or one died on the way: a
\* later one finds the user and sends no link.
InviteReaches ==
  member.status = "invited" /\ secret = "random" =>
    told \/ overlap \/ \E h \in Hands : task[h].pc \in {"link", "mail"} /\ task[h].new

\* The role of a member is the one last asked for: a request that only assigns
\* locations does not bring back an older one, unless the two crossed.
RoleIsAsked == member # Nobody /\ ~crossed => member.role = asked

\* What an invitation promises short of signing in: a link to set a password, and
\* the role the company asked for.  Sign-in is refused to every member here: it takes
\* the status "active" (loadActiveMembership), which registerVenueOwner alone writes,
\* for the owner of a new company.
MemberIsAsAsked == InviteReaches /\ RoleIsAsked
=============================================================================
