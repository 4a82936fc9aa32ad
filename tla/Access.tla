------------------------------- MODULE Access -------------------------------
(***************************************************************************)
(* Whether the API accepts what the pages offer.  A member's role and the  *)
(* company's plan are written into the access token; the web keeps what it *)
(* read from the first token in its store (auth.store.ts), decides by it   *)
(* what to offer, and never reads a later token.  The API believes the     *)
(* token of the request (rbac.ts).                                         *)
(***************************************************************************)
EXTENDS WebPages

CONSTANT Nobody

VARIABLES
  member,   \* the user's role, and the tier of the company's plan, in the database
  token,    \* what the access token says of them
  actor,    \* what the web's store says of them
  refused,  \* what the last request of a page asked for, if it was not allowed
  saved     \* the company's own modes of sending mail that were saved so far

vars == <<member, token, actor, refused, saved>>

Members == [role : {"receptionist", "location_manager", "owner"}, tier : DOMAIN Rank]
Admins  == [role : {"platform_support", "super_admin"}, tier : {"basic"}]
Actors  == Members \cup Admins
Pages   == IF actor \in Members THEN Staff ELSE Admin
OwnModes  == {"mailSubdomain", "mailOwn"}     \* MODE_MIN_TIER

TypeOK ==
  /\ member \in Actors
  /\ token \in Actors \cup {Nobody} /\ actor \in Actors \cup {Nobody}
  /\ (token = Nobody) = (actor = Nobody)
  /\ actor # Nobody => (actor \in Members) = (token \in Members)
  /\ refused \in DOMAIN Guard \cup {"none"}
  /\ saved \subseteq OwnModes

Init ==
  /\ member \in Actors
  /\ token = Nobody /\ actor = Nobody
  /\ refused = "none"
  /\ saved = {}

\* setSession: the only place where the store learns who is signed in.
SignIn ==
  /\ token = Nobody
  /\ token' = member /\ actor' = member
  /\ UNCHANGED <<member, refused, saved>>

SignOut ==
  /\ token # Nobody
  /\ token' = Nobody /\ actor' = Nobody /\ refused' = "none"
  /\ UNCHANGED <<member, saved>>

\* updateMember, or an upgrade, a downgrade, a setSubscription: in a session of any page.
\* A downgrade leaves the company's configuration as it is.
Changed ==
  /\ \E a \in Actors : (a \in Members) = (member \in Members) /\ member' = a
  /\ refused' = "none"
  /\ UNCHANGED <<token, actor, saved>>

\* refreshVenueToken, after a 401; administrators have no refresh token.
Refresh ==
  /\ token \in Members
  /\ token' = member /\ refused' = "none"
  /\ UNCHANGED <<member, actor, saved>>

\* The form of the mail settings disables the modes that the plan does not include, but
\* starts with the one that is stored, or was when a form that is still open was read.
Preselected(item) == item.op \in saved /\ item.by \subseteq Roles[actor.role]

Use(item) ==
  /\ Offered(item, actor) \/ Preselected(item)
  /\ refused' = IF Allows(Guard[item.op], token) THEN "none" ELSE item.op
  /\ \/ refused' = "none" /\ item.op \in OwnModes /\ saved' = saved \cup {item.op}
     \/ UNCHANGED saved
  /\ UNCHANGED <<member, token, actor>>

Next ==
  \/ SignIn \/ SignOut \/ Changed \/ Refresh
  \/ actor # Nobody /\ \E s \in DOMAIN Pages : \E i \in Pages[s] : Use(i)

Spec == Init /\ [][Next]_vars
-----------------------------------------------------------------------------
\* The banner asks for the subscription on everybody's pages, the revenue tab is
\* shown on every plan, two forms are shown to every administrator.
KnownRefusals ==
  {"receptionist", "location_manager"} \X {"subscription"}
    \cup {"owner"} \X {"revenue", "export"}
    \cup {"platform_support"} \X {"setSubscription", "adminMarkPaid"}

\* What a page offers the API allows, as long as the role and the plan are those of
\* the sign-in; but for the refusals above, and for a mode of sending mail that was
\* saved on a higher plan: the settings keep offering it after a downgrade.
OfferedIsAccepted ==
  \/ refused = "none" \/ token # actor
  \/ <<actor.role, refused>> \in KnownRefusals \/ refused \in saved
=============================================================================
