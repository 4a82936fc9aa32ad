----------------------------- MODULE Sessions -----------------------------
(***************************************************************************)
(* The session of one member of staff: the API (auth.service.ts), the one  *)
(* Redis key refresh:<userId>, and the API calls of the tabs of the        *)
(* member's browsers (lib/api.ts, hooks/useAuth.ts).  A call takes the     *)
(* access token from its browser's storage; on 401 it refreshes once and   *)
(* repeats itself.  Every await is a step, so the calls of one browser, of *)
(* several browsers, and the owner's changes of the membership interleave. *)
(***************************************************************************)
CONSTANTS Browsers,
          Calls,     \* bounds the API calls at one time
          Tokens,    \* refresh tokens
          None

ASSUME NoneAssumption == None \notin Tokens \cup Browsers

VARIABLES
  standing, \* CompanyMember.status and Company.status as loadActiveMembership reads them
  key,      \* the Redis key refresh:<userId>
  store,    \* localStorage: the access token's state and the refresh token
  call,     \* the API calls under way
  \* history
  last,     \* the token of the latest sign-in nobody has signed out of
  crossed,  \* the latest sign-in or sign-out found a refresh in flight
  calm      \* nothing has happened since the first sign-in that may end it

vars == <<standing, key, store, call, last, crossed, calm>>

Access  == {"none", "live", "expired"}
Storage == [access : Access, refresh : Tokens \cup {None}]
Empty   == [access |-> "none", refresh |-> None]

\* A call: how far it is, its endpoint and browser, the access token it carries,
\* whether it is the repetition, and the refresh token it sent or got.
Idle == [pc |-> "idle", op |-> "data", at |-> None, access |-> "none",
         again |-> FALSE, token |-> None]

Checked  == {"load", "set"}                       \* between GET and SET of a refresh
WithToken == Checked \cup {"check", "fresh", "loginSet", "loginStore"}

TypeOK ==
  /\ standing \in {"active", "suspended", "removed"}
  /\ {key, last} \subseteq Tokens \cup {None}
  /\ store \in [Browsers -> Storage]
  /\ call \in [Calls -> [pc : {"idle", "sent", "expire", "settle"} \cup WithToken,
                       op : {"data", "login", "logout"},
                       at : Browsers \cup {None}, access : Access,
                       again : BOOLEAN, token : Tokens \cup {None}]]
  /\ \A c \in Calls : /\ call[c].pc # "idle" => call[c].at \in Browsers
                      /\ call[c].pc \in WithToken => call[c].token \in Tokens
  /\ {crossed, calm} \subseteq BOOLEAN

Init ==
  /\ standing = "active"
  /\ key = None /\ last = None
  /\ store = [b \in Browsers |-> Empty]
  /\ call = [c \in Calls |-> Idle]
  /\ crossed = FALSE /\ calm = TRUE

Stored(c) == store[call[c].at]
Goes(c, pc) == call' = [call EXCEPT ![c].pc = pc]
Ends(c)     == call' = [call EXCEPT ![c] = Idle]
Clears(c)   == store' = [store EXCEPT ![call[c].at] = Empty]
InFlight    == \E c \in Calls : call[c].pc \in Checked
InUse       == {key, last} \cup {store[b].refresh : b \in Browsers}
                           \cup {call[c].token : c \in Calls}
server == <<key, last, crossed>>

(***************************************************************************)
(* apiFetch.  A call for data is followed only when it meets a 401: with a *)
(* live access token, and when it is repeated, it changes nothing here.    *)
(***************************************************************************)
\* A sign-in is answered the same whether the token it carries is live or not.
Carried(b, op) == IF op = "login" /\ store[b].access = "live" THEN "expired"
                  ELSE store[b].access

Send(c, b, op) ==
  /\ call[c].pc = "idle"
  /\ \/ op = "data" /\ store[b].access = "expired"
     \/ op = "logout" /\ store[b].access # "none"
     \/ op = "login"
  /\ call' = [call EXCEPT ![c] = [Idle EXCEPT !.pc = "sent", !.op = op, !.at = b,
                                              !.access = Carried(b, op)]]
  /\ calm' = (calm /\ op # "logout")
  /\ UNCHANGED <<standing, server, store>>

\* Mutant: a missing refresh token is not noticed (TypeOK).
DeniedUnchecked(c) ==
  IF call[c].access # "none" /\ ~call[c].again
  THEN call' = [call EXCEPT ![c].pc = "check", ![c].token = Stored(c).refresh]
  ELSE IF call[c].op = "logout" THEN Goes(c, "settle") ELSE Ends(c)

\* Mutant: a call that finds another one refreshing gives the session up
\* (StaysSignedIn).
DeniedWhileRefreshing(c) ==
  IF call[c].access # "none" /\ ~call[c].again
  THEN call' = [call EXCEPT ![c].pc = IF Stored(c).refresh = None \/ InFlight THEN "expire" ELSE "check",
                            ![c].token = Stored(c).refresh]
  ELSE IF call[c].op = "logout" THEN Goes(c, "settle") ELSE Ends(c)

\* 401.  The first attempt of a call that carried a token goes on to
\* refreshAccessToken, any other fails; a sign-out is settled in any case.
Denied(c) ==
  IF call[c].access # "none" /\ ~call[c].again
  THEN call' = [call EXCEPT ![c].pc = IF Stored(c).refresh = None THEN "expire" ELSE "check",
                            ![c].token = Stored(c).refresh]
  ELSE IF call[c].op = "logout" THEN Goes(c, "settle") ELSE Ends(c)

DataDenied(c) ==
  /\ call[c].pc = "sent" /\ call[c].op = "data"
  /\ Denied(c)
  /\ UNCHANGED <<standing, server, store, calm>>

\* /auth/logout behind authMiddleware: redis.del.
Logout(c) ==
  /\ call[c].pc = "sent" /\ call[c].op = "logout"
  /\ IF call[c].access = "live"
     THEN /\ key' = None /\ last' = None /\ crossed' = InFlight
          /\ Goes(c, "settle")
     ELSE Denied(c) /\ UNCHANGED server
  /\ UNCHANGED <<standing, store, calm>>

\* onSettled of useAuth's logout.
Settle(c) ==
  /\ call[c].pc = "settle"
  /\ Clears(c) /\ Ends(c)
  /\ UNCHANGED <<standing, server, calm>>

(***************************************************************************)
(* loginVenueStaff: password and membership, then the key.                 *)
(***************************************************************************)
LoginLoad(c) ==
  /\ call[c].pc = "sent" /\ call[c].op = "login"
  /\ \/ Denied(c)                                   \* wrong password
     \/ standing = "removed" /\ Denied(c)
     \/ standing = "suspended" /\ Ends(c)             \* 402
     \/ /\ standing = "active"
        /\ \E new \in Tokens \ InUse :
             call' = [call EXCEPT ![c].pc = "loginSet", ![c].token = new]
  /\ UNCHANGED <<standing, server, store, calm>>

LoginSet(c) ==
  /\ call[c].pc = "loginSet"
  /\ key' = call[c].token /\ last' = call[c].token
  /\ crossed' = InFlight
  /\ calm' = (calm /\ last = None)
  /\ Goes(c, "loginStore")
  /\ UNCHANGED <<standing, store>>

LoginStore(c) ==
  /\ call[c].pc = "loginStore"
  /\ store' = [store EXCEPT ![call[c].at] = [access |-> "live", refresh |-> call[c].token]]
  /\ Ends(c)
  /\ UNCHANGED <<standing, server, calm>>

(***************************************************************************)
(* refreshAccessToken and refreshVenueToken.                               *)
(***************************************************************************)
\* Mutant: any session will do, not only the one of this token (SessionIsLatest).
RefreshCheckAny(c) ==
  /\ call[c].pc = "check"
  /\ Goes(c, IF key # None THEN "load" ELSE "expire")
  /\ UNCHANGED <<standing, server, store, calm>>

RefreshCheck(c) ==
  /\ call[c].pc = "check"
  /\ Goes(c, IF key = call[c].token THEN "load" ELSE "expire")
  /\ UNCHANGED <<standing, server, store, calm>>

\* Mutant: the membership is not loaded again (LosesAccess).
RefreshLoadTrusting(c) ==
  /\ call[c].pc = "load"
  /\ Goes(c, "set")
  /\ UNCHANGED <<standing, server, store, calm>>

RefreshLoad(c) ==
  /\ call[c].pc = "load"
  /\ Goes(c, IF standing = "active" THEN "set" ELSE "expire")
  /\ UNCHANGED <<standing, server, store, calm>>

\* Sliding expiration: the same token again.
RefreshSet(c) ==
  /\ call[c].pc = "set"
  /\ key' = call[c].token
  /\ Goes(c, "fresh")
  /\ UNCHANGED <<standing, last, crossed, store, calm>>

\* setAccessToken, and the call is sent again.
StoreAccess(c) ==
  /\ call[c].pc = "fresh"
  /\ store' = [store EXCEPT ![call[c].at].access = "live"]
  /\ IF call[c].op = "data" THEN Ends(c)
     ELSE call' = [call EXCEPT ![c] = [@ EXCEPT !.pc = "sent", !.access = "live",
                                                !.again = TRUE, !.token = None]]
  /\ UNCHANGED <<standing, server, calm>>

\* handleSessionExpired.
Expire(c) ==
  /\ call[c].pc = "expire"
  /\ Clears(c) /\ Ends(c)
  /\ UNCHANGED <<standing, server, calm>>

\* The request or its answer is lost, or the API process dies.  A refresh that
\* fails counts as refused; a sign-out goes on; other calls show an error.
NetworkFails(c) ==
  /\ call[c].pc \in WithToken \cup {"sent"}
  /\ \/ call[c].pc \in {"check", "load", "set", "fresh"} /\ Goes(c, "expire")
     \/ /\ call[c].pc \in {"sent", "loginSet", "loginStore"}
        /\ IF call[c].op = "logout" THEN Goes(c, "settle") ELSE Ends(c)
  /\ calm' = FALSE
  /\ UNCHANGED <<standing, server, store>>

\* 429: this address has used up its calls of the minute, 10 to /auth/refresh and
\* to /auth/login, 100 to the rest; other people may share it, so a limit may be
\* met at any call.  A refresh that meets it counts as refused.
Limited(c) ==
  /\ call[c].pc \in {"sent", "check"}
  /\ \/ call[c].pc = "check" /\ Goes(c, "expire") /\ calm' = FALSE
     \/ /\ call[c].pc = "sent" /\ UNCHANGED calm
        /\ IF call[c].op = "logout" THEN Goes(c, "settle") ELSE Ends(c)
  /\ UNCHANGED <<standing, server, store>>

(***************************************************************************)
(* The owner of the company, the subscription, and time.                   *)
(***************************************************************************)
\* removeMember.  Nothing makes a member active again: inviteMember sets
\* "invited", which signs in as little as "inactive".
RemoveMember ==
  /\ standing # "removed" /\ standing' = "removed"
  /\ calm' = FALSE
  /\ UNCHANGED <<server, store, call>>

\* By the nightly job, an administrator or a payment (module Subscriptions).
CompanyChanges ==
  /\ standing # "removed"
  /\ standing' = IF standing = "active" THEN "suspended" ELSE "active"
  /\ calm' = FALSE
  /\ UNCHANGED <<server, store, call>>

AccessExpires(b) ==
  /\ store[b].access = "live"
  /\ store' = [store EXCEPT ![b].access = "expired"]
  /\ UNCHANGED <<standing, server, call, calm>>

KeyExpires ==
  /\ key # None
  /\ key' = None /\ last' = None /\ crossed' = InFlight
  /\ calm' = FALSE
  /\ UNCHANGED <<standing, store, call>>

Handle(c) ==
  \/ DataDenied(c) \/ Logout(c) \/ Settle(c)
  \/ LoginLoad(c) \/ LoginSet(c) \/ LoginStore(c)
  \/ RefreshCheck(c) \/ RefreshLoad(c) \/ RefreshSet(c)
  \/ StoreAccess(c) \/ Expire(c)

Next ==
  \/ \E c \in Calls : \/ \E b \in Browsers, op \in {"data", "login", "logout"} : Send(c, b, op)
                      \/ Handle(c)
                      \/ NetworkFails(c) \/ Limited(c)
  \/ RemoveMember \/ CompanyChanges
  \/ \E b \in Browsers : AccessExpires(b)
  \/ KeyExpires

\* Access tokens grow old, and calls end.  Nothing is assumed of standing.
Fairness == /\ \A b \in Browsers : WF_vars(AccessExpires(b))
            /\ \A c \in Calls : WF_vars(Handle(c))

Spec == Init /\ [][Next]_vars /\ Fairness
-----------------------------------------------------------------------------
(***************************************************************************)
(* Properties.                                                             *)
(***************************************************************************)

\* The key names the session of the latest sign-in, and none after a sign-out,
\* whatever other browsers refresh: unless a refresh that had already compared
\* the key was in flight at that very moment (its SET then brings the old session
\* back).  The next sign-in or sign-out repairs even that.
SessionIsLatest == crossed \/ key = last

\* A member who signs in once and whom nothing throws out (no sign-out or second
\* sign-in, no change of membership or subscription, no lost answer, no week
\* without use, and no refresh refused by the rate limit, as the eleventh of one
\* address within a minute is) stays signed in, in whatever order the tabs refresh.
StaysSignedIn ==
  calm /\ last # None /\ (\A c \in Calls : call[c].pc # "loginStore")
    => \E b \in Browsers : store[b].refresh = last /\ store[b].access # "none"

\* A member who is removed, or whose company stays suspended, ends up without a
\* valid access token in any browser, however often the tabs call and refresh.
LosesAccess ==
  <>[](standing # "active")
    => <>[](\A b \in Browsers : store[b].access # "live")
=============================================================================
