--------------------------- MODULE Sessions_proofs ---------------------------
(***************************************************************************)
(* Theorems of Sessions for any browsers, calls and refresh tokens: types, *)
(* that Redis keeps the session of the latest sign-in, and that a member   *)
(* whom nothing throws out stays signed in.                                *)
(***************************************************************************)
EXTENDS Sessions, TLAPS

-----------------------------------------------------------------------------
(* What a call looks like, and which of them carry a token. *)
CallTypes == [pc : {"idle", "sent", "expire", "settle"} \cup WithToken,
              op : {"data", "login", "logout"},
              at : Browsers \cup {None}, access : Access,
              again : BOOLEAN, token : Tokens \cup {None}]

(* A call may be replaced by one of the right type. *)
LEMMA CallReplaced ==
  ASSUME TypeOK, NEW c \in Calls, NEW d \in CallTypes,
         d.pc # "idle" => d.at \in Browsers,
         d.pc \in WithToken => d.token \in Tokens,
         call' = [call EXCEPT ![c] = d]
  PROVE  /\ call' \in [Calls -> CallTypes]
         /\ \A e \in Calls : /\ call'[e].pc # "idle" => call'[e].at \in Browsers
                             /\ call'[e].pc \in WithToken => call'[e].token \in Tokens
BY DEF TypeOK, CallTypes

(* A step of a call that changes its step only. *)
LEMMA CallGoes ==
  ASSUME TypeOK, NEW c \in Calls, NEW pc \in {"sent", "expire", "settle"} \cup WithToken,
         call[c].pc # "idle",
         pc \in WithToken => call[c].pc \in WithToken,
         Goes(c, pc)
  PROVE  /\ call' \in [Calls -> CallTypes]
         /\ \A e \in Calls : /\ call'[e].pc # "idle" => call'[e].at \in Browsers
                             /\ call'[e].pc \in WithToken => call'[e].token \in Tokens
<1> DEFINE d == [call[c] EXCEPT !.pc = pc]
<1>1. d \in CallTypes /\ (d.pc # "idle" => d.at \in Browsers) /\ (d.pc \in WithToken => d.token \in Tokens)
  BY DEF TypeOK, CallTypes
<1>2. call' = [call EXCEPT ![c] = d]
  BY DEF Goes, TypeOK
<1> QED BY <1>1, <1>2, CallReplaced

LEMMA CallEnds ==
  ASSUME TypeOK, NEW c \in Calls, Ends(c)
  PROVE  /\ call' \in [Calls -> CallTypes]
         /\ \A e \in Calls : /\ call'[e].pc # "idle" => call'[e].at \in Browsers
                             /\ call'[e].pc \in WithToken => call'[e].token \in Tokens
<1>1. Idle \in CallTypes /\ Idle.pc = "idle" /\ Idle.pc \notin WithToken
  BY DEF Idle, CallTypes, WithToken, Checked, Access
<1>2. call' = [call EXCEPT ![c] = Idle]
  BY DEF Ends
<1> QED BY <1>1, <1>2, CallReplaced

(* A call that is refused. *)
LEMMA CallDenied ==
  ASSUME TypeOK, NEW c \in Calls, call[c].pc = "sent", Denied(c)
  PROVE  /\ call' \in [Calls -> CallTypes]
         /\ \A e \in Calls : /\ call'[e].pc # "idle" => call'[e].at \in Browsers
                             /\ call'[e].pc \in WithToken => call'[e].token \in Tokens
<1>1. CASE call[c].access # "none" /\ ~call[c].again
  <2> DEFINE d == [call[c] EXCEPT !.pc = IF Stored(c).refresh = None THEN "expire" ELSE "check",
                                  !.token = Stored(c).refresh]
  <2>1. Stored(c).refresh \in Tokens \cup {None}
    BY DEF TypeOK, Stored, Storage
  <2>2. d \in CallTypes /\ (d.pc # "idle" => d.at \in Browsers) /\ (d.pc \in WithToken => d.token \in Tokens)
    BY <2>1 DEF TypeOK, CallTypes, WithToken, Checked
  <2>3. call' = [call EXCEPT ![c] = d]
    BY <1>1 DEF Denied, TypeOK
  <2> QED BY <2>2, <2>3, CallReplaced
<1>2. CASE ~(call[c].access # "none" /\ ~call[c].again) /\ call[c].op = "logout"
  <2>1. Goes(c, "settle") /\ "settle" \notin WithToken
    BY <1>2 DEF Denied, WithToken, Checked
  <2> QED BY <2>1, CallGoes
<1>3. CASE ~(call[c].access # "none" /\ ~call[c].again) /\ call[c].op # "logout"
  BY <1>3, CallEnds DEF Denied
<1> QED BY <1>1, <1>2, <1>3

-----------------------------------------------------------------------------
(* Type correctness. *)

(* Every variable of a session has its type in every step. *)
LEMMA TypesKept ==
  ASSUME TypeOK, [Next]_vars
  PROVE  TypeOK'
<1> DEFINE CallsOK == /\ call' \in [Calls -> CallTypes]
                      /\ \A e \in Calls : /\ call'[e].pc # "idle" => call'[e].at \in Browsers
                                          /\ call'[e].pc \in WithToken => call'[e].token \in Tokens
           RestOK  == /\ standing' \in {"active", "suspended", "removed"}
                      /\ {key', last'} \subseteq Tokens \cup {None}
                      /\ store' \in [Browsers -> Storage]
                      /\ {crossed', calm'} \subseteq BOOLEAN
<1>1. SUFFICES CallsOK /\ RestOK
  BY DEF TypeOK, CallTypes
<1>2. UNCHANGED call => CallsOK
  BY DEF TypeOK, CallTypes
<1>3. InFlight \in BOOLEAN
  BY DEF InFlight
<1>4. \A c \in Calls : (call[c].pc # "idle" /\ Clears(c)) => store' \in [Browsers -> Storage]
  BY DEF Clears, Empty, Storage, Access, TypeOK
<1>5. \A c \in Calls : call[c].pc \in WithToken => call[c].token \in Tokens
  BY DEF TypeOK
<1>6. ASSUME NEW c \in Calls, NEW b \in Browsers, NEW op \in {"data", "login", "logout"}, Send(c, b, op)
      PROVE  CallsOK /\ RestOK
  <2> DEFINE d == [Idle EXCEPT !.pc = "sent", !.op = op, !.at = b, !.access = Carried(b, op)]
  <2>1. Carried(b, op) \in Access
    BY DEF Carried, TypeOK, Storage, Access
  <2>2. d \in CallTypes /\ (d.pc # "idle" => d.at \in Browsers) /\ (d.pc \in WithToken => d.token \in Tokens)
    BY <2>1 DEF Idle, CallTypes, WithToken, Checked
  <2>3. CallsOK
    BY <1>6, <2>2, CallReplaced DEF Send
  <2> QED BY <1>6, <2>3 DEF Send, server, TypeOK
<1>7. ASSUME NEW c \in Calls, DataDenied(c) PROVE CallsOK /\ RestOK
  <2>1. CallsOK BY <1>7, CallDenied DEF DataDenied
  <2> QED BY <1>7, <2>1 DEF DataDenied, server, TypeOK
<1>8. ASSUME NEW c \in Calls, Logout(c) PROVE CallsOK /\ RestOK
  <2>1. CASE call[c].access = "live"
    <3>1. Goes(c, "settle") /\ "settle" \notin WithToken /\ call[c].pc = "sent"
      BY <1>8, <2>1 DEF Logout, WithToken, Checked
    <3>2. CallsOK BY <3>1, CallGoes
    <3> QED BY <1>3, <1>8, <2>1, <3>2 DEF Logout, TypeOK
  <2>2. CASE call[c].access # "live"
    <3>1. CallsOK BY <1>8, <2>2, CallDenied DEF Logout
    <3> QED BY <1>8, <2>2, <3>1 DEF Logout, server, TypeOK
  <2> QED BY <2>1, <2>2
<1>9. ASSUME NEW c \in Calls, Settle(c) PROVE CallsOK /\ RestOK
  <2>1. CallsOK BY <1>9, CallEnds DEF Settle
  <2> QED BY <1>4, <1>9, <2>1 DEF Settle, server, TypeOK
<1>10. ASSUME NEW c \in Calls, LoginLoad(c) PROVE CallsOK /\ RestOK
  <2>1. CASE Denied(c)
    BY <1>10, <2>1, CallDenied DEF LoginLoad, server, TypeOK
  <2>2. CASE Ends(c)
    BY <1>10, <2>2, CallEnds DEF LoginLoad, server, TypeOK
  <2>3. ASSUME NEW new \in Tokens \ InUse,
               call' = [call EXCEPT ![c].pc = "loginSet", ![c].token = new]
        PROVE  CallsOK /\ RestOK
    <3> DEFINE d == [call[c] EXCEPT !.pc = "loginSet", !.token = new]
    <3>1. d \in CallTypes /\ (d.pc # "idle" => d.at \in Browsers) /\ (d.pc \in WithToken => d.token \in Tokens)
      BY <1>10 DEF LoginLoad, TypeOK, CallTypes, WithToken, Checked
    <3>2. call' = [call EXCEPT ![c] = d]
      BY <2>3 DEF TypeOK
    <3>3. CallsOK BY <3>1, <3>2, CallReplaced
    <3> QED BY <1>10, <3>3 DEF LoginLoad, server, TypeOK
  <2> QED BY <1>10, <2>1, <2>2, <2>3 DEF LoginLoad
<1>11. ASSUME NEW c \in Calls, LoginSet(c) PROVE CallsOK /\ RestOK
  <2>1. Goes(c, "loginStore") /\ call[c].pc = "loginSet" /\ {"loginSet", "loginStore"} \subseteq WithToken
    BY <1>11 DEF LoginSet, WithToken
  <2>2. CallsOK BY <2>1, CallGoes
  <2> QED BY <1>3, <1>5, <1>11, <2>1, <2>2 DEF LoginSet, TypeOK
<1>12. ASSUME NEW c \in Calls, LoginStore(c) PROVE CallsOK /\ RestOK
  <2>1. CallsOK BY <1>12, CallEnds DEF LoginStore
  <2>2. call[c].token \in Tokens BY <1>5, <1>12 DEF LoginStore, WithToken
  <2> QED BY <1>12, <2>1, <2>2 DEF LoginStore, server, Storage, Access, TypeOK
<1>13. ASSUME NEW c \in Calls, RefreshCheck(c) PROVE CallsOK /\ RestOK
  <2>1. Goes(c, IF key = call[c].token THEN "load" ELSE "expire") /\ call[c].pc = "check"
    BY <1>13 DEF RefreshCheck
  <2>2. CallsOK BY <2>1, CallGoes DEF WithToken, Checked
  <2> QED BY <1>13, <2>2 DEF RefreshCheck, server, TypeOK
<1>14. ASSUME NEW c \in Calls, RefreshLoad(c) PROVE CallsOK /\ RestOK
  <2>1. Goes(c, IF standing = "active" THEN "set" ELSE "expire") /\ call[c].pc = "load"
    BY <1>14 DEF RefreshLoad
  <2>2. CallsOK BY <2>1, CallGoes DEF WithToken, Checked
  <2> QED BY <1>14, <2>2 DEF RefreshLoad, server, TypeOK
<1>15. ASSUME NEW c \in Calls, RefreshSet(c) PROVE CallsOK /\ RestOK
  <2>1. Goes(c, "fresh") /\ call[c].pc = "set"
    BY <1>15 DEF RefreshSet
  <2>2. CallsOK BY <2>1, CallGoes DEF WithToken, Checked
  <2>3. call[c].token \in Tokens BY <1>5, <2>1 DEF WithToken, Checked
  <2> QED BY <1>15, <2>2, <2>3 DEF RefreshSet, TypeOK
<1>16. ASSUME NEW c \in Calls, StoreAccess(c) PROVE CallsOK /\ RestOK
  <2>1. CASE call[c].op = "data"
    BY <1>16, <2>1, CallEnds DEF StoreAccess, server, TypeOK, Storage, Access
  <2>2. CASE call[c].op # "data"
    <3> DEFINE d == [call[c] EXCEPT !.pc = "sent", !.access = "live", !.again = TRUE, !.token = None]
    <3>1. d \in CallTypes /\ (d.pc # "idle" => d.at \in Browsers) /\ (d.pc \in WithToken => d.token \in Tokens)
      BY <1>16 DEF StoreAccess, TypeOK, CallTypes, WithToken, Checked, Access
    <3>2. call' = [call EXCEPT ![c] = d]
      BY <1>16, <2>2 DEF StoreAccess, TypeOK
    <3>3. CallsOK BY <3>1, <3>2, CallReplaced
    <3> QED BY <1>16, <3>3 DEF StoreAccess, server, TypeOK, Storage, Access
  <2> QED BY <2>1, <2>2
<1>17. ASSUME NEW c \in Calls, Expire(c) PROVE CallsOK /\ RestOK
  <2>1. CallsOK BY <1>17, CallEnds DEF Expire
  <2> QED BY <1>4, <1>17, <2>1 DEF Expire, server, TypeOK
<1>18. ASSUME NEW c \in Calls, NetworkFails(c) PROVE CallsOK /\ RestOK
  <2>1. call[c].pc # "idle" /\ "expire" \notin WithToken /\ "settle" \notin WithToken
    BY <1>18 DEF NetworkFails, WithToken, Checked
  <2>2. CASE Goes(c, "expire") BY <1>18, <2>1, <2>2, CallGoes DEF NetworkFails, server, TypeOK
  <2>3. CASE Goes(c, "settle") BY <1>18, <2>1, <2>3, CallGoes DEF NetworkFails, server, TypeOK
  <2>4. CASE Ends(c)           BY <1>18, <2>4, CallEnds DEF NetworkFails, server, TypeOK
  <2> QED BY <1>18, <2>2, <2>3, <2>4 DEF NetworkFails
<1>19. CASE RemoveMember   BY <1>2, <1>19 DEF RemoveMember, server, TypeOK
<1>20. CASE CompanyChanges BY <1>2, <1>20 DEF CompanyChanges, server, TypeOK
<1>21. ASSUME NEW b \in Browsers, AccessExpires(b) PROVE CallsOK /\ RestOK
  BY <1>2, <1>21 DEF AccessExpires, server, TypeOK, Storage, Access
<1>22. CASE KeyExpires     BY <1>2, <1>3, <1>22 DEF KeyExpires, TypeOK
<1>23. CASE UNCHANGED vars BY <1>2, <1>23 DEF vars, TypeOK
<1>24. ASSUME NEW c \in Calls, Limited(c) PROVE CallsOK /\ RestOK
  <2>1. call[c].pc # "idle" /\ "expire" \notin WithToken /\ "settle" \notin WithToken
    BY <1>24 DEF Limited, WithToken, Checked
  <2>2. CASE Goes(c, "expire") BY <1>24, <2>1, <2>2, CallGoes DEF Limited, server, TypeOK
  <2>3. CASE Goes(c, "settle") BY <1>24, <2>1, <2>3, CallGoes DEF Limited, server, TypeOK
  <2>4. CASE Ends(c)           BY <1>24, <2>4, CallEnds DEF Limited, server, TypeOK
  <2> QED BY <1>24, <2>2, <2>3, <2>4 DEF Limited
<1> QED
  BY <1>6, <1>7, <1>8, <1>9, <1>10, <1>11, <1>12, <1>13, <1>14, <1>15, <1>16, <1>17,
     <1>18, <1>19, <1>20, <1>21, <1>22, <1>23, <1>24 DEF Next, Handle

(* The storage of every browser, the key in Redis and every call under way have    *)
(* their types, and a call that refreshes or signs in carries a token.             *)
THEOREM SessionTypes == Spec => []TypeOK
<1>1. Init => TypeOK
  <2>1. Idle \in CallTypes /\ Idle.pc = "idle" /\ "idle" \notin WithToken
    BY DEF Idle, CallTypes, WithToken, Checked, Access
  <2>2. Empty \in Storage
    BY DEF Empty, Storage, Access
  <2>3. SUFFICES ASSUME Init PROVE TypeOK
    OBVIOUS
  <2>4. call \in [Calls -> CallTypes] /\ \A c \in Calls : call[c].pc = "idle"
    BY <2>1, <2>3 DEF Init
  <2>5. store \in [Browsers -> Storage]
    BY <2>2, <2>3 DEF Init
  <2> QED BY <2>1, <2>3, <2>4, <2>5 DEF Init, TypeOK, CallTypes
<1> QED BY <1>1, TypesKept, PTL DEF Spec

-----------------------------------------------------------------------------
(* The session in Redis. *)

(* SessionIsLatest alone is not inductive: a refresh writes the token it compared. *)
(* As long as nothing crossed, that is the token the key still names.              *)
LatestInv == crossed \/ (key = last /\ \A c \in Calls : call[c].pc \in Checked => call[c].token = key)

(* A step that leaves the server alone, and starts no refresh that has compared.   *)
LEMMA LatestUntouched ==
  ASSUME LatestInv, UNCHANGED server,
         \A c \in Calls : call'[c].pc \in Checked =>
            (call[c].pc \in Checked /\ call'[c].token = call[c].token) \/ call'[c].token = key
  PROVE  LatestInv'
BY DEF LatestInv, server

(* A sign-in, a sign-out and an expiry set the key and the latest session together. *)
LEMMA LatestReset ==
  ASSUME crossed' = InFlight, key' = last',
         \A c \in Calls : call'[c].pc \in Checked => call[c].pc \in Checked
  PROVE  LatestInv'
BY DEF LatestInv, InFlight

(* No step but a comparison makes a refresh one that has compared. *)
LEMMA LatestKept ==
  ASSUME TypeOK, LatestInv, [Next]_vars
  PROVE  LatestInv'
<1> USE DEF Checked
<1>1. ASSUME NEW c \in Calls, NEW b \in Browsers, NEW op \in {"data", "login", "logout"}, Send(c, b, op)
      PROVE  LatestInv'
  BY <1>1, LatestUntouched DEF Send, TypeOK, Idle
<1>2. ASSUME NEW c \in Calls, Denied(c), UNCHANGED server PROVE LatestInv'
  BY <1>2, LatestUntouched DEF Denied, Goes, Ends, Idle, TypeOK
<1>3. ASSUME NEW c \in Calls, Ends(c), UNCHANGED server PROVE LatestInv'
  BY <1>3, LatestUntouched DEF Ends, Idle, TypeOK
<1>4. ASSUME NEW c \in Calls, Logout(c) PROVE LatestInv'
  <2>1. CASE call[c].access = "live"
    BY <1>4, <2>1, LatestReset DEF Logout, Goes, TypeOK
  <2> QED BY <1>2, <1>4, <2>1 DEF Logout
<1>5. ASSUME NEW c \in Calls, LoginLoad(c) PROVE LatestInv'
  <2>1. ASSUME NEW new, call' = [call EXCEPT ![c].pc = "loginSet", ![c].token = new] PROVE LatestInv'
    BY <1>5, <2>1, LatestUntouched DEF LoginLoad, TypeOK
  <2> QED BY <1>2, <1>3, <1>5, <2>1 DEF LoginLoad
<1>6. ASSUME NEW c \in Calls, LoginSet(c) PROVE LatestInv'
  BY <1>6, LatestReset DEF LoginSet, Goes, TypeOK
<1>7. ASSUME NEW c \in Calls, RefreshCheck(c) PROVE LatestInv'
  BY <1>7, LatestUntouched DEF RefreshCheck, Goes, TypeOK
<1>8. ASSUME NEW c \in Calls, RefreshLoad(c) PROVE LatestInv'
  BY <1>8, LatestUntouched DEF RefreshLoad, Goes, TypeOK
<1>9. ASSUME NEW c \in Calls, RefreshSet(c) PROVE LatestInv'
  BY <1>9 DEF RefreshSet, Goes, TypeOK, LatestInv
<1>10. ASSUME NEW c \in Calls, StoreAccess(c) PROVE LatestInv'
  <2>1. CASE call[c].op = "data"
    BY <1>3, <1>10, <2>1 DEF StoreAccess
  <2>2. CASE call[c].op # "data"
    <3>1. call' = [call EXCEPT ![c] = [@ EXCEPT !.pc = "sent", !.access = "live", !.again = TRUE, !.token = None]]
      BY <1>10, <2>2 DEF StoreAccess
    <3>2. call[c] = [pc |-> call[c].pc, op |-> call[c].op, at |-> call[c].at, access |-> call[c].access,
                     again |-> call[c].again, token |-> call[c].token]
      BY DEF TypeOK
    <3>3. call'[c].pc = "sent" /\ \A e \in Calls \ {c} : call'[e] = call[e]
      BY <3>1, <3>2 DEF TypeOK
    <3> QED BY <1>10, <3>3, LatestUntouched DEF StoreAccess
  <2> QED BY <2>1, <2>2
<1>11. ASSUME NEW c \in Calls, NetworkFails(c) \/ Limited(c) PROVE LatestInv'
  BY <1>11, LatestUntouched DEF NetworkFails, Limited, Goes, Ends, Idle, TypeOK
<1>12. ASSUME NEW c \in Calls, DataDenied(c) \/ Settle(c) \/ LoginStore(c) \/ Expire(c) PROVE LatestInv'
  BY <1>2, <1>3, <1>12 DEF DataDenied, Settle, LoginStore, Expire
<1>13. CASE KeyExpires
  BY <1>13, LatestReset DEF KeyExpires
<1>14. CASE UNCHANGED <<server, call>>
  BY <1>14, LatestUntouched
<1>15. RemoveMember \/ CompanyChanges \/ (\E b \in Browsers : AccessExpires(b)) \/ UNCHANGED vars
         => UNCHANGED <<server, call>>
  BY DEF RemoveMember, CompanyChanges, AccessExpires, vars, server
<1> QED
  BY <1>1, <1>4, <1>5, <1>6, <1>7, <1>8, <1>9, <1>10, <1>11, <1>12, <1>13, <1>14, <1>15
  DEF Next, Handle

(* Redis holds the session of the latest sign-in, and none after a sign-out, unless *)
(* a refresh was between its GET and its SET at that moment.                        *)
THEOREM SessionLatest == Spec => []SessionIsLatest
<1>1. Init => LatestInv
  BY DEF Init, LatestInv, Idle, Checked
<1>2. LatestInv => SessionIsLatest
  BY DEF LatestInv, SessionIsLatest
<1> QED BY <1>1, <1>2, LatestKept, SessionTypes, PTL DEF Spec
-----------------------------------------------------------------------------
(* Staying signed in. *)

(* How far a refresh is. *)
Refreshing == Checked \cup {"check", "fresh"}

(* As long as nothing has happened that may end the session, there is one session:  *)
(* what a browser stores, what a refresh carries and what the key names are the      *)
(* token of the one sign-in.  So no comparison fails and nobody gives up.            *)
CalmServer == standing = "active" /\ key = last
CalmStores == \A b \in Browsers : store[b].access # "none" => last # None /\ store[b].refresh = last
CalmCalls ==
  \A c \in Calls :
    /\ call[c].pc \notin {"expire", "settle"} /\ call[c].op # "logout"
    /\ call[c].access # "none" => store[call[c].at].access # "none"
    /\ call[c].pc \in Refreshing => call[c].access # "none"
    /\ call[c].pc \in Refreshing \cup {"loginStore"} => call[c].token = last
SignedIn ==
  last # None => \/ \E c \in Calls : call[c].pc = "loginStore"
                 \/ \E b \in Browsers : store[b].access # "none"
CalmInv == calm => CalmServer /\ CalmStores /\ CalmCalls /\ SignedIn

(* A call is replaced, and neither the server nor a browser's storage changes. *)
LEMMA CalmCallChanges ==
  ASSUME TypeOK, CalmInv, calm' => calm, UNCHANGED <<standing, key, last, store>>,
         NEW c \in Calls, NEW d \in CallTypes, call' = [call EXCEPT ![c] = d],
         call[c].pc # "loginStore",
         calm => /\ d.pc \notin {"expire", "settle"} /\ d.op # "logout"
                 /\ d.access # "none" => store[d.at].access # "none"
                 /\ d.pc \in Refreshing => d.access # "none"
                 /\ d.pc \in Refreshing \cup {"loginStore"} => d.token = last
  PROVE  CalmInv'
<1> SUFFICES ASSUME calm' PROVE (CalmServer /\ CalmStores /\ CalmCalls /\ SignedIn)'
  BY DEF CalmInv
<1>1. calm /\ CalmServer /\ CalmStores /\ CalmCalls /\ SignedIn
  BY DEF CalmInv
<1>2. call'[c] = d /\ \A e \in Calls \ {c} : call'[e] = call[e]
  BY DEF TypeOK
<1>3. CalmServer' /\ CalmStores'
  BY <1>1 DEF CalmServer, CalmStores
<1>4. CalmCalls'
  BY <1>1, <1>2 DEF CalmCalls
<1>5. SignedIn'
  BY <1>1, <1>2 DEF SignedIn
<1> QED BY <1>3, <1>4, <1>5

LEMMA CalmCallGoes ==
  ASSUME TypeOK, CalmInv, calm' => calm, UNCHANGED <<standing, key, last, store>>,
         NEW c \in Calls, NEW pc \in WithToken, Goes(c, pc), call[c].pc # "loginStore",
         calm => pc # "loginStore" /\ (pc \in Refreshing => call[c].pc \in Refreshing)
  PROVE  CalmInv'
<1> DEFINE d == [call[c] EXCEPT !.pc = pc]
<1>1. d \in CallTypes /\ d.pc = pc /\ d.op = call[c].op /\ d.access = call[c].access
      /\ d.at = call[c].at /\ d.token = call[c].token
  BY DEF TypeOK, CallTypes
<1>2. call' = [call EXCEPT ![c] = d]
  BY DEF Goes, TypeOK
<1>3. calm => /\ d.pc \notin {"expire", "settle"} /\ d.op # "logout"
              /\ d.access # "none" => store[d.at].access # "none"
              /\ d.pc \in Refreshing => d.access # "none"
              /\ d.pc \in Refreshing \cup {"loginStore"} => d.token = last
  BY <1>1 DEF CalmInv, CalmCalls, WithToken, Checked
<1> QED BY <1>1, <1>2, <1>3, CalmCallChanges

LEMMA CalmCallEnds ==
  ASSUME TypeOK, CalmInv, calm' => calm, UNCHANGED <<standing, key, last, store>>,
         NEW c \in Calls, Ends(c), call[c].pc # "loginStore"
  PROVE  CalmInv'
<1>1. Idle \in CallTypes /\ Idle.pc = "idle" /\ Idle.op = "data" /\ Idle.access = "none"
  BY DEF Idle, CallTypes, WithToken, Checked, Access
<1>2. call' = [call EXCEPT ![c] = Idle]
  BY DEF Ends
<1> QED BY <1>1, <1>2, CalmCallChanges DEF Refreshing, Checked

(* The browser of a call that carried a token has the refresh token of the session. *)
LEMMA CalmDenied ==
  ASSUME TypeOK, CalmInv, calm' => calm, UNCHANGED <<standing, key, last, store>>,
         NEW c \in Calls, call[c].pc = "sent", Denied(c)
  PROVE  CalmInv'
<1>1. CASE call[c].access # "none" /\ ~call[c].again
  <2> DEFINE d == [call[c] EXCEPT !.pc = IF Stored(c).refresh = None THEN "expire" ELSE "check",
                                  !.token = Stored(c).refresh]
  <2>1. Stored(c).refresh \in Tokens \cup {None} /\ call[c].at \in Browsers
    BY DEF TypeOK, Stored, Storage
  <2>2. d \in CallTypes /\ d.op = call[c].op /\ d.access = call[c].access /\ d.at = call[c].at
        /\ d.token = Stored(c).refresh
        /\ d.pc = IF Stored(c).refresh = None THEN "expire" ELSE "check"
    BY <2>1 DEF TypeOK, CallTypes, WithToken, Checked
  <2>3. call' = [call EXCEPT ![c] = d]
    BY <1>1 DEF Denied, TypeOK
  <2>4. calm => Stored(c).refresh = last /\ last # None
    BY <1>1, <2>1 DEF CalmInv, CalmCalls, CalmStores, Stored
  <2>5. calm => /\ d.pc = "check" /\ d.op # "logout" /\ d.token = last
                /\ d.access # "none" /\ store[d.at].access # "none"
    BY <1>1, <2>2, <2>4 DEF CalmInv, CalmCalls
  <2> QED BY <2>2, <2>3, <2>5, CalmCallChanges
<1>2. CASE ~(call[c].access # "none" /\ ~call[c].again)
  <2>1. CASE call[c].op # "logout"
    BY <1>2, <2>1, CalmCallEnds DEF Denied
  <2>2. CASE call[c].op = "logout"
    BY <2>2 DEF CalmInv, CalmCalls
  <2> QED BY <2>1, <2>2
<1> QED BY <1>1, <1>2

(* One session is started, kept by every refresh, and stored by the browser that      *)
(* signed in.                                                                         *)
LEMMA CalmKept ==
  ASSUME TypeOK, CalmInv, [Next]_vars
  PROVE  CalmInv'
<1>1. ASSUME NEW c \in Calls, NEW b \in Browsers, NEW op \in {"data", "login", "logout"}, Send(c, b, op)
      PROVE  CalmInv'
  <2> DEFINE d == [Idle EXCEPT !.pc = "sent", !.op = op, !.at = b, !.access = Carried(b, op)]
  <2>1. Carried(b, op) \in Access /\ (Carried(b, op) # "none" => store[b].access # "none")
    BY DEF Carried, TypeOK, Storage, Access
  <2>2. d \in CallTypes /\ d.pc = "sent" /\ d.op = op /\ d.at = b /\ d.access = Carried(b, op)
    BY <2>1 DEF Idle, CallTypes
  <2>3. CASE op = "logout"
    BY <1>1, <2>3 DEF Send, CalmInv
  <2>4. CASE op # "logout"
    BY <1>1, <2>1, <2>2, <2>4, CalmCallChanges DEF Send, server, Refreshing, Checked
  <2> QED BY <2>3, <2>4
<1>2. ASSUME NEW c \in Calls, DataDenied(c) PROVE CalmInv'
  BY <1>2, CalmDenied DEF DataDenied, server
<1>3. ASSUME NEW c \in Calls, Logout(c) \/ Settle(c) \/ Expire(c) PROVE CalmInv'
  BY <1>3 DEF Logout, Settle, Expire, CalmInv, CalmCalls
<1>4. ASSUME NEW c \in Calls, LoginLoad(c) PROVE CalmInv'
  <2>1. CASE Denied(c)
    BY <1>4, <2>1, CalmDenied DEF LoginLoad, server
  <2>2. CASE Ends(c)
    BY <1>4, <2>2, CalmCallEnds DEF LoginLoad, server
  <2>3. ASSUME NEW new \in Tokens \ InUse,
               call' = [call EXCEPT ![c].pc = "loginSet", ![c].token = new]
        PROVE  CalmInv'
    <3> DEFINE d == [call[c] EXCEPT !.pc = "loginSet", !.token = new]
    <3>1. d \in CallTypes /\ d.pc = "loginSet" /\ d.op = call[c].op /\ d.at = call[c].at
          /\ d.access = call[c].access
      BY DEF TypeOK, CallTypes, WithToken
    <3>2. call' = [call EXCEPT ![c] = d]
      BY <2>3 DEF TypeOK
    <3>3. calm => d.op # "logout" /\ (d.access # "none" => store[d.at].access # "none")
      BY <3>1 DEF CalmInv, CalmCalls
    <3> QED BY <1>4, <3>1, <3>2, <3>3, CalmCallChanges DEF LoginLoad, server, Refreshing, Checked
  <2> QED BY <1>4, <2>1, <2>2, <2>3 DEF LoginLoad
<1>5. ASSUME NEW c \in Calls, LoginSet(c) PROVE CalmInv'
  <2> SUFFICES ASSUME calm' PROVE (CalmServer /\ CalmStores /\ CalmCalls /\ SignedIn)'
    BY DEF CalmInv
  <2>1. calm /\ last = None /\ UNCHANGED <<standing, store>>
    BY <1>5 DEF LoginSet
  <2>2. CalmServer /\ CalmStores /\ CalmCalls
    BY <2>1 DEF CalmInv
  <2>3. call'[c].pc = "loginStore" /\ call'[c].token = call[c].token /\ call'[c].op = call[c].op
        /\ call'[c].access = call[c].access /\ call'[c].at = call[c].at
        /\ \A e \in Calls \ {c} : call'[e] = call[e]
    BY <1>5 DEF LoginSet, Goes, TypeOK
  <2>4. key' = call[c].token /\ last' = call[c].token
    BY <1>5 DEF LoginSet
  <2>5. \A b \in Browsers : store[b].access = "none"
    BY <2>1, <2>2 DEF CalmStores
  <2>6. \A e \in Calls : call[e].pc # "idle" => call[e].access = "none"
    BY <2>2, <2>5 DEF CalmCalls, TypeOK
  <2>7. \A e \in Calls : call[e].pc \notin Refreshing \cup {"loginStore"}
    <3>1. \A e \in Calls : call[e].pc \in Refreshing \cup {"loginStore"}
                           => call[e].token \in Tokens /\ call[e].token = last
      BY <2>2 DEF CalmCalls, TypeOK, Refreshing, WithToken
    <3> QED BY <2>1, <3>1, NoneAssumption
  <2>8. CalmServer' /\ CalmStores'
    BY <2>1, <2>2, <2>4, <2>5 DEF CalmServer, CalmStores
  <2>9. CalmCalls'
    BY <2>1, <2>2, <2>3, <2>4, <2>7 DEF CalmCalls, Refreshing, Checked
  <2> QED BY <2>3, <2>8, <2>9 DEF SignedIn
<1>6. ASSUME NEW c \in Calls, LoginStore(c) PROVE CalmInv'
  <2> SUFFICES ASSUME calm' PROVE (CalmServer /\ CalmStores /\ CalmCalls /\ SignedIn)'
    BY DEF CalmInv
  <2>1. calm /\ UNCHANGED <<standing, key, last>>
    BY <1>6 DEF LoginStore, server
  <2>2. CalmServer /\ CalmStores /\ CalmCalls
    BY <2>1 DEF CalmInv
  <2>3. call'[c] = Idle /\ \A e \in Calls \ {c} : call'[e] = call[e]
    BY <1>6 DEF LoginStore, Ends, TypeOK
  <2>4. call[c].at \in Browsers /\ call[c].token = last /\ last # None
    BY <1>6, <2>2, NoneAssumption DEF LoginStore, CalmCalls, TypeOK, WithToken
  <2>5. /\ store'[call[c].at] = [access |-> "live", refresh |-> last]
        /\ \A b \in Browsers \ {call[c].at} : store'[b] = store[b]
    BY <1>6, <2>4 DEF LoginStore, TypeOK
  <2>6. CalmServer' /\ CalmStores'
    BY <2>1, <2>2, <2>4, <2>5 DEF CalmServer, CalmStores
  <2>7. CalmCalls'
    <3>1. \A b : store[b].access # "none" /\ b # call[c].at => store'[b].access # "none"
      BY <1>6 DEF LoginStore, TypeOK
    <3> QED BY <2>1, <2>2, <2>3, <2>5, <3>1 DEF CalmCalls, Idle, Refreshing, Checked
  <2> QED BY <2>4, <2>5, <2>6, <2>7 DEF SignedIn
<1>7. ASSUME NEW c \in Calls, RefreshCheck(c) PROVE CalmInv'
  <2>1. CASE key = call[c].token
    BY <1>7, <2>1, CalmCallGoes DEF RefreshCheck, server, Refreshing, Checked, WithToken
  <2>2. CASE key # call[c].token
    BY <1>7, <2>2 DEF RefreshCheck, CalmInv, CalmCalls, CalmServer, Refreshing
  <2> QED BY <2>1, <2>2
<1>8. ASSUME NEW c \in Calls, RefreshLoad(c) PROVE CalmInv'
  <2>1. CASE standing = "active"
    BY <1>8, <2>1, CalmCallGoes DEF RefreshLoad, server, Refreshing, Checked, WithToken
  <2>2. CASE standing # "active"
    BY <1>8, <2>2 DEF RefreshLoad, CalmInv, CalmServer
  <2> QED BY <2>1, <2>2
<1>9. ASSUME NEW c \in Calls, RefreshSet(c) PROVE CalmInv'
  <2>1. CASE calm
    <3>1. key' = key
      BY <1>9, <2>1 DEF RefreshSet, CalmInv, CalmServer, CalmCalls, Refreshing, Checked
    <3> QED BY <1>9, <3>1, CalmCallGoes DEF RefreshSet, Refreshing, Checked, WithToken
  <2>2. CASE ~calm
    BY <1>9, <2>2 DEF RefreshSet, CalmInv
  <2> QED BY <2>1, <2>2
<1>10. ASSUME NEW c \in Calls, StoreAccess(c) PROVE CalmInv'
  <2> SUFFICES ASSUME calm' PROVE (CalmServer /\ CalmStores /\ CalmCalls /\ SignedIn)'
    BY DEF CalmInv
  <2>1. calm /\ UNCHANGED <<standing, key, last>>
    BY <1>10 DEF StoreAccess, server
  <2>2. CalmServer /\ CalmStores /\ CalmCalls /\ SignedIn
    BY <2>1 DEF CalmInv
  <2>3. call[c].at \in Browsers /\ call[c].pc = "fresh" /\ store[call[c].at].access # "none"
        /\ call[c].op # "logout"
    BY <1>10, <2>2 DEF StoreAccess, CalmCalls, TypeOK, Refreshing
  <2>4. /\ store'[call[c].at].access = "live" /\ store'[call[c].at].refresh = store[call[c].at].refresh
        /\ \A b \in Browsers \ {call[c].at} : store'[b] = store[b]
    BY <1>10, <2>3 DEF StoreAccess, TypeOK, Storage
  <2>5. CalmServer' /\ CalmStores'
    BY <2>1, <2>2, <2>3, <2>4 DEF CalmServer, CalmStores
  <2>6. /\ call'[c].pc \in {"idle", "sent"} /\ call'[c].op # "logout"
        /\ call'[c].access # "none" => call'[c].at = call[c].at
        /\ \A e \in Calls \ {c} : call'[e] = call[e]
    <3>1. CASE call[c].op = "data"
      BY <1>10, <3>1 DEF StoreAccess, Ends, Idle, TypeOK
    <3>2. CASE call[c].op # "data"
      <4>1. call' = [call EXCEPT ![c] = [@ EXCEPT !.pc = "sent", !.access = "live",
                                                  !.again = TRUE, !.token = None]]
        BY <1>10, <3>2 DEF StoreAccess
      <4>2. call[c] \in [pc : {"idle", "sent", "expire", "settle"} \cup WithToken,
                         op : {"data", "login", "logout"}, at : Browsers \cup {None},
                         access : Access, again : BOOLEAN, token : Tokens \cup {None}]
        BY DEF TypeOK
      <4> QED BY <2>3, <4>1, <4>2 DEF TypeOK
    <3> QED BY <3>1, <3>2
  <2>7. \A b : store[b].access # "none" /\ b # call[c].at => store'[b].access # "none"
    BY <1>10 DEF StoreAccess, TypeOK
  <2>8. CalmCalls'
    BY <2>1, <2>2, <2>4, <2>6, <2>7 DEF CalmCalls, Refreshing, Checked
  <2> QED BY <2>3, <2>4, <2>5, <2>8 DEF SignedIn
<1>11. ASSUME NEW b \in Browsers, AccessExpires(b) PROVE CalmInv'
  <2> SUFFICES ASSUME calm' PROVE (CalmServer /\ CalmStores /\ CalmCalls /\ SignedIn)'
    BY DEF CalmInv
  <2>1. calm /\ UNCHANGED <<standing, key, last, call>>
    BY <1>11 DEF AccessExpires, server
  <2>2. CalmServer /\ CalmStores /\ CalmCalls /\ SignedIn
    BY <2>1 DEF CalmInv
  <2>3. /\ store[b].access = "live" /\ store'[b].access = "expired" /\ store'[b].refresh = store[b].refresh
        /\ \A e \in Browsers \ {b} : store'[e] = store[e]
    BY <1>11 DEF AccessExpires, TypeOK, Storage
  <2>4. CalmServer' /\ CalmStores'
    BY <2>1, <2>2, <2>3 DEF CalmServer, CalmStores
  <2>5. \A e : store[e].access # "none" /\ e # b => store'[e].access # "none"
    BY <1>11 DEF AccessExpires, TypeOK
  <2>6. CalmCalls'
    BY <2>1, <2>2, <2>3, <2>5 DEF CalmCalls
  <2> QED BY <2>1, <2>2, <2>3, <2>4, <2>6 DEF SignedIn
<1>12. ASSUME NEW c \in Calls, NetworkFails(c) PROVE CalmInv'
  BY <1>12 DEF NetworkFails, CalmInv
<1>13. CASE RemoveMember \/ CompanyChanges \/ KeyExpires
  BY <1>13 DEF RemoveMember, CompanyChanges, KeyExpires, CalmInv
<1>14. CASE UNCHANGED vars
  BY <1>14 DEF vars, CalmInv, CalmServer, CalmStores, CalmCalls, SignedIn
<1>15. ASSUME NEW c \in Calls, Limited(c) PROVE CalmInv'
  <2>1. CASE ~calm'
    BY <2>1 DEF CalmInv
  <2>2. CASE calm' /\ Ends(c)
    BY <1>15, <2>2, CalmCallEnds DEF Limited, server
  <2>3. CASE calm' /\ ~Ends(c)
    BY <1>15, <2>3 DEF Limited, CalmInv, CalmCalls
  <2> QED BY <2>1, <2>2, <2>3
<1> QED
  BY <1>1, <1>2, <1>3, <1>4, <1>5, <1>6, <1>7, <1>8, <1>9, <1>10, <1>11, <1>12, <1>13, <1>14, <1>15
  DEF Next, Handle

(* A member who signs in once and whom nothing throws out, the rate limit of          *)
(* /auth/refresh included, has a browser with the session's refresh token, in         *)
(* whatever order the tabs refresh.                                                   *)
THEOREM SessionStays == Spec => []StaysSignedIn
<1>1. Init => CalmInv
  BY DEF Init, CalmInv, CalmServer, CalmStores, CalmCalls, SignedIn, Idle, Empty, Refreshing, Checked
<1>2. TypeOK /\ CalmInv => StaysSignedIn
  BY DEF CalmInv, CalmStores, SignedIn, StaysSignedIn
<1> QED BY <1>1, <1>2, CalmKept, SessionTypes, PTL DEF Spec
=============================================================================
