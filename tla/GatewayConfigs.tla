--------------------------- MODULE GatewayConfigs ---------------------------
(***************************************************************************)
(* A venue's payment gateways: updateGatewayConfig called by several       *)
(* hands, and resolveGatewayConfig as everyone who takes a payment calls   *)
(* it (payment.service.ts).  A save clears is_active of the venue's other  *)
(* rows and upserts its own, in one transaction at READ COMMITTED: a row   *)
(* it has written stays locked until it commits, a row that another save   *)
(* has not committed is invisible to it.                                   *)
(***************************************************************************)
EXTENDS Naturals, FiniteSets

CONSTANTS Savers, Payers, Drivers, Accounts, Nothing,
          PayHere   \* the driver that falls back to the platform's account

VARIABLES
  config,   \* VenuePaymentConfig: the account and is_active of each driver, or Nothing
  offered,  \* GatewayDriver.is_active
  saving,   \* updateGatewayConfig under way: its driver, the rows it cleared,
            \* and whether a row has come into being since
  taking,   \* resolveGatewayConfig under way: the driver found and what came of it
  \* history
  twins,    \* the last save missed a row that another one had just made
  seen      \* what would have been right at some moment of the resolution

vars == <<config, offered, saving, taking, twins, seen>>

Row        == [account : Accounts, active : BOOLEAN]
Exists(d)  == config[d] # Nothing
Active     == {d \in Drivers : Exists(d) /\ config[d].active}
LockedFor(h) == UNION {saving[k].cleared : k \in {j \in Savers \ {h} : saving[j] # Nothing}}

\* The account a payment of this moment goes to; Nothing is the platform's.
Right(cfg) ==
  LET act == {d \in Drivers : cfg[d] # Nothing /\ cfg[d].active}
  IN  IF act = {} THEN {[driver |-> PayHere, account |-> Nothing]}
      ELSE {[driver |-> d, account |-> cfg[d].account] : d \in act}

TypeOK ==
  /\ config \in [Drivers -> Row \cup {Nothing}]
  /\ offered \subseteq Drivers /\ twins \in BOOLEAN
  /\ saving \in [Savers -> [driver : Drivers, cleared : SUBSET Drivers, missed : BOOLEAN] \cup {Nothing}]
  /\ taking \in [Payers -> [driver : Drivers \cup {Nothing}, got : {"none", "account", "refused"},
                            account : Accounts \cup {Nothing}]]
  /\ seen \in [Payers -> SUBSET [driver : Drivers, account : Accounts \cup {Nothing}]]
  /\ \A h \in Savers : saving[h] # Nothing =>
       saving[h].cleared \subseteq {d \in Drivers : Exists(d)} \ {saving[h].driver}

Idle == [driver |-> Nothing, got |-> "none", account |-> Nothing]

Init ==
  /\ config = [d \in Drivers |-> Nothing] /\ offered = Drivers
  /\ saving = [h \in Savers |-> Nothing] /\ twins = FALSE
  /\ taking = [p \in Payers |-> Idle] /\ seen = [p \in Payers |-> {}]

-----------------------------------------------------------------------------
\* The first statement of the transaction waits for rows another save has written.
SaveGateway(h) ==
  /\ saving[h] = Nothing
  /\ \E d \in offered :
       LET others == {r \in Drivers \ {d} : Exists(r)} IN
       /\ others \cap LockedFor(h) = {}
       /\ saving' = [saving EXCEPT ![h] = [driver |-> d, cleared |-> others, missed |-> FALSE]]
  /\ UNCHANGED <<config, offered, taking, twins, seen>>

\* Mutant: the rows of the other drivers keep their flag (PaysTheVenue).
ClearedNone(h, k) == [config EXCEPT ![saving[h].driver] = [account |-> k, active |-> TRUE]]

Cleared(h, k) ==
  [d \in Drivers |->
     IF d = saving[h].driver THEN [account |-> k, active |-> TRUE]
     ELSE IF d \in saving[h].cleared THEN [config[d] EXCEPT !.active = FALSE]
     ELSE config[d]]

\* The upsert waits likewise; then the transaction commits.
CommitGateway(h) ==
  /\ saving[h] # Nothing /\ saving[h].driver \notin LockedFor(h)
  /\ \E k \in Accounts : config' = Cleared(h, k)
  /\ twins' = saving[h].missed
  /\ LET Misses(s) == [s EXCEPT !.missed = @ \/ ~Exists(saving[h].driver)]
     IN  saving' = [j \in Savers |-> IF j = h \/ saving[j] = Nothing THEN Nothing ELSE Misses(saving[j])]
  /\ seen' = [p \in Payers |-> IF taking[p].driver = Nothing THEN seen[p] ELSE seen[p] \cup Right(config')]
  /\ UNCHANGED <<offered, taking>>

\* Rolled back: a failure, or two saves that each wait for the other's row.
SaveFails(h) ==
  /\ saving[h] # Nothing
  /\ saving' = [saving EXCEPT ![h] = Nothing]
  /\ UNCHANGED <<config, offered, taking, twins, seen>>

\* updateGatewayDriver of the platform's administrators.
UpdateDriver(d) ==
  /\ offered' = (offered \ {d}) \cup ({d} \ offered)
  /\ UNCHANGED <<config, saving, taking, twins, seen>>

-----------------------------------------------------------------------------
\* resolveGatewayConfig without a slug: any active row tells the driver ...
FindDriver(p) ==
  /\ taking[p] = Idle
  /\ \E r \in Right(config) : taking' = [taking EXCEPT ![p].driver = r.driver]
  /\ seen' = [seen EXCEPT ![p] = Right(config)]
  /\ UNCHANGED <<config, offered, saving, twins>>

Ends(p, got, account) ==
  /\ taking' = [taking EXCEPT ![p].got = got, ![p].account = account]
  /\ UNCHANGED <<config, offered, saving, twins, seen>>

\* ... and its row, read again, tells the account.
FindAccount(p) ==
  /\ taking[p].driver # Nothing /\ taking[p].got = "none"
  /\ LET d == taking[p].driver IN
     CASE d \in Active -> Ends(p, "account", config[d].account)
       [] d \notin Active /\ d = PayHere -> Ends(p, "account", Nothing)
       [] OTHER -> Ends(p, "refused", Nothing)

PayerLeaves(p) ==
  /\ taking[p].got # "none"
  /\ taking' = [taking EXCEPT ![p] = Idle] /\ seen' = [seen EXCEPT ![p] = {}]
  /\ UNCHANGED <<config, offered, saving, twins>>

Next ==
  \/ \E h \in Savers : SaveGateway(h) \/ CommitGateway(h) \/ SaveFails(h)
  \/ \E d \in Drivers : UpdateDriver(d)
  \/ \E p \in Payers : FindDriver(p) \/ FindAccount(p) \/ PayerLeaves(p)

Spec == Init /\ [][Next]_vars
-----------------------------------------------------------------------------
\* A venue has at most one active gateway.  Only a save that overlapped the first
\* save of another driver leaves two of them, and the next save repairs that.
OneActive == Cardinality(Active) <= 1 \/ twins

\* The two reads of a resolution are not one.  The account it takes was the right
\* one for that driver at some moment; only a save in between can make it refuse,
\* or fall back to the platform's account for a venue that has its own.
TakesTheRight ==
  \A p \in Payers :
    taking[p].got # "none" =>
      \/ taking[p].got = "account" /\ [driver |-> taking[p].driver, account |-> taking[p].account] \in seen[p]
      \/ taking[p].account = Nothing /\ \E r \in seen[p] : r.driver # taking[p].driver

\* A player's money goes where the venue has last said.
PaysTheVenue == OneActive /\ TakesTheRight
=============================================================================
