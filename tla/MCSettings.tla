----------------------------- MODULE MCSettings -----------------------------
(***************************************************************************)
(* What a venue keeps in its settings: photos, its own domain, members and *)
(* their accounts, payment gateways.  These four components share no       *)
(* state, so a behaviour is a behaviour of one of them: focus names it,    *)
(* the other variables stand still, and the state spaces add up instead of *)
(* multiplying.                                                            *)
(***************************************************************************)
EXTENDS Naturals, FiniteSets, TLC

CONSTANTS Hands,                   \* requests under way, or screens
          Choices,                 \* roles, merchant accounts, ids of
                                   \* a claimed domain, links to set a password
          Items, Max, Attempts, Places, Drivers, PayHere, Payers, None

\* None is no value of any other kind: no id, file or driver, no string and no record.
ASSUME MediaAssumption   == Max \in Nat \ {0} /\ IsFiniteSet(Hands) /\ None \notin Items
ASSUME DomainAssumption  == None \notin Choices /\ Attempts \in Nat \ {0}
ASSUME StaffAssumption   == None \notin Choices /\ None \notin {"random", "chosen"}
ASSUME GatewayAssumption ==
  /\ PayHere \in Drivers /\ None \notin Drivers
  /\ None \notin [account : Choices, active : BOOLEAN]
  /\ None \notin [driver : Drivers, cleared : SUBSET Drivers, missed : BOOLEAN]

VARIABLES
  focus,
  images, videos, covers, files, hand, crossed, dropped,
  row, verified, ssl, token, dns, attached, issued, jobs, claim, proof, muddled, stray, lost,
  secret, owner, member, links, task, told, overlap, asked, roleCrossed, spent, loose,
  config, offered, saving, taking, twins, seen

Photos   == INSTANCE Media
Domain   == INSTANCE CustomDomain WITH Ids <- Choices
Staff    == INSTANCE Accounts WITH Roles <- Choices, Links <- Choices, crossed <- roleCrossed
Gateways == INSTANCE GatewayConfigs WITH Savers <- Hands, Accounts <- Choices, Nothing <- None

photos   == <<images, videos, covers, files, hand, crossed, dropped>>
domain   == <<row, verified, ssl, token, dns, attached, issued, jobs, claim, proof, muddled, stray, lost>>
staff    == <<secret, owner, member, links, task, told, overlap, asked, roleCrossed, spent, loose>>
gateways == <<config, offered, saving, taking, twins, seen>>

Init ==
  /\ focus \in {"photos", "domain", "staff", "gateways"}
  /\ Photos!Init /\ Domain!Init /\ Staff!Init /\ Gateways!Init

Next ==
  /\ \/ focus = "photos"   /\ Photos!Next   /\ UNCHANGED <<domain, staff, gateways>>
     \/ focus = "domain"   /\ Domain!Next   /\ UNCHANGED <<photos, staff, gateways>>
     \/ focus = "staff"    /\ Staff!Next    /\ UNCHANGED <<photos, domain, gateways>>
     \/ focus = "gateways" /\ Gateways!Next /\ UNCHANGED <<photos, domain, staff>>
  /\ UNCHANGED focus

Spec == Init /\ [][Next]_<<focus, photos, domain, staff, gateways>>

Symmetry == Permutations(Hands) \cup Permutations(Choices)
-----------------------------------------------------------------------------
\* The type invariant of every component.
TypeOK ==
  /\ focus = "photos"   => Photos!TypeOK
  /\ focus = "domain"   => Domain!TypeOK
  /\ focus = "staff"    => Staff!TypeOK
  /\ focus = "gateways" => Gateways!TypeOK

\* media.service.ts: one photo is the cover, unless changes crossed or it was given up.
CoverIsKept == Photos!CoverIsKept
\* domain.service.ts, domain-ssl.worker.ts: a domain is verified by the record of
\* its own claim, served only then, and shown as live only with its certificate.
DomainIsProven == Domain!DomainIsProven
\* domain.service.ts, domain-ssl.worker.ts: somebody still looks for a missing certificate.
CertificateIsAwaited == Domain!CertificateIsAwaited
\* company.service.ts: who is invited gets a link to set a password, and has the
\* role that was last asked for.
MemberIsAsAsked == Staff!MemberIsAsAsked
\* payment.service.ts: one gateway is active, and a payment goes to its account.
PaysTheVenue == Gateways!PaysTheVenue
=============================================================================
