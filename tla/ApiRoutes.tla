----------------------------- MODULE ApiRoutes -----------------------------
(***************************************************************************)
(* What the routes of apps/api ask of a caller, and which data the         *)
(* services behind them read and change.  An operation is a route that a   *)
(* page calls, named for what it does.  Data is a table, or a part of one  *)
(* that is edited on its own.  Webhooks, routes that no page calls, and    *)
(* the restriction of a member to some locations are left out.             *)
(***************************************************************************)
EXTENDS Naturals

\* Tables that have no key in common, as one.
Merged(tables) ==
  [k \in UNION {DOMAIN t : t \in tables} |-> (CHOOSE t \in tables : k \in DOMAIN t)[k]]

Rank == [basic |-> 1, pro |-> 2, elite |-> 3]

\* Permissions a company's roles are made with.
Reception == {"locations.read", "slots.read", "bookings.read", "bookings.checkin", "bookings.cancel",
              "payments.read", "payments.verify_slip"}
Manager   == Reception \cup {"sub_venues.write", "slots.write", "pricing.write", "reports.daily",
                             "notifications.send"}
Owner     == Manager \cup {"locations.write", "locations.delete", "company.branding", "company.custom_domain",
                           "staff.invite", "payments.gateway_config", "reports.full_ledger"}
Roles == [receptionist |-> Reception, location_manager |-> Manager, owner |-> Owner,
          platform_support |-> {"support"}, super_admin |-> {"support", "super"}]

Signed      == [need |-> {}, tier |-> "basic"]
Need(p)     == [need |-> {p}, tier |-> "basic"]
Plan(t, p)  == [need |-> {p}, tier |-> t]

\* requirePermission and requirePlatformAdmin, for an actor [role, tier].
Allows(guard, actor) ==
  /\ Rank[actor.tier] >= Rank[guard.tier]
  /\ guard.need \subseteq Roles[actor.role]

-----------------------------------------------------------------------------
\* Guards, one definition for each file of routes.
BookingGuards ==
  [bookings |-> Need("bookings.read"), booking |-> Signed, createBooking |-> Signed,
   cancelBooking |-> Need("bookings.cancel"),      \* booking.service.ts:515
   checkIn |-> Need("bookings.checkin"), markPaid |-> Need("bookings.checkin"),
   uploadSlip |-> Signed, verifySlip |-> Need("payments.verify_slip")]

RequestGuards ==
  [requests |-> Need("bookings.read"), request |-> Signed, createRequest |-> Signed,
   approveRequest |-> Need("bookings.read"), rejectRequest |-> Need("bookings.read"),
   cancelRequest |-> Need("bookings.cancel")]      \* recurring-request.service.ts:578

SlotGuards ==
  [slots |-> Signed, slotDetail |-> Signed, calendar |-> Need("slots.read"),
   lockSlot |-> Signed, unlockSlot |-> Signed]

PlaceGuards ==
  [locations |-> Need("locations.read"), location |-> Need("locations.read"),
   createLocation |-> Need("locations.write"), updateLocation |-> Need("locations.write"),
   closeLocation |-> Need("locations.delete"),
   saveHours |-> Need("locations.write"), saveHoliday |-> Need("locations.write")]

CourtGuards ==
  [subVenues |-> Need("locations.read"), subVenue |-> Need("locations.read"),
   createSubVenue |-> Need("sub_venues.write"), updateSubVenue |-> Need("sub_venues.write"),
   deleteSubVenue |-> Need("sub_venues.write"),
   savePrice |-> Need("pricing.write"), deletePrice |-> Need("pricing.write"),
   generateSlots |-> Need("slots.write")]

CompanyGuards ==
  [company |-> Need("locations.read"), saveBranding |-> Need("company.branding"),
   bank |-> Need("payments.gateway_config"), saveBank |-> Need("payments.gateway_config"),
   members |-> Need("staff.invite"), inviteMember |-> Need("staff.invite"),
   updateMember |-> Need("staff.invite"), removeMember |-> Need("staff.invite")]

BillingGuards ==
  [plans |-> Signed, subscription |-> Need("company.branding"), invoices |-> Need("company.branding"),
   upgrade |-> Need("company.branding"), cancelPlan |-> Need("company.branding")]

PaymentGuards ==
  [initiate |-> Signed, gateways |-> Need("payments.gateway_config"),
   gatewayConfig |-> Need("payments.gateway_config"), saveGateway |-> Need("payments.gateway_config")]

DomainGuards ==
  [domains |-> Need("company.branding"), addDomain |-> Plan("elite", "company.custom_domain"),
   verifyDomain |-> Plan("elite", "company.custom_domain"), removeDomain |-> Plan("elite", "company.custom_domain")]

\* The plan a mode of sending needs is checked by updateEmailConfig.
MailGuards ==
  [mail |-> Need("company.branding"), mailPlatform |-> Need("company.branding"),
   mailSubdomain |-> Plan("pro", "company.branding"), mailOwn |-> Plan("elite", "company.branding"),
   verifyMail |-> Need("company.branding"), testMail |-> Need("company.branding")]

MediaGuards ==
  [media |-> Need("company.branding"), changeMedia |-> Need("company.branding"),
   uploadLogo |-> Need("company.branding")]

ReportGuards ==
  [daily |-> Need("reports.daily"), occupancy |-> Need("reports.daily"),
   revenue |-> Plan("pro", "reports.full_ledger"), export |-> Plan("pro", "reports.full_ledger")]

AdminGuards ==
  [adminStats |-> Need("support"), adminCompanies |-> Need("support"), adminCompany |-> Need("support"),
   setSubscription |-> Need("super"), saveCompanyBank |-> Need("support"),
   adminPlans |-> Need("support"), savePlan |-> Need("super"),
   auditLogs |-> Need("support"), drivers |-> Need("support"), saveDriver |-> Need("super"),
   adminMarkPaid |-> Need("super")]

PlayerGuards ==
  [myBookings |-> Signed, myBooking |-> Signed, myRequests |-> Signed, bookOnline |-> Signed,
   cancelMine |-> Signed, uploadMySlip |-> Signed, submitRequest |-> Signed, withdraw |-> Signed]

Guard == Merged({BookingGuards, RequestGuards, SlotGuards, PlaceGuards, CourtGuards, CompanyGuards,
                 BillingGuards, PaymentGuards, DomainGuards, MailGuards, MediaGuards, ReportGuards,
                 AdminGuards, PlayerGuards})

-----------------------------------------------------------------------------
\* What the answer of a query shows, by the service that gives it.
BookingReads == [bookings |-> {"bookings", "courts", "places"},
                 booking  |-> {"bookings", "slips", "courts", "places", "bank"}]
MyReads      == [myBookings |-> {"bookings", "courts", "places"},
                 myBooking  |-> {"bookings", "slips", "courts", "places", "bank"},
                 myRequests |-> {"requests", "courts", "places"}]
RequestReads == [requests |-> {"requests", "courts", "places"},
                 request  |-> {"requests", "bookings", "slots", "courts", "places"}]
SlotReads    == [slots |-> {"slots"}, calendar |-> {"slots", "courts"},
                 slotDetail |-> {"slots", "gateways", "bank"}]
PlaceReads   == [locations |-> {"places", "courts"}, location |-> {"places", "hours"}]
CourtReads   == [subVenues |-> {"courts", "prices"}, subVenue |-> {"courts", "prices"}]
CompanyReads == [company |-> {"company"}]
BankReads    == [bank |-> {"bank"}]
MemberReads  == [members |-> {"members"}]
BillingReads == [plans |-> {"plans"}, subscription |-> {"subscription", "plans"}, invoices |-> {"invoices", "plans"}]
GatewayReads == [gateways |-> {"gateways", "drivers"}, gatewayConfig |-> {"gateways"}]
DomainReads  == [domains |-> {"domains"}]
MailReads    == [mail |-> {"mail"}]
MediaReads   == [media |-> {"media"}]
DailyReads     == [daily |-> {"bookings", "slots", "courts"}]
RevenueReads   == [revenue |-> {"bookings", "courts", "places"}]
OccupancyReads == [occupancy |-> {"slots", "courts"}]
AdminStatsReads     == [adminStats |-> {"bookings", "places", "subscription"}]
AdminCompaniesReads == [adminCompanies |-> {"subscription", "places", "bookings"}]
AdminCompanyReads   == [adminCompany |-> {"company", "subscription", "places", "courts", "members",
                                          "bookings", "invoices", "bank"}]
AdminPlansReads  == [adminPlans |-> {"plans"}]
AuditReads       == [auditLogs |-> {"audit"}]
DriverReads      == [drivers |-> {"drivers"}]

Reads == Merged({BookingReads, MyReads, RequestReads, SlotReads, PlaceReads, CourtReads, CompanyReads,
                 BankReads, MemberReads, BillingReads, GatewayReads, DomainReads, MailReads, MediaReads,
                 DailyReads, RevenueReads, OccupancyReads, AdminStatsReads, AdminCompaniesReads,
                 AdminCompanyReads, AdminPlansReads, AuditReads, DriverReads})
Queries == DOMAIN Reads

-----------------------------------------------------------------------------
\* What a change of data changes.
Changes(ops, tables) == [o \in ops |-> tables]

BookingWrites == Merged({
                         Changes({"createBooking", "bookOnline", "cancelBooking", "cancelMine"}, {"bookings", "slots"}),
                         Changes({"checkIn", "markPaid"}, {"bookings"})})
SlipWrites    == Merged({Changes({"uploadSlip", "uploadMySlip"}, {"slips"}),
                         Changes({"verifySlip"}, {"bookings", "slips", "slots"})})
LockWrites    == Changes({"lockSlot", "unlockSlot"}, {"slots"})
SlotWrites    == Changes({"generateSlots"}, {"slots"})
RequestWrites == Changes({"createRequest", "submitRequest", "rejectRequest", "withdraw"}, {"requests"})
ApproveWrites == Changes({"approveRequest"}, {"requests", "bookings", "slots"})
EndWrites     == Changes({"cancelRequest"}, {"requests", "bookings", "slots"})
PlaceWrites   == Merged({Changes({"createLocation", "updateLocation", "closeLocation"}, {"places"}),
                         Changes({"saveHours", "saveHoliday"}, {"hours"})})
CourtWrites   == Changes({"createSubVenue", "updateSubVenue", "deleteSubVenue"}, {"courts"})
PriceWrites   == Changes({"savePrice", "deletePrice"}, {"prices"})
MemberWrites  == Changes({"inviteMember", "updateMember", "removeMember"}, {"members"})
CompanyWrites == Changes({"saveBranding"}, {"company"})
LogoWrites    == Changes({"uploadLogo"}, {"company"})
BankWrites    == Changes({"saveBank"}, {"bank"})
PlanWrites    == Changes({"upgrade", "cancelPlan"}, {"subscription", "invoices"})
GatewayWrites == Changes({"saveGateway"}, {"gateways"})
DomainWrites  == Changes({"addDomain", "verifyDomain", "removeDomain"}, {"domains"})
MailWrites    == Changes({"mailPlatform", "mailSubdomain", "mailOwn", "verifyMail"}, {"mail"})
MediaWrites   == Changes({"changeMedia"}, {"media"})
AdminWrites   == Changes({"setSubscription"}, {"subscription", "audit"})
AdminBankWrites    == Changes({"saveCompanyBank"}, {"bank", "audit"})
AdminPlanWrites    == Changes({"savePlan"}, {"plans", "audit"})
AdminDriverWrites  == Changes({"saveDriver"}, {"drivers", "audit"})
AdminInvoiceWrites == Changes({"adminMarkPaid"}, {"invoices", "subscription", "audit"})

Writes == Merged({BookingWrites, SlipWrites, LockWrites, SlotWrites, RequestWrites, ApproveWrites,
                  EndWrites, PlaceWrites, CourtWrites, PriceWrites, MemberWrites, CompanyWrites,
                  LogoWrites, BankWrites, PlanWrites, GatewayWrites, DomainWrites, MailWrites,
                  MediaWrites, AdminWrites, AdminBankWrites, AdminPlanWrites, AdminDriverWrites,
                  AdminInvoiceWrites})
=============================================================================
