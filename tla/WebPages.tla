------------------------------ MODULE WebPages ------------------------------
(***************************************************************************)
(* The pages of apps/web as far as the API sees them: the queries a page   *)
(* shows, the changes it offers, the permission and plan it asks for       *)
(* before it offers them, and the queries it refreshes when a change has   *)
(* succeeded.  Layout, filters, forms and wording are left out, and with   *)
(* them the state of the data on which some buttons depend as well.        *)
(*                                                                         *)
(* TanStack Query compares keys by prefix, so that ['bookings'] refreshes  *)
(* every list of bookings and every single one.                            *)
(***************************************************************************)
EXTENDS ApiRoutes

Shows(queries)     == {[op |-> q, by |-> {}, tier |-> "basic", refresh |-> {}] : q \in queries}
Does(ops, refresh) == {[op |-> o, by |-> {}, tier |-> "basic", refresh |-> refresh] : o \in ops}

\* Shown to members with permission p only, and to companies on plan t or above.
For(p, part)  == {[i EXCEPT !.by = @ \cup {p}] : i \in part}
From(t, part) == {[i EXCEPT !.tier = t] : i \in part}

Offered(item, actor) ==
  /\ item.by \subseteq Roles[actor.role]
  /\ Rank[actor.tier] >= Rank[item.tier]

BookingKeys  == {"bookings", "booking"}
RequestKeys  == {"requests", "request"}
PlaceKeys    == {"locations", "location"}
CourtKeys    == {"subVenues", "subVenue"}
BillingKeys  == {"subscription", "plans", "invoices"}
MyKeys       == {"myBookings", "myBooking"}
CompanyKeys  == {"adminCompanies", "adminCompany"}

-----------------------------------------------------------------------------
\* The dashboard of a venue's staff.  The layout asks for the subscription on
\* every page; its menu leads to a page only with the page's permission.
Banner == Shows({"subscription"})

OverviewPage == Shows({"locations", "bookings"})
BookingsPage == Shows({"locations", "bookings"})

NewBookingPage ==
  Shows({"locations", "subVenues", "slots", "slotDetail"})
    \cup Does({"lockSlot", "createBooking"}, {}) \cup Does({"unlockSlot"}, {"slots"})

\* Mutant: only the booking itself is refreshed, not the lists (OwnChangeShown).
BookingActionsAlone ==
  For("bookings.checkin", Does({"checkIn", "markPaid"}, {"booking"}))
    \cup For("bookings.cancel", Does({"cancelBooking"}, {"booking"}))

BookingPage == Shows({"booking"}) \cup Does({"uploadSlip"}, BookingKeys) \cup Does({"initiate"}, {})
BookingActions ==
  For("bookings.checkin", Does({"checkIn", "markPaid"}, BookingKeys))
    \cup For("payments.verify_slip", Does({"verifySlip"}, BookingKeys))
    \cup For("bookings.cancel", Does({"cancelBooking"}, BookingKeys))

\* useRecurringRequests.ts.
CreateRefreshes == RequestKeys
ReviewRefreshes == RequestKeys \cup BookingKeys

RequestsPage   == Shows({"locations", "requests"})
NewRequestPage == Shows({"locations", "subVenues"}) \cup Does({"createRequest"}, CreateRefreshes)
RequestPage    == Shows({"request"}) \cup Does({"approveRequest", "rejectRequest"}, ReviewRefreshes)
                    \cup For("bookings.cancel", Does({"cancelRequest"}, ReviewRefreshes))

SlotsPage == Shows({"locations", "subVenues"}) \cup For("slots.read", Shows({"calendar"}))

LocationsPage   == Shows({"locations"})
NewLocationPage == For("locations.write", Does({"createLocation"}, PlaceKeys))
LocationPage    == Shows({"location"})
LocationTab     == For("locations.write", Does({"updateLocation"}, PlaceKeys))
                     \cup For("locations.delete", Does({"closeLocation", "updateLocation"}, PlaceKeys))
HoursTab        == For("locations.write", Does({"saveHours"}, {"location"}))
HolidaysTab     == For("locations.write", Does({"saveHoliday"}, {"location"}))
CourtsTab       == Shows({"subVenues"})

NewCourtPage == For("sub_venues.write", Does({"createSubVenue"}, CourtKeys))
CourtPage    == Shows({"subVenue"})
CourtTab     == For("sub_venues.write", Does({"updateSubVenue", "deleteSubVenue"}, CourtKeys))
PriceForm    == For("pricing.write", Does({"savePrice"}, {"subVenue"}))
PricingTab   == For("pricing.write", Does({"deletePrice"}, {"subVenue"}))
GenerateTab  == For("slots.write", Does({"generateSlots"}, {"calendar"}))

\* The tab is shown by permission, whatever the plan.
LocationSelect == Shows({"locations"})
DailyTab       == Shows({"daily"})
RevenueTab     == Shows({"revenue"}) \cup Does({"export"}, {})
OccupancyTab   == Shows({"occupancy"})
ReportsPage    == LocationSelect \cup DailyTab \cup OccupancyTab \cup For("reports.full_ledger", RevenueTab)

BrandingPage == Shows({"company"}) \cup Does({"saveBranding"}, {"company"}) \cup Does({"uploadLogo"}, {})
StaffPage    == Shows({"members", "locations"}) \cup Does({"inviteMember", "removeMember"}, {"members"})
EditMemberDialog == Does({"updateMember"}, {"members"})
BillingPage  == Shows(BillingKeys) \cup Does({"upgrade", "cancelPlan"}, BillingKeys)
PaymentsPage == Shows({"gateways"})
BankCard     == Shows({"bank"}) \cup Does({"saveBank"}, {"bank"})
GatewayForm  == Shows({"gatewayConfig"}) \cup Does({"saveGateway"}, {"gatewayConfig", "gateways"})
MediaPage    == Shows({"media"})
MediaActions == Does({"changeMedia"}, {"media"})
DomainsPage  == Shows({"domains"})
DomainsCard  == From("elite", Does({"addDomain", "verifyDomain", "removeDomain"}, {"domains"}))
MailPage     == Shows({"mail"})
\* Mutant: every mode is offered on every plan (OfferedIsAccepted).
MailFormOpen == Does({"mailPlatform", "mailSubdomain", "mailOwn", "verifyMail", "testMail"}, {"mail"})
\* The mode that is stored is offered too, see Access!Preselected.
MailForm ==
  Does({"mailPlatform", "verifyMail"}, {"mail"}) \cup Does({"testMail"}, {})
    \cup From("pro", Does({"mailSubdomain"}, {"mail"})) \cup From("elite", Does({"mailOwn"}, {"mail"}))

Menu ==
  [overview   |-> OverviewPage,
   locations  |-> For("locations.read", LocationsPage),
   bookings   |-> For("bookings.read", BookingsPage),
   requests   |-> For("bookings.read", RequestsPage),
   reports    |-> For("reports.daily", ReportsPage),
   slots      |-> For("slots.read", SlotsPage),
   staff      |-> For("staff.invite", StaffPage \cup EditMemberDialog),
   payments   |-> For("payments.gateway_config", PaymentsPage \cup BankCard \cup GatewayForm),
   media      |-> For("company.branding", MediaPage \cup MediaActions),
   mail       |-> For("company.branding", MailPage \cup MailForm),
   domains    |-> For("company.branding", DomainsPage \cup DomainsCard),
   billing    |-> For("company.branding", BillingPage),
   branding   |-> For("company.branding", BrandingPage)]

\* Pages that other pages link to.
Linked ==
  [newBooking  |-> For("bookings.read", NewBookingPage),
   booking     |-> For("bookings.read", BookingPage \cup BookingActions),
   newRequest  |-> For("bookings.read", NewRequestPage),
   request     |-> For("bookings.read", RequestPage),
   newLocation |-> NewLocationPage,
   location    |-> For("locations.read", LocationPage \cup LocationTab \cup HoursTab \cup HolidaysTab \cup CourtsTab),
   newCourt    |-> NewCourtPage,
   court       |-> For("locations.read", CourtPage \cup CourtTab \cup PriceForm \cup PricingTab \cup GenerateTab)]

Staff == LET pages == Merged({Menu, Linked}) IN [s \in DOMAIN pages |-> Banner \cup pages[s]]

-----------------------------------------------------------------------------
\* The marketplace.  Pages that the server renders ask the API anew each time.
Availability   == Shows({"slots"})
PermanentCard  == Does({"submitRequest"}, {"myRequests"})
Wizard         == Does({"lockSlot", "bookOnline"}, {})
MySlots        == Shows({"myRequests"}) \cup Does({"withdraw"}, {"myRequests"})
MyBookingsPage == Shows({"myBookings"}) \cup Does({"cancelMine"}, MyKeys)
MyBookingPage  == Shows({"myBooking"}) \cup Does({"cancelMine"}, MyKeys)
SlipForm       == Does({"uploadMySlip"}, {"myBooking"})
Confirmation   == Shows({"myBooking"})
CancelledPage  == Shows({"myBooking"})

Player ==
  [venue |-> Availability \cup PermanentCard, wizard |-> Wizard,
   myBookings |-> MyBookingsPage \cup MySlots, myBooking |-> MyBookingPage \cup SlipForm,
   confirmation |-> Confirmation \cup SlipForm, cancelled |-> CancelledPage]

\* The platform's administration; its menu shows every page to every administrator.
StatsPage     == Shows({"adminStats"})
CompaniesPage == Shows({"adminCompanies"})
CompanyPage   == Shows({"adminCompany", "adminPlans"})
CompanyForms  == Does({"setSubscription"}, CompanyKeys) \cup Does({"adminMarkPaid"}, {"adminCompany"})
CompanyBank   == Does({"saveCompanyBank"}, CompanyKeys)
PlansPage     == Shows({"adminPlans"}) \cup For("super", Does({"savePlan"}, {"adminPlans"}))
DriversPage   == Shows({"drivers"}) \cup For("super", Does({"saveDriver"}, {"drivers"}))
AuditPage     == Shows({"auditLogs"})

Admin ==
  [stats |-> StatsPage, companies |-> CompaniesPage, company |-> CompanyPage \cup CompanyForms \cup CompanyBank,
   plans |-> PlansPage, drivers |-> DriversPage, audit |-> AuditPage]
=============================================================================
