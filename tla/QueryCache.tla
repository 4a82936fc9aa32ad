----------------------------- MODULE QueryCache -----------------------------
(***************************************************************************)
(* What a browser shows of the changes its own user makes: one entry of    *)
(* the query cache, a walk through the pages of one area (WebPages), and   *)
(* one change at a time.  The rules of the cache are TanStack Query's,     *)
(* with the options of lib/query-client.ts: an entry is fresh for 30       *)
(* seconds, a failed fetch is repeated once, focus refreshes nothing.      *)
(* Changes other users make are left out: nothing announces them, and an   *)
(* entry shows them when it is next fetched.                               *)
(***************************************************************************)
EXTENDS WebPages

CONSTANTS MaxChanges,
          Nothing

VARIABLES
  watched,   \* the query whose entry this is
  area,      \* the part of the site that is walked through
  screen,    \* the page that is open, or "elsewhere"
  truth,     \* how often its data has been changed
  entry,     \* [data: the truth it shows, stale: too old, or invalidated]
  fetch,     \* [pc, got]
  call,      \* the change under way: [pc, item]
  excused    \* the entry is behind, for a reason listed below

vars == <<watched, area, screen, truth, entry, fetch, call, excused>>

NoFetch == [pc |-> "none", got |-> Nothing]
Asked   == [pc |-> "asked", got |-> Nothing]
NoCall  == [pc |-> "none", item |-> Nothing]
Empty   == [data |-> Nothing, stale |-> FALSE]

Showing(part, q)   == \E i \in part : i.op = q
Affects(change, q) == change \in DOMAIN Writes /\ Writes[change] \cap Reads[q] # {}

\* The pages a user walks through, and of these the ones that matter to a query;
\* every other page is "elsewhere".  Some queries are shown in two areas.
Areas == [staff |-> Staff, player |-> Player, admin |-> Admin]
PagesOf(a, q) ==
  LET pages   == Areas[a]
      Part(s) == IF s = "elsewhere" THEN {} ELSE {i \in pages[s] : i.op = q \/ Affects(i.op, q)}
  IN  [s \in {t \in DOMAIN pages : Part(t) # {}} \cup {"elsewhere"} |-> Part(s)]
Walks == [a \in DOMAIN Areas |-> [q \in Queries |-> PagesOf(a, q)]]

Walk  == Walks[area][watched]
Page  == Walk[screen]
Shown == Showing(Page, watched)
Needs == entry.data = Nothing \/ entry.stale

\* useSlots refetches every 30 seconds, useDomainSettings while a certificate is awaited.
Polled == {"slots", "domains"}

\* Changes after which a page that shows their effect is not refreshed.
Diary   == {"calendar", "daily", "occupancy", "revenue"}
Titled  == {"bookings", "requests", "booking", "request", "revenue"}   \* show names of places
Overlooked ==
  {"createBooking"} \X ({"bookings", "booking", "request", "slotDetail"} \cup Diary)
    \cup {"cancelBooking", "verifySlip"} \X ({"request", "slotDetail"} \cup Diary)
    \cup {"checkIn", "markPaid"} \X {"request", "daily", "revenue"}
    \cup {"approveRequest", "cancelRequest"} \X ({"slotDetail"} \cup Diary)
    \cup {"lockSlot", "unlockSlot"} \X {"request", "slotDetail", "calendar", "daily", "occupancy"}
    \cup {"generateSlots"} \X {"request", "slotDetail", "daily", "occupancy"}
    \cup {"lockSlot", "createBooking", "bookOnline", "cancelMine", "cancelBooking", "verifySlip",
          "approveRequest", "cancelRequest", "generateSlots"} \X {"slots"}
    \cup {"bookOnline"} \X {"myBookings", "myBooking"}
    \cup {"createLocation", "updateLocation", "closeLocation"} \X Titled
    \cup {"createSubVenue", "updateSubVenue", "deleteSubVenue"} \X (Titled \cup Diary \cup {"locations"})
    \cup {"savePrice", "deletePrice"} \X {"subVenues"}
    \cup {"saveBank"} \X {"booking", "slotDetail"} \cup {"saveGateway"} \X {"slotDetail"}
    \cup {"uploadLogo"} \X {"company"}
    \cup {"setSubscription", "adminMarkPaid"} \X {"adminStats", "auditLogs"}
    \cup {"adminMarkPaid"} \X {"adminCompanies"}
    \cup {"saveCompanyBank", "savePlan", "saveDriver"} \X {"auditLogs"}

TypeOK ==
  /\ watched \in Queries /\ area \in DOMAIN Areas /\ screen \in DOMAIN Walk
  /\ truth \in 0 .. MaxChanges /\ excused \in BOOLEAN
  /\ entry.data \in 0 .. truth \cup {Nothing} /\ entry.stale \in BOOLEAN
  /\ fetch.pc \in {"none", "asked", "answered"} /\ fetch.got \in 0 .. truth \cup {Nothing}
  /\ (fetch.pc = "answered") = (fetch.got # Nothing)
  /\ call.pc \in {"none", "asked", "orphan", "done"}
  /\ call.pc # "none" => Affects(call.item.op, watched)

Init ==
  /\ watched \in Queries /\ area \in DOMAIN Areas /\ screen = "elsewhere"
  /\ \E s \in DOMAIN Walk : Showing(Walk[s], watched)
  /\ truth = 0 /\ entry = Empty
  /\ fetch = NoFetch /\ call = NoCall
  /\ excused = FALSE

-----------------------------------------------------------------------------
\* A page that is opened fetches what is missing or stale, unless a fetch is under way.
Open(s) ==
  /\ s # screen /\ screen' = s
  /\ fetch' = IF Showing(Walk[s], watched) /\ Needs /\ fetch = NoFetch THEN Asked ELSE fetch
  /\ UNCHANGED <<watched, area, truth, entry, call, excused>>

Ages ==
  /\ entry.data # Nothing /\ ~entry.stale
  /\ entry' = [entry EXCEPT !.stale = TRUE]
  /\ UNCHANGED <<watched, area, screen, truth, fetch, call, excused>>

Poll ==
  /\ watched \in Polled /\ Shown /\ fetch = NoFetch
  /\ fetch' = Asked
  /\ UNCHANGED <<watched, area, screen, truth, entry, call, excused>>

Answer ==
  /\ fetch.pc = "asked"
  /\ fetch' = [pc |-> "answered", got |-> truth]
  /\ UNCHANGED <<watched, area, screen, truth, entry, call, excused>>

Land ==
  /\ fetch.pc = "answered"
  /\ entry' = [data |-> fetch.got, stale |-> FALSE]
  /\ fetch' = NoFetch
  /\ excused' = (excused /\ fetch.got # truth)
  /\ UNCHANGED <<watched, area, screen, truth, call>>

\* The page shows an error, or what it had.
FetchFails ==
  /\ fetch # NoFetch
  /\ fetch' = NoFetch /\ entry' = [entry EXCEPT !.stale = TRUE] /\ excused' = TRUE
  /\ UNCHANGED <<watched, area, screen, truth, call>>

\* Five minutes after the last page that shows it was left.
Collect ==
  /\ ~Shown /\ fetch = NoFetch /\ entry # Empty
  /\ entry' = Empty /\ excused' = FALSE
  /\ UNCHANGED <<watched, area, screen, truth, fetch, call>>

\* A reload empties the cache; a call under way goes on without its page (Lost).
Reload ==
  /\ call = NoCall
  /\ entry' = Empty /\ fetch' = IF Shown THEN Asked ELSE NoFetch
  /\ excused' = FALSE
  /\ UNCHANGED <<watched, area, screen, truth, call>>

-----------------------------------------------------------------------------
Click(item) ==
  /\ call = NoCall /\ truth < MaxChanges
  /\ item.op # watched
  /\ call' = [pc |-> "asked", item |-> item]
  /\ UNCHANGED <<watched, area, screen, truth, entry, fetch, excused>>

Apply ==
  /\ call.pc \in {"asked", "orphan"}
  /\ truth' = truth + 1
  /\ IF call.pc = "asked" THEN call' = [call EXCEPT !.pc = "done"] /\ UNCHANGED excused
                          ELSE call' = NoCall /\ excused' = TRUE
  /\ UNCHANGED <<watched, area, screen, entry, fetch>>

\* The API refuses, and the page shows why.
Refuse ==
  /\ call.pc \in {"asked", "orphan"}
  /\ call' = NoCall
  /\ UNCHANGED <<watched, area, screen, truth, entry, fetch, excused>>

\* The connection breaks: the page does not learn what has become of the call.
Lost ==
  /\ \/ call.pc = "asked" /\ call' = [call EXCEPT !.pc = "orphan"] /\ UNCHANGED excused
     \/ call.pc = "done" /\ call' = NoCall /\ excused' = TRUE
  /\ UNCHANGED <<watched, area, screen, truth, entry, fetch>>

\* invalidateQueries: an entry that is shown is fetched at once.  A fetch under way
\* is given up for it, unless there is nothing to show yet; nor is it when no page
\* shows the entry.  Its answer then counts as fresh, though it may be older than
\* the change.
Refresh ==
  /\ entry' = IF entry.data # Nothing THEN [entry EXCEPT !.stale = TRUE] ELSE entry
  /\ fetch' = IF Shown /\ (fetch = NoFetch \/ entry.data # Nothing) THEN Asked ELSE fetch
  /\ excused' = (excused \/ (fetch'.pc = "answered" /\ fetch'.got # truth))

Settle ==
  /\ call.pc = "done" /\ call' = NoCall
  /\ IF watched \in call.item.refresh THEN Refresh
     ELSE excused' = (excused \/ <<call.item.op, watched>> \in Overlooked) /\ UNCHANGED <<entry, fetch>>
  /\ UNCHANGED <<watched, area, screen, truth>>

Next ==
  \/ \E s \in DOMAIN Walk : Open(s)
  \/ Ages \/ Poll \/ Answer \/ Land \/ FetchFails \/ Collect \/ Reload
  \/ \E i \in Page : Click(i)
  \/ Apply \/ Refuse \/ Lost \/ Settle

Spec == Init /\ [][Next]_vars
-----------------------------------------------------------------------------
\* When nothing is under way, a page shows what its user has changed on this page
\* or on another one: unless the last fetch failed, an answer was lost, a fetch
\* answered before the change landed after it, or the change is one that refreshes
\* nothing there.
OwnChangeShown ==
  Shown /\ fetch = NoFetch /\ call = NoCall /\ ~excused => entry.data = truth
=============================================================================
