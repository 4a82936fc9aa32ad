------------------------ MODULE SlotCalendar_proofs -------------------------
(***************************************************************************)
(* Theorems of SlotCalendar for any day, schedules and number of requests  *)
(* served at once: every plan is lawful; types; a day stays complete; and  *)
(* rows survive.                                                           *)
(*                                                                         *)
(* Plan is a recursive function.  What it computes is shown by induction   *)
(* from the end of the day, where the induction is over a set of times:    *)
(* of the times at which a set goes wrong one is the last (LeastOf).       *)
(***************************************************************************)
EXTENDS SlotCalendar, WellFoundedInduction, TLAPS

-----------------------------------------------------------------------------
(* What a plan is. *)

(* Natural numbers have least ones. *)
LEMMA LeastOf ==
  ASSUME NEW T \in SUBSET Nat, T # {}
  PROVE  \E x \in T : \A y \in T : x <= y
<1> DEFINE R == OpToRel(<, Nat)
<1>1. IsWellFoundedOn(R, Nat)
  BY NatLessThanWellFounded
<1>2. \A x, y \in Nat : x < y => <<x, y>> \in R
  BY DEF OpToRel
<1> HIDE DEF R
<1>3. PICK x \in T : \A y \in T : ~ (<<y, x>> \in R)
  BY <1>1, WFMin
<1>4. \A y \in T : ~ (y < x)
  BY <1>2, <1>3
<1> QED BY <1>4

(* Induction from the end of the day to its beginning. *)
LEMMA Backwards ==
  ASSUME NEW S, \A c \in 0..Day : (\A d \in (c + 1)..Day : d \in S) => c \in S
  PROVE  \A c \in 0..Day : c \in S
<1> SUFFICES ASSUME NEW e \in 0..Day, e \notin S PROVE FALSE
  OBVIOUS
<1> DEFINE Left == {n \in 0..Day : Day - n \notin S}
<1>1. Left \in SUBSET Nat
  BY DayAssumption
<1>2. Day - e \in Left
  <2>1. Day - (Day - e) = e /\ Day - e \in 0..Day
    BY DayAssumption
  <2> QED BY <2>1
<1>3. PICK n \in Left : \A k \in Left : n <= k
  BY <1>1, <1>2, LeastOf
<1>4. ASSUME NEW d \in (Day - n + 1)..Day PROVE d \in S
  <2>1. Day - d \in 0..Day /\ Day - d < n /\ Day - (Day - d) = d
    BY <1>4, DayAssumption
  <2>2. Day - d \notin Left
    BY <1>3, <2>1
  <2> QED BY <2>1, <2>2
<1>5. Day - n \in 0..Day
  BY DayAssumption
<1> QED BY <1>3, <1>4, <1>5

(* Rules. *)
LEMMA RuleFacts ==
  ASSUME NEW s \in Schedule
  PROVE  /\ DOMAIN s.rules \subseteq Nat
         /\ \A i \in DOMAIN s.rules : s.rules[i] \in Rule
         /\ s.open \in 0..(Day - 1) /\ s.close \in 1..Day
BY DayAssumption DEF Schedule

LEMMA PickWins ==
  ASSUME NEW s, NEW m, NEW r \in PickRule(s, m)
  PROVE  r \in DOMAIN s.rules /\ Winner(s, r, m)
<1>1. r \in Candidates(s, m) /\ \A j \in Candidates(s, m) \ {r} : Before(s, r, j)
  BY DEF PickRule
<1>2. CASE InBand(s.rules[r], m)
  <2>1. \A j \in DOMAIN s.rules : InBand(s.rules[j], m) => j \in Candidates(s, m)
    BY DEF Candidates
  <2> QED BY <1>1, <1>2, <2>1 DEF Candidates, Winner, Applies, Beats
<1>3. CASE ~ InBand(s.rules[r], m)
  <2>1. /\ \A j \in DOMAIN s.rules : ~ InBand(s.rules[j], m)
        /\ Candidates(s, m) = {i \in DOMAIN s.rules : ~ s.rules[i].banded}
    BY <1>1, <1>3 DEF Candidates
  <2>2. \A i, j : ~ InBand(s.rules[i], m) /\ ~ InBand(s.rules[j], m)
                   => InBand(s.rules[i], m) = InBand(s.rules[j], m)
    BY DEF InBand
  <2> QED BY <1>1, <1>3, <2>1, <2>2 DEF Winner, Applies, Beats
<1> QED BY <1>2, <1>3

LEMMA PickSome ==
  ASSUME NEW s \in Schedule, NEW m, PickRule(s, m) = {}
  PROVE  \A r \in DOMAIN s.rules : ~ Applies(s, r, m)
<1> DEFINE C == Candidates(s, m)
           rank(i) == Priority[s.rules[i].rate]
<1>1. C \subseteq DOMAIN s.rules /\ DOMAIN s.rules \subseteq Nat
  BY RuleFacts DEF Candidates
<1>2. \A i \in C : rank(i) \in Nat
  <2>1. \A k \in DOMAIN Priority : Priority[k] \in Nat
    BY DEF Priority
  <2> QED BY <1>1, <2>1, RuleFacts DEF Rule
<1>3. C = {}
  <2> SUFFICES ASSUME C # {} PROVE FALSE
    OBVIOUS
  <2>1. {rank(i) : i \in C} \in SUBSET Nat /\ {rank(i) : i \in C} # {}
    BY <1>2
  <2>2. PICK p \in {rank(i) : i \in C} : \A q \in {rank(i) : i \in C} : p <= q
    BY <2>1, LeastOf
  <2> DEFINE First == {i \in C : rank(i) = p}
  <2>3. First \in SUBSET Nat /\ First # {}
    BY <1>1, <2>2
  <2>4. PICK i \in First : \A j \in First : i <= j
    BY <2>3, LeastOf
  <2>5. ASSUME NEW j \in C \ {i} PROVE Before(s, i, j)
    <3>1. rank(i) \in Nat /\ rank(j) \in Nat /\ i \in Nat /\ j \in Nat
      BY <1>1, <1>2, <2>4
    <3>2. rank(i) < rank(j) \/ (rank(i) = rank(j) /\ j \in First)
      BY <2>2, <2>4, <3>1
    <3>3. rank(i) < rank(j) \/ (rank(i) = rank(j) /\ i < j)
      BY <2>4, <3>1, <3>2
    <3> QED BY <3>3 DEF Before
  <2> QED BY <2>4, <2>5 DEF PickRule
<1> QED BY <1>3 DEF Candidates, Applies

(* Where the loop goes from c: to a later time of the day. *)
LEMMA NextBand ==
  ASSUME NEW s \in Schedule, NEW c \in 0..Day, BandStarts(s, c) # {}
  PROVE  LET b == CHOOSE b \in BandStarts(s, c) : \A d \in BandStarts(s, c) : b <= d
         IN  b \in (c + 1)..Day /\ b \in BandStarts(s, c) /\ \A d \in BandStarts(s, c) : b <= d
<1>1. BandStarts(s, c) \in SUBSET Nat /\ BandStarts(s, c) \subseteq (c + 1)..Day
  BY DayAssumption DEF BandStarts
<1> QED BY <1>1, LeastOf

Ending(s, c) == c + s.rules[CHOOSE i \in PickRule(s, c) : TRUE].mins

LEMMA NextSlot ==
  ASSUME NEW s \in Schedule, NEW c \in 0..Day, PickRule(s, c) # {}
  PROVE  /\ Ending(s, c) \in Int /\ Ending(s, c) > c
         /\ \E r \in DOMAIN s.rules : Winner(s, r, c) /\ Ending(s, c) = c + s.rules[r].mins
<1> DEFINE r == CHOOSE i \in PickRule(s, c) : TRUE
<1>1. r \in PickRule(s, c)
  OBVIOUS
<1> HIDE DEF r
<1>2. r \in DOMAIN s.rules /\ Winner(s, r, c) /\ s.rules[r].mins \in 1..Day
  BY <1>1, PickWins, RuleFacts DEF Rule
<1>3. Ending(s, c) = c + s.rules[r].mins
  BY DEF Ending, r
<1>4. c + s.rules[r].mins \in Int /\ c + s.rules[r].mins > c
  BY <1>2, DayAssumption
<1> QED BY <1>2, <1>3, <1>4

(* A turn looks at later times only. *)
LEMMA TurnAhead ==
  ASSUME NEW s \in Schedule, NEW c \in 0..Day, NEW f, NEW g, \A d \in (c + 1)..Day : f[d] = g[d]
  PROVE  Turn(s, f, c) = Turn(s, g, c)
<1> DEFINE b == CHOOSE b \in BandStarts(s, c) : \A d \in BandStarts(s, c) : b <= d
           e == Ending(s, c)
<1>1. BandStarts(s, c) # {} => f[b] = g[b]
  BY NextBand
<1>2. PickRule(s, c) # {} /\ e < Day => f[e] = g[e]
  BY NextSlot, DayAssumption
<1>3. CASE PickRule(s, c) = {}
  BY <1>1, <1>3 DEF Turn
<1>4. CASE PickRule(s, c) # {}
  BY <1>2, <1>4 DEF Turn, Ending
<1> QED BY <1>3, <1>4

(* The recursion has a solution, and Plan is one. *)
LEMMA PlanTurns ==
  ASSUME NEW s \in Schedule
  PROVE  \E cut : (\A c \in 0..Day : cut[c] = Turn(s, cut, c)) /\ Plan(s) = cut[s.open]
<1> DEFINE Solved == {c \in 0..Day : \E g : \A d \in c..Day : g[d] = Turn(s, g, d)}
<1>1. ASSUME NEW c \in 0..Day, \A d \in (c + 1)..Day : d \in Solved PROVE c \in Solved
  <2>1. PICK g : \A d \in (c + 1)..Day : g[d] = Turn(s, g, d)
    <3>1. CASE c = Day
      BY <3>1, DayAssumption
    <3>2. CASE c # Day
      <4>1. c + 1 \in (c + 1)..Day
        BY <3>2, DayAssumption
      <4> QED BY <1>1, <4>1
    <3> QED BY <3>1, <3>2
  <2> DEFINE h == [d \in 0..Day |-> IF d = c THEN Turn(s, g, c) ELSE g[d]]
  <2>2. ASSUME NEW d \in c..Day PROVE h[d] = Turn(s, h, d)
    <3>1. d \in 0..Day /\ \A k \in (d + 1)..Day : k \in 0..Day /\ k # c
      BY <2>2, DayAssumption
    <3>2. \A k \in (d + 1)..Day : h[k] = g[k]
      BY <3>1
    <3> HIDE DEF h
    <3>3. Turn(s, h, d) = Turn(s, g, d)
      BY <3>1, <3>2, TurnAhead
    <3>4. h[d] = Turn(s, g, d)
      <4>1. d = c \/ (d # c /\ d \in (c + 1)..Day)
        BY <2>2, DayAssumption
      <4> QED BY <2>1, <3>1, <4>1 DEF h
    <3> QED BY <3>3, <3>4
  <2> HIDE DEF h
  <2> QED BY <2>2
<1>2. \A c \in 0..Day : c \in Solved
  <2> HIDE DEF Solved
  <2> QED BY <1>1, Backwards
<1>3. PICK g : \A d \in 0..Day : g[d] = Turn(s, g, d)
  BY <1>2, DayAssumption
<1> DEFINE h == [d \in 0..Day |-> g[d]]
<1>4. \A d \in 0..Day : Turn(s, h, d) = g[d]
  <2>1. ASSUME NEW d \in 0..Day PROVE Turn(s, h, d) = Turn(s, g, d)
    <3>1. \A k \in (d + 1)..Day : h[k] = g[k]
      BY DayAssumption
    <3> HIDE DEF h
    <3> QED BY <3>1, TurnAhead
  <2> QED BY <1>3, <2>1
<1>5. h = [d \in 0..Day |-> Turn(s, h, d)]
  <2> SUFFICES ASSUME NEW d \in 0..Day PROVE g[d] = Turn(s, h, d)
    OBVIOUS
  <2> QED BY <1>4
<1> HIDE DEF h
<1> DEFINE cut == CHOOSE f : f = [c \in 0..Day |-> Turn(s, f, c)]
<1>6. cut = [c \in 0..Day |-> Turn(s, cut, c)]
  BY <1>5
<1>7. Plan(s) = cut[s.open]
  BY DEF Plan
<1> HIDE DEF cut
<1>8. \A c \in 0..Day : cut[c] = Turn(s, cut, c)
  BY <1>6
<1> QED BY <1>7, <1>8

-----------------------------------------------------------------------------
(* A rest of the day is lawful from c on. *)
Within(s, c, plan) == \A i \in plan : /\ i.start \in c..(s.close - 1)
                                      /\ i.end \in (i.start + 1)..s.close
Apart(plan) == \A i, j \in plan : i = j \/ i.end <= j.start \/ j.end <= i.start
Priced(s, plan) == \A i \in plan : \E r \in DOMAIN s.rules :
                     Winner(s, r, i.start) /\ i.end = i.start + s.rules[r].mins
NothingFits(s, c, m, plan) ==
  \E e \in c..m : \E r \in DOMAIN s.rules :
     /\ Winner(s, r, e) /\ e + s.rules[r].mins > s.close
     /\ \A i \in plan : i.end <= e
Filled(s, c, plan) == \A m \in c..(s.close - 1) :
  Covered(plan, m) \/ (\A r \in DOMAIN s.rules : ~ Applies(s, r, m)) \/ NothingFits(s, c, m, plan)
LawfulFrom(s, c, plan) == Within(s, c, plan) /\ Apart(plan) /\ Priced(s, plan) /\ Filled(s, c, plan)

(* Where no rule applies none does until the next band starts. *)
LEMMA GapLasts ==
  ASSUME NEW s \in Schedule, NEW c \in 0..Day, PickRule(s, c) = {}, NEW m \in c..Day,
         \A b \in BandStarts(s, c) : m < b
  PROVE  \A r \in DOMAIN s.rules : ~ Applies(s, r, m)
<1> SUFFICES ASSUME NEW r \in DOMAIN s.rules, Applies(s, r, m) PROVE FALSE
  OBVIOUS
<1>1. ~ Applies(s, r, c)
  BY PickSome
<1>2. s.rules[r] \in Rule
  BY RuleFacts
<1>3. s.rules[r].banded /\ s.rules[r].from > c /\ s.rules[r].from <= m
  BY <1>1, <1>2, DayAssumption DEF Applies, InBand, Rule
<1>4. s.rules[r].from \in BandStarts(s, c)
  BY <1>2, <1>3, DayAssumption DEF BandStarts, Rule
<1> QED BY <1>2, <1>3, <1>4, DayAssumption DEF Rule

LEMMA NothingLeft ==
  ASSUME NEW s \in Schedule, NEW c \in 0..Day,
         \A m \in c..(s.close - 1) : (\A r \in DOMAIN s.rules : ~ Applies(s, r, m)) \/ NothingFits(s, c, m, {})
  PROVE  LawfulFrom(s, c, {})
BY DEF LawfulFrom, Within, Apart, Priced, Filled

(* After a gap. *)
LEMMA AfterGap ==
  ASSUME NEW s \in Schedule, NEW c \in 0..Day, NEW b \in (c + 1)..Day, NEW plan, LawfulFrom(s, b, plan),
         \A m \in c..(b - 1) : \A r \in DOMAIN s.rules : ~ Applies(s, r, m)
  PROVE  LawfulFrom(s, c, plan)
<1>1. c \in Nat /\ b \in Nat /\ c < b /\ s.close \in Nat
  BY RuleFacts, DayAssumption
<1>2. Within(s, c, plan)
  BY <1>1 DEF LawfulFrom, Within
<1>3. Filled(s, c, plan)
  <2> SUFFICES ASSUME NEW m \in c..(s.close - 1), ~ Covered(plan, m),
                      ~ \A r \in DOMAIN s.rules : ~ Applies(s, r, m)
               PROVE  NothingFits(s, c, m, plan)
    BY DEF Filled
  <2>1. m \in b..(s.close - 1)
    BY <1>1
  <2>2. NothingFits(s, b, m, plan)
    BY <2>1 DEF LawfulFrom, Filled
  <2>3. \A e \in b..m : e \in c..m
    BY <1>1
  <2> QED BY <2>2, <2>3 DEF NothingFits
<1> QED BY <1>2, <1>3 DEF LawfulFrom

(* A slot, and what follows it. *)
LEMMA AfterSlot ==
  ASSUME NEW s \in Schedule, NEW c \in 0..Day, NEW e \in (c + 1)..s.close, NEW plan, LawfulFrom(s, e, plan),
         \E r \in DOMAIN s.rules : Winner(s, r, c) /\ e = c + s.rules[r].mins
  PROVE  LawfulFrom(s, c, {[start |-> c, end |-> e]} \cup plan)
<1> DEFINE slot == [start |-> c, end |-> e]
           all  == {slot} \cup plan
<1>1. c \in Nat /\ e \in Nat /\ c < e /\ e <= s.close /\ s.close \in Nat
  BY RuleFacts, DayAssumption
<1>2. slot.start = c /\ slot.end = e /\ slot \in all /\ plan \subseteq all
      /\ \A i \in all : i = slot \/ i \in plan
  OBVIOUS
<1> HIDE DEF slot, all
<1>3. \A i \in plan : i.start \in e..(s.close - 1) /\ i.end \in (i.start + 1)..s.close
  BY DEF LawfulFrom, Within
<1>4. Within(s, c, all)
  BY <1>1, <1>2, <1>3 DEF Within
<1>5. Apart(all)
  <2> SUFFICES ASSUME NEW i \in all, NEW j \in all PROVE i = j \/ i.end <= j.start \/ j.end <= i.start
    BY DEF Apart
  <2>1. CASE i \in plan /\ j \in plan
    BY <2>1 DEF LawfulFrom, Apart
  <2>2. CASE i = slot \/ j = slot
    BY <1>1, <1>2, <1>3, <2>2
  <2> QED BY <1>2, <2>1, <2>2
<1>6. Priced(s, all)
  BY <1>2 DEF LawfulFrom, Priced
<1>7. Filled(s, c, all)
  <2> SUFFICES ASSUME NEW m \in c..(s.close - 1), ~ Covered(all, m),
                      ~ \A r \in DOMAIN s.rules : ~ Applies(s, r, m)
               PROVE  NothingFits(s, c, m, all)
    BY DEF Filled
  <2>1. m \in e..(s.close - 1)
    BY <1>1, <1>2 DEF Covered
  <2>2. ~ Covered(plan, m)
    BY <1>2 DEF Covered
  <2>3. NothingFits(s, e, m, plan)
    BY <2>1, <2>2 DEF LawfulFrom, Filled
  <2>4. PICK t \in e..m : \E r \in DOMAIN s.rules :
          Winner(s, r, t) /\ t + s.rules[r].mins > s.close /\ \A i \in plan : i.end <= t
    BY <2>3 DEF NothingFits
  <2>5. t \in c..m /\ slot.end <= t
    BY <1>1, <1>2
  <2>6. \A i \in all : (\A k \in plan : k.end <= t) => i.end <= t
    BY <1>2, <2>5
  <2> QED BY <2>4, <2>5, <2>6 DEF NothingFits
<1>8. LawfulFrom(s, c, all)
  BY <1>4, <1>5, <1>6, <1>7 DEF LawfulFrom
<1> QED BY <1>8 DEF all, slot

(* One turn, if the rest of the day is lawful. *)
LEMMA TurnLawful ==
  ASSUME NEW s \in Schedule, NEW c \in 0..Day, NEW rest, \A d \in (c + 1)..Day : LawfulFrom(s, d, rest[d])
  PROVE  LawfulFrom(s, c, Turn(s, rest, c))
<1> DEFINE b == CHOOSE b \in BandStarts(s, c) : \A d \in BandStarts(s, c) : b <= d
           e == Ending(s, c)
<1>0. c \in Nat /\ s.close \in 1..Day /\ s.close \in Nat
  BY RuleFacts, DayAssumption
<1>1. CASE c >= s.close
  <2>1. Turn(s, rest, c) = {}
    BY <1>0, <1>1 DEF Turn
  <2>2. c..(s.close - 1) = {}
    BY <1>0, <1>1
  <2> QED BY <2>1, <2>2, NothingLeft
<1>2. CASE c < s.close /\ PickRule(s, c) = {} /\ BandStarts(s, c) = {}
  <2>1. Turn(s, rest, c) = {}
    BY <1>0, <1>2 DEF Turn
  <2>2. \A m \in c..(s.close - 1) : m \in c..Day
    BY <1>0, DayAssumption
  <2> QED BY <1>2, <2>1, <2>2, NothingLeft, GapLasts
<1>3. CASE c < s.close /\ PickRule(s, c) = {} /\ BandStarts(s, c) # {}
  <2>1. Turn(s, rest, c) = rest[b]
    BY <1>0, <1>3 DEF Turn
  <2>2. b \in (c + 1)..Day /\ \A d \in BandStarts(s, c) : b <= d
    BY <1>3, NextBand
  <2>3. BandStarts(s, c) \subseteq Int
    BY DEF BandStarts
  <2> HIDE DEF b
  <2>4. \A m \in c..(b - 1) : m \in c..Day /\ \A d \in BandStarts(s, c) : m < d
    BY <1>0, <2>2, <2>3, DayAssumption
  <2>5. \A m \in c..(b - 1) : \A r \in DOMAIN s.rules : ~ Applies(s, r, m)
    BY <1>3, <2>4, GapLasts
  <2> QED BY <2>1, <2>2, <2>5, AfterGap
<1>4. CASE c < s.close /\ PickRule(s, c) # {} /\ e > s.close
  <2>1. Turn(s, rest, c) = {}
    BY <1>0, <1>4 DEF Turn, Ending
  <2>2. PICK r \in DOMAIN s.rules : Winner(s, r, c) /\ e = c + s.rules[r].mins
    BY <1>4, NextSlot
  <2>3. \A m \in c..(s.close - 1) : NothingFits(s, c, m, {})
    BY <1>0, <1>4, <2>2 DEF NothingFits
  <2> QED BY <2>1, <2>3, NothingLeft
<1>5. CASE c < s.close /\ PickRule(s, c) # {} /\ ~ e > s.close
  <2> DEFINE after == IF e < Day THEN rest[e] ELSE {}
  <2>1. Turn(s, rest, c) = {[start |-> c, end |-> e]} \cup after
    BY <1>0, <1>5 DEF Turn, Ending
  <2>2. e \in (c + 1)..s.close /\ e \in (c + 1)..Day
    <3>1. e \in Int /\ e > c
      BY <1>5, NextSlot
    <3>2. ~ e > s.close
      BY <1>5
    <3> HIDE DEF e
    <3> QED BY <1>0, <3>1, <3>2, DayAssumption
  <2>3. LawfulFrom(s, e, after)
    <3>1. CASE e < Day
      BY <2>2, <3>1
    <3>2. CASE ~ e < Day
      <4>1. e \in 0..Day /\ e..(s.close - 1) = {}
        BY <1>0, <2>2, <3>2, DayAssumption
      <4> QED BY <3>2, <4>1, NothingLeft
    <3> QED BY <3>1, <3>2
  <2>4. \E r \in DOMAIN s.rules : Winner(s, r, c) /\ e = c + s.rules[r].mins
    BY <1>5, NextSlot
  <2> HIDE DEF e, after
  <2> QED BY <2>1, <2>2, <2>3, <2>4, AfterSlot
<1> QED BY <1>1, <1>2, <1>3, <1>4, <1>5, <1>0

LEMMA PlanLawful ==
  ASSUME NEW s \in Schedule
  PROVE  LawfulFrom(s, s.open, Plan(s))
<1>1. PICK cut : (\A c \in 0..Day : cut[c] = Turn(s, cut, c)) /\ Plan(s) = cut[s.open]
  BY PlanTurns
<1> DEFINE Good == {c \in 0..Day : LawfulFrom(s, c, cut[c])}
<1>2. ASSUME NEW c \in 0..Day, \A d \in (c + 1)..Day : d \in Good PROVE c \in Good
  BY <1>1, <1>2, TurnLawful
<1>3. \A c \in 0..Day : c \in Good
  <2> HIDE DEF Good
  <2> QED BY <1>2, Backwards
<1>4. s.open \in 0..Day
  BY RuleFacts, DayAssumption
<1> QED BY <1>1, <1>3, <1>4

(* The slots of a plan lie on the day. *)
LEMMA PlansFit ==
  \A s \in Schedules : \A i \in Plan(s) : i.start \in Starts /\ i.end \in 0..Day
<1> SUFFICES ASSUME NEW s \in Schedule, NEW i \in Plan(s) PROVE i.start \in Starts /\ i.end \in 0..Day
  BY ScheduleAssumption
<1>1. i.start \in s.open..(s.close - 1) /\ i.end \in (i.start + 1)..s.close
  BY PlanLawful DEF LawfulFrom, Within
<1> QED BY <1>1, RuleFacts, DayAssumption DEF Starts

(* The whole day. *)
LEMMA PlansAreLawful ==
  \A s \in Schedule : Lawful(s, Plan(s))
<1> SUFFICES ASSUME NEW s \in Schedule PROVE Lawful(s, Plan(s))
  OBVIOUS
<1> DEFINE plan == Plan(s)
<1>1. LawfulFrom(s, s.open, plan)
  BY PlanLawful
<1>2. s.open \in Nat /\ s.close \in Nat
  BY RuleFacts, DayAssumption
<1> HIDE DEF plan
<1>3. \A i \in plan : s.open <= i.start /\ i.start < i.end /\ i.end <= s.close
  BY <1>1, <1>2 DEF LawfulFrom, Within
<1>4. \A m \in s.open..(s.close - 1) : ~ Covered(plan, m) =>
        (\A r \in DOMAIN s.rules : ~ Applies(s, r, m)) \/ NothingFits(s, s.open, m, plan)
  BY <1>1 DEF LawfulFrom, Filled
<1>5. Lawful(s, plan)
  BY <1>1, <1>3, <1>4 DEF LawfulFrom, Apart, Priced, NothingFits, Lawful
<1> QED BY <1>5 DEF plan

-----------------------------------------------------------------------------
(* Types. *)

(* TypeOK, that rows are counted from their first, and that a generation   *)
(* has a plan.                                                             *)
Shape ==
  /\ TypeOK /\ schedule \in Schedules
  /\ \A s \in Existing : row[s].n > 0
  /\ \A h \in Staff : hand[h].at \in {"read", "delete", "create"} => hand[h].made \in Busy

LEMMA Blank == Idle \in Hand /\ NoRow \in Row
BY DayAssumption, ScheduleAssumption DEF Idle, Hand, NoRow, Row

(* Rows deleted keep the number of their last.                             *)
LEMMA Deleted ==
  ASSUME Shape, NEW ids, DeleteRows(ids)
  PROVE  /\ row' \in [Starts -> Row]
         /\ \A s \in Starts : row'[s].n = row[s].n
         /\ \A s \in Starts : row'[s].status = "absent" => row'[s] = [NoRow EXCEPT !.n = row'[s].n]
         /\ \A s \in Starts : row'[s].status # "absent" => s \in Existing
         /\ \A s \in Starts : row'[s].status = "absent" => s \notin Existing \/ s \in Found(ids)
<1>1. \A s \in Starts : /\ [NoRow EXCEPT !.n = row[s].n] \in Row
                        /\ [NoRow EXCEPT !.n = row[s].n].n = row[s].n
                        /\ [NoRow EXCEPT !.n = row[s].n].status = "absent"
  BY Blank DEF Shape, TypeOK, Row, NoRow
<1>2. \A s \in Starts : row'[s] = IF s \in Found(ids) THEN [NoRow EXCEPT !.n = row[s].n] ELSE row[s]
  BY DEF DeleteRows
<1>3. row' \in [Starts -> Row]
  BY <1>1 DEF DeleteRows, Shape, TypeOK
<1>4. \A s \in Starts : row[s].status = "absent" => row[s] = [NoRow EXCEPT !.n = row[s].n]
  BY DEF Shape, TypeOK
<1> QED BY <1>1, <1>2, <1>3, <1>4 DEF Existing, Found

(* createMany adds rows where there are none, and nothing else.            *)
LEMMA Created ==
  ASSUME Shape, NEW h \in Staff, GenCreate(h)
  PROVE  /\ row' \in [Starts -> Row]
         /\ \A i \in Missing(h) : /\ i.start \in Starts \ Existing
                                  /\ row'[i.start].n > 0 /\ row'[i.start].status = "available"
         /\ \A i \in Missing(h) : \E j \in Missing(h) : j.start = i.start /\ j.end = row'[i.start].end
         /\ \A s \in Starts : (\A i \in Missing(h) : i.start # s) => row'[s] = row[s]
         /\ \A s \in Starts : row'[s].status = "absent" => row'[s] = row[s]
<1>1. hand[h].made \in Schedules
  BY ScheduleAssumption DEF GenCreate, Shape
<1>2. \A i \in Missing(h) : i.start \in Starts \ Existing /\ i.end \in 0..Day
  BY <1>1, PlansFit DEF Missing
<1>3. ASSUME NEW s \in Starts, NEW i \in Missing(h), i.start = s
      PROVE  /\ row'[s] \in Row /\ row'[s].n > 0 /\ row'[s].status = "available"
             /\ \E j \in Missing(h) : j.start = s /\ j.end = row'[s].end
  <2> DEFINE e == (CHOOSE j \in Missing(h) : j.start = s).end
  <2>1. e \in 0..Day /\ \E j \in Missing(h) : j.start = s /\ j.end = e
    BY <1>2, <1>3
  <2>2. row'[s] = [NoRow EXCEPT !.n = row[s].n + 1, !.status = "available", !.end = e]
    BY <1>3 DEF GenCreate
  <2> HIDE DEF e
  <2>3. row[s].n \in 0..Versions /\ row[s].n < Versions
    BY <1>3 DEF GenCreate, Shape, TypeOK, Row
  <2>4. row[s].n + 1 \in 0..Versions /\ row[s].n + 1 > 0
    BY <2>3, ScheduleAssumption
  <2> QED BY <2>1, <2>2, <2>4, Blank DEF Row, NoRow
<1>4. ASSUME NEW s \in Starts, \A i \in Missing(h) : i.start # s
      PROVE  row'[s] = row[s]
  BY <1>4 DEF GenCreate
<1>5. row' \in [Starts -> Row]
  <2>1. \A s \in Starts : row'[s] \in Row
    BY <1>3, <1>4 DEF Shape, TypeOK
  <2> QED BY <2>1 DEF GenCreate
<1> QED BY <1>2, <1>3, <1>4, <1>5

(* Customers and staff edit a row that exists, which stays.                *)
EditsOf(s) == LockSlot(s) \/ LockExpires(s) \/ Unlock(s) \/ Book(s) \/ Cancel(s)
                \/ Deactivate(s) \/ Reactivate(s)

LEMMA Edited ==
  ASSUME Shape, NEW s \in Starts, EditsOf(s)
  PROVE  /\ row' \in [Starts -> Row] /\ UNCHANGED <<schedule, hand, steady, calm>>
         /\ s \in Existing /\ row'[s].status # "absent" /\ row'[s].n = row[s].n
         /\ \A t \in Starts : t # s => row'[t] = row[t]
         /\ row[s].booking # "never" => row'[s].booking # "never"
         /\ row'[s].end = row[s].end
<1>1. row[s] \in Row /\ (row[s].status = "absent" => row[s].lock = "none" /\ row[s].booking = "never")
  BY DEF Shape, TypeOK, NoRow, Row
<1> USE DEF Edit, Existing, Row
<1>2. CASE LockSlot(s)
  BY <1>1, <1>2 DEF LockSlot, Shape, TypeOK
<1>3. CASE LockExpires(s)
  BY <1>1, <1>3 DEF LockExpires, Shape, TypeOK
<1>4. CASE Unlock(s)
  BY <1>1, <1>4 DEF Unlock, Shape, TypeOK
<1>5. CASE Book(s)
  BY <1>1, <1>5 DEF Book, Shape, TypeOK
<1>6. CASE Cancel(s)
  BY <1>1, <1>6 DEF Cancel, Shape, TypeOK
<1>7. CASE Deactivate(s)
  BY <1>1, <1>7 DEF Deactivate, Shape, TypeOK
<1>8. CASE Reactivate(s)
  BY <1>1, <1>8 DEF Reactivate, Shape, TypeOK
<1> QED BY <1>2, <1>3, <1>4, <1>5, <1>6, <1>7, <1>8 DEF EditsOf

(* What a generation has read.                                             *)
LEMMA ReadRows ==
  ASSUME Shape, NEW h \in Staff, GenRead(h)
  PROVE  /\ hand'[h] \in Hand
         /\ hand'[h].made = hand[h].made /\ hand'[h].at \in {"delete", "create"}
         /\ hand'[h].kept \subseteq Existing
         /\ \A s \in hand'[h].kept : \A n \in Nat : <<s, n>> \notin hand'[h].gone
         /\ \A k \in Staff : k # h => hand'[k] = hand[k]
         /\ hand' \in [Staff -> Hand]
<1> DEFINE removable == IF hand[h].overwrite
                        THEN {s \in Existing : row[s].status = "available" /\ row[s].lock # "live"}
                        ELSE {}
           at   == IF removable # {} THEN "delete" ELSE "create"
           gone == {<<s, row[s].n>> : s \in removable}
           kept == Existing \ removable
<1>1. hand' = [hand EXCEPT ![h].at = at, ![h].gone = gone, ![h].kept = kept]
  BY DEF GenRead, Kept
<1>2. removable \subseteq Existing /\ Existing \subseteq Starts
  BY DEF Existing
<1>3. \A s \in Existing : row[s].n \in 1..Versions
  BY DEF Shape, TypeOK, Row, Existing
<1>4. gone \in SUBSET RowId
  BY <1>2, <1>3 DEF RowId
<1>5. kept \in SUBSET Starts /\ kept \subseteq Existing /\ at \in {"delete", "create"}
  BY <1>2
<1>6. \A s \in kept : \A n \in Nat : <<s, n>> \notin gone
  OBVIOUS
<1> HIDE DEF removable, at, gone, kept
<1>7. hand \in [Staff -> Hand] /\ hand[h] \in Hand
  BY DEF Shape, TypeOK
<1>8. /\ hand'[h].at = at /\ hand'[h].gone = gone /\ hand'[h].kept = kept
      /\ hand'[h].made = hand[h].made /\ hand'[h] \in Hand
  BY <1>1, <1>4, <1>5, <1>7 DEF Hand
<1>9. (\A k \in Staff : k # h => hand'[k] = hand[k]) /\ hand' \in [Staff -> Hand]
  BY <1>1, <1>7, <1>8
<1> QED BY <1>5, <1>6, <1>8, <1>9

LEMMA ShapeKept ==
  ASSUME Shape, [Next]_vars
  PROVE  Shape'
<1>0. /\ hand \in [Staff -> Hand] /\ row \in [Starts -> Row] /\ schedule \in Schedules
      /\ Busy \subseteq Schedules /\ Schedules \subseteq Schedule /\ steady \in BOOLEAN /\ calm \in BOOLEAN
  BY ScheduleAssumption DEF Shape, TypeOK
<1>1. ASSUME NEW h \in Staff, NEW overwrite \in BOOLEAN, GenPlan(h, overwrite) PROVE Shape'
  <2>1. [Idle EXCEPT !.at = "read", !.made = schedule, !.overwrite = overwrite] \in Hand
    BY <1>1, Blank DEF Hand, GenPlan
  <2>2. [Idle EXCEPT !.at = "read", !.made = schedule, !.overwrite = overwrite].made \in Busy
    BY <1>1, Blank DEF Hand, GenPlan, Idle
  <2> QED BY <1>0, <1>1, <2>1, <2>2 DEF GenPlan, Shape, TypeOK, Existing
<1>2. ASSUME NEW h \in Staff, GenRead(h) PROVE Shape'
  <2>1. hand' \in [Staff -> Hand] /\ \A k \in Staff : hand'[k].at \in {"read", "delete", "create"} => hand'[k].made \in Busy
    BY <1>2, ReadRows DEF GenRead, Shape
  <2> QED BY <1>0, <1>2, <2>1 DEF GenRead, Shape, TypeOK, Existing
<1>3. ASSUME NEW h \in Staff, GenDelete(h) PROVE Shape'
  <2>1. hand' \in [Staff -> Hand] /\ \A k \in Staff : hand'[k].made = hand[k].made
    BY <1>0, <1>3 DEF GenDelete, Hand
  <2>2. \A k \in Staff : hand'[k].at \in {"read", "delete", "create"} => hand[k].at \in {"read", "delete", "create"}
    BY <1>0, <1>3 DEF GenDelete, Hand
  <2> QED BY <1>0, <1>3, <2>1, <2>2, Deleted DEF GenDelete, Shape, TypeOK, Existing
<1>4. ASSUME NEW h \in Staff, GenCreate(h) PROVE Shape'
  <2>1. hand' \in [Staff -> Hand] /\ \A k \in Staff : hand'[k] = hand[k] \/ hand'[k] = Idle
    BY <1>0, <1>4, Blank DEF GenCreate
  <2>2. \A s \in Starts : row'[s].status = "absent" => row'[s] = [NoRow EXCEPT !.n = row'[s].n]
    BY <1>4, Created DEF Shape, TypeOK
  <2>3. ASSUME NEW s \in Starts, row'[s].status # "absent" PROVE row'[s].n > 0
    <3>1. CASE \E i \in Missing(h) : i.start = s
      BY <1>4, <3>1, Created
    <3>2. CASE \A i \in Missing(h) : i.start # s
      BY <1>4, <2>3, <3>2, Created DEF Shape, Existing
    <3> QED BY <3>1, <3>2
  <2>4. row' \in [Starts -> Row]
    BY <1>4, Created
  <2> QED BY <1>0, <1>4, <2>1, <2>2, <2>3, <2>4 DEF GenCreate, Shape, TypeOK, Existing, Idle
<1>5. ASSUME NEW h \in Staff, NEW s \in Starts, DeleteRead(h, s) PROVE Shape'
  <2>1. <<s, row[s].n>> \in RowId
    BY <1>0, <1>5 DEF DeleteRead, Shape, Existing, RowId, Row
  <2>2. [Idle EXCEPT !.at = "deleteOne", !.gone = {<<s, row[s].n>>}] \in Hand
    BY <2>1, Blank DEF Hand
  <2>3. [Idle EXCEPT !.at = "deleteOne", !.gone = {<<s, row[s].n>>}].at = "deleteOne"
    BY DEF Idle
  <2> QED BY <1>0, <1>5, <2>2, <2>3 DEF DeleteRead, Shape, TypeOK, Existing
<1>6. ASSUME NEW h \in Staff, DeleteCommit(h) PROVE Shape'
  <2>1. hand' \in [Staff -> Hand] /\ \A k \in Staff : hand'[k] = hand[k] \/ hand'[k] = Idle
    BY <1>0, <1>6, Blank DEF DeleteCommit
  <2> QED BY <1>0, <1>6, <2>1, Deleted DEF DeleteCommit, Shape, TypeOK, Existing, Idle
<1>7. ASSUME NEW h \in Staff, Fails(h) \/ GenRefused(h) PROVE Shape'
  <2>1. hand' \in [Staff -> Hand] /\ \A k \in Staff : hand'[k] = hand[k] \/ hand'[k] = Idle
    BY <1>0, <1>7, Blank DEF Fails, GenRefused
  <2>2. row' = row /\ schedule' = schedule /\ steady' \in BOOLEAN /\ calm' \in BOOLEAN
    BY <1>0, <1>7 DEF Fails, GenRefused
  <2> QED BY <1>0, <2>1, <2>2 DEF Shape, TypeOK, Existing, Idle
<1>8. ASSUME NEW s \in Starts, EditsOf(s) PROVE Shape'
  <2>1. \A t \in Starts : row'[t].status = "absent" => row'[t] = [NoRow EXCEPT !.n = row'[t].n]
    BY <1>8, Edited DEF Shape, TypeOK
  <2>2. \A t \in Starts : row'[t].status # "absent" => row'[t].n > 0
    BY <1>8, Edited DEF Shape, Existing
  <2> QED BY <1>0, <1>8, <2>1, <2>2, Edited DEF Shape, TypeOK, Existing
<1>9. ASSUME NEW s \in Busy, ChangeSchedule(s) PROVE Shape'
  BY <1>0, <1>9 DEF ChangeSchedule, Shape, TypeOK, Existing
<1>10. CASE UNCHANGED vars
  BY <1>10 DEF vars, Shape, TypeOK, Existing
<1> QED
  BY <1>1, <1>2, <1>3, <1>4, <1>5, <1>6, <1>7, <1>8, <1>9, <1>10 DEF Next, EditsOf

LEMMA ShapeAtFirst == Init => Shape
<1>1. [NoRow EXCEPT !.n = NoRow.n] = NoRow
  BY DEF NoRow
<1> SUFFICES ASSUME Init PROVE Shape
  OBVIOUS
<1>2. /\ \A s \in Starts : row[s] = NoRow
      /\ row \in [Starts -> Row] /\ hand \in [Staff -> Hand]
      /\ \A h \in Staff : hand[h] = Idle
      /\ schedule \in Schedules /\ schedule \in Schedule /\ steady \in BOOLEAN /\ calm \in BOOLEAN
  BY Blank, ScheduleAssumption DEF Init
<1>3. Existing = {}
  BY <1>2 DEF Existing, NoRow
<1>4. \A h \in Staff : hand[h].at = "idle"
  BY <1>2 DEF Idle
<1>5. TypeOK
  BY <1>1, <1>2 DEF TypeOK
<1> QED BY <1>2, <1>3, <1>4, <1>5 DEF Shape

(* Rows, schedule and requests of staff have their types in every state.   *)
THEOREM CalendarTypes == Spec => []TypeOK
<1>1. Shape /\ [Next]_vars => Shape'
  BY ShapeKept
<1>2. Shape => TypeOK
  BY DEF Shape
<1> QED BY <1>1, <1>2, ShapeAtFirst, PTL DEF Spec

(* Whatever the hours and the rules of the day are, at any time, the slots *)
(* that generateSlotsForDate plans lie within the hours, do not overlap,   *)
(* have the length of the rule that wins at their start, and leave unsold  *)
(* only what no rule prices or a rest too short for its slot.              *)
THEOREM PlansStayLawful == Spec => []PlanIsLawful
<1>1. Shape /\ [Next]_vars => Shape'
  BY ShapeKept
<1>2. Shape => PlanIsLawful
  BY PlansAreLawful DEF Shape, TypeOK, PlanIsLawful
<1> QED BY <1>1, <1>2, ShapeAtFirst, PTL DEF Spec

-----------------------------------------------------------------------------
(* A day stays complete. *)

(* What a request has read stays true of the day: a start time it found    *)
(* occupied has had a row, it plans with the schedule in force, and of the *)
(* rows it is to delete it counts none as kept.                            *)
Reads(h) ==
  /\ \A s \in hand[h].kept : row[s].n > 0
  /\ calm /\ hand[h].at \in {"read", "delete", "create"} => hand[h].made = schedule
  /\ hand[h].at = "delete" => \A s \in hand[h].kept : \A n \in Nat : <<s, n>> \notin hand[h].gone

(* Someone is about to put a slot at s.                                    *)
Restored(s) == \E h \in Staff : hand[h].at = "create" /\ s \notin hand[h].kept

DayInv ==
  /\ Shape
  /\ \A h \in Staff : Reads(h)
  /\ calm /\ (\E s \in Starts : row[s].n > 0) => \A i \in Plan(schedule) : row[i.start].n > 0
  /\ calm => \A i \in Plan(schedule) :
       row[i.start].n > 0 /\ i.start \notin Existing => Restored(i.start)

(* A step that is not a generation's, makes no row and deletes none.       *)
LEMMA QuietDay ==
  ASSUME DayInv, schedule' = schedule, calm' = calm,
         \A s \in Starts : row'[s].n = row[s].n /\ (row'[s].status = "absent" => s \notin Existing),
         \A h \in Staff : Reads(h)',
         \A s \in Starts : Restored(s) => Restored(s)', Shape'
  PROVE  DayInv'
<1>1. \A i \in Plan(schedule) : i.start \in Starts
  BY PlansFit DEF DayInv, Shape
<1> QED BY <1>1 DEF DayInv, Existing

LEMMA DayKept ==
  ASSUME DayInv, [Next]_vars
  PROVE  DayInv'
<1>0. /\ hand \in [Staff -> Hand] /\ row \in [Starts -> Row] /\ schedule \in Schedules /\ Shape
      /\ \A h \in Staff : hand[h].kept \subseteq Starts
  BY DEF DayInv, Shape, TypeOK, Hand, Idle
<1>1. Shape'
  BY <1>0, ShapeKept
<1>2. \A i \in Plan(schedule) : i.start \in Starts
  BY <1>0, PlansFit
<1>3. ASSUME NEW h \in Staff, NEW overwrite \in BOOLEAN, GenPlan(h, overwrite) PROVE DayInv'
  <2>1. /\ hand'[h] = [Idle EXCEPT !.at = "read", !.made = schedule, !.overwrite = overwrite]
        /\ \A k \in Staff : k # h => hand'[k] = hand[k]
        /\ hand[h].at = "idle"
    BY <1>0, <1>3 DEF GenPlan, Idle
  <2>2. hand'[h].at = "read" /\ hand'[h].made = schedule /\ hand'[h].kept = {}
    BY <2>1 DEF Idle
  <2>3. UNCHANGED <<schedule, row, steady, calm>>
    BY <1>3 DEF GenPlan
  <2>4. \A k \in Staff : Reads(k)'
    BY <2>1, <2>2, <2>3 DEF DayInv, Reads
  <2>5. \A s \in Starts : Restored(s) => Restored(s)'
    BY <2>1 DEF Restored
  <2> QED BY <1>1, <2>3, <2>4, <2>5, QuietDay DEF Existing
<1>4. ASSUME NEW h \in Staff, GenRead(h) PROVE DayInv'
  <2>1. UNCHANGED <<schedule, row, steady, calm>> /\ hand[h].at = "read"
    BY <1>4 DEF GenRead
  <2>2. \A k \in Staff : Reads(k)'
    <3>1. Reads(h)'
      BY <1>0, <1>4, <2>1, ReadRows DEF DayInv, Reads, Shape
    <3> QED BY <1>0, <1>4, <2>1, <3>1, ReadRows DEF DayInv, Reads
  <2>3. \A s \in Starts : Restored(s) => Restored(s)'
    BY <1>0, <1>4, <2>1, ReadRows DEF Restored
  <2> QED BY <1>1, <2>1, <2>2, <2>3, QuietDay DEF Existing
<1>5. ASSUME NEW h \in Staff, GenDelete(h) PROVE DayInv'
  <2>1. /\ UNCHANGED <<schedule, steady, calm>> /\ hand[h].at = "delete" /\ DeleteRows(hand[h].gone)
        /\ hand'[h].at = "create" /\ hand'[h].kept = hand[h].kept /\ hand'[h].made = hand[h].made
        /\ \A k \in Staff : k # h => hand'[k] = hand[k]
    BY <1>0, <1>5 DEF GenDelete, Hand
  <2>2. \A s \in Starts : row'[s].n = row[s].n
    BY <1>0, <2>1, Deleted
  <2>3. \A k \in Staff : Reads(k)'
    BY <1>0, <2>1, <2>2 DEF DayInv, Reads
  <2>4. ASSUME NEW s \in Starts, row'[s].n > 0, row'[s].status = "absent",
               s \in Existing \/ Restored(s)
        PROVE  Restored(s)'
    <3>1. CASE s \in Existing
      <4>1. s \in Found(hand[h].gone)
        BY <1>0, <2>1, <2>4, <3>1, Deleted
      <4>2. row[s].n \in Nat
        BY <1>0, ScheduleAssumption DEF Row
      <4>3. s \notin hand[h].kept
        BY <2>1, <4>1, <4>2 DEF DayInv, Reads, Found
      <4> QED BY <2>1, <4>3 DEF Restored
    <3>2. CASE s \notin Existing
      BY <2>1, <2>4, <3>2 DEF Restored
    <3> QED BY <3>1, <3>2
  <2> QED BY <1>1, <1>2, <2>1, <2>2, <2>3, <2>4 DEF DayInv, Existing
<1>6. ASSUME NEW h \in Staff, GenCreate(h) PROVE DayInv'
  <2>1. /\ UNCHANGED <<schedule, steady, calm>> /\ hand[h].at = "create" /\ hand'[h] = Idle
        /\ \A k \in Staff : k # h => hand'[k] = hand[k]
    BY <1>0, <1>6 DEF GenCreate
  <2>2. \A s \in Starts : row[s].n > 0 => row'[s].n > 0
    BY <1>0, <1>6, Created
  <2>3. \A k \in Staff : Reads(k)'
    BY <1>0, <2>1, <2>2 DEF DayInv, Reads, Idle
  <2>4. ASSUME calm, NEW i \in Plan(schedule), i.start \notin hand[h].kept \cup Existing
        PROVE  row'[i.start].n > 0 /\ row'[i.start].status # "absent"
    <3>1. i \in Missing(h)
      BY <2>1, <2>4 DEF DayInv, Reads, Missing
    <3> QED BY <1>0, <1>6, <3>1, Created
  <2>5. ASSUME calm, NEW t \in Starts, row'[t].n > 0, NEW i \in Plan(schedule)
        PROVE  row'[i.start].n > 0
    <3>1. CASE \E s \in Starts : row[s].n > 0
      BY <1>2, <2>2, <2>5, <3>1 DEF DayInv
    <3>2. CASE \A s \in Starts : ~ row[s].n > 0
      <4>1. i.start \notin hand[h].kept \cup Existing
        BY <1>0, <3>2 DEF DayInv, Reads, Shape, Existing
      <4> QED BY <2>4, <2>5, <4>1
    <3> QED BY <3>1, <3>2
  <2>6. ASSUME calm, NEW i \in Plan(schedule), row'[i.start].n > 0, row'[i.start].status = "absent"
        PROVE  Restored(i.start)'
    <3>1. row'[i.start] = row[i.start]
      BY <1>0, <1>2, <1>6, <2>6, Created
    <3>2. PICK k \in Staff : hand[k].at = "create" /\ i.start \notin hand[k].kept
      BY <1>2, <2>6, <3>1 DEF DayInv, Restored, Existing
    <3>3. k # h
      BY <2>4, <2>6, <3>1, <3>2 DEF Existing
    <3> QED BY <2>1, <3>2, <3>3 DEF Restored
  <2>7. calm' /\ (\E s \in Starts : row'[s].n > 0) => \A i \in Plan(schedule)' : row'[i.start].n > 0
    BY <2>1, <2>5
  <2>8. calm' => \A i \in Plan(schedule)' :
          row'[i.start].n > 0 /\ i.start \notin Existing' => Restored(i.start)'
    BY <1>2, <2>1, <2>6 DEF Existing
  <2> QED BY <1>1, <2>3, <2>7, <2>8 DEF DayInv
<1>7. ASSUME NEW h \in Staff, NEW s \in Starts, DeleteRead(h, s) PROVE DayInv'
  <2>1. /\ hand'[h] = [Idle EXCEPT !.at = "deleteOne", !.gone = {<<s, row[s].n>>}]
        /\ \A k \in Staff : k # h => hand'[k] = hand[k]
        /\ hand[h].at = "idle"
    BY <1>0, <1>7 DEF DeleteRead, Idle
  <2>2. hand'[h].at = "deleteOne" /\ hand'[h].kept = {}
    BY <2>1 DEF Idle
  <2>3. UNCHANGED <<schedule, row, steady, calm>>
    BY <1>7 DEF DeleteRead
  <2>4. \A k \in Staff : Reads(k)'
    BY <2>1, <2>2, <2>3 DEF DayInv, Reads
  <2>5. \A t \in Starts : Restored(t) => Restored(t)'
    BY <2>1 DEF Restored
  <2> QED BY <1>1, <2>3, <2>4, <2>5, QuietDay DEF Existing
<1>8. ASSUME NEW h \in Staff, DeleteCommit(h) \/ Fails(h) PROVE DayInv'
  <2>1. /\ ~ calm' /\ \A k \in Staff : hand'[k] = hand[k] \/ hand'[k] = Idle
        /\ \A s \in Starts : row'[s].n = row[s].n
    BY <1>0, <1>8, Deleted DEF DeleteCommit, Fails
  <2>2. \A k \in Staff : Reads(k)'
    BY <1>0, <2>1 DEF DayInv, Reads, Idle
  <2> QED BY <1>1, <2>1, <2>2 DEF DayInv
<1>9. ASSUME NEW h \in Staff, GenRefused(h) PROVE DayInv'
  <2>1. /\ UNCHANGED <<schedule, row, steady, calm>> /\ hand[h].at = "delete" /\ hand'[h] = Idle
        /\ \A k \in Staff : k # h => hand'[k] = hand[k]
    BY <1>0, <1>9 DEF GenRefused
  <2>2. \A k \in Staff : Reads(k)'
    BY <2>1 DEF DayInv, Reads, Idle
  <2>3. \A s \in Starts : Restored(s) => Restored(s)'
    BY <2>1 DEF Restored
  <2> QED BY <1>1, <2>1, <2>2, <2>3, QuietDay DEF Existing
<1>10. ASSUME NEW s \in Starts, EditsOf(s) PROVE DayInv'
  <2>1. UNCHANGED <<schedule, hand, steady, calm>> /\ \A t \in Starts : row'[t].n = row[t].n
    BY <1>0, <1>10, Edited
  <2>2. \A t \in Starts : row'[t].status = "absent" => t \notin Existing
    BY <1>0, <1>10, Edited DEF Existing
  <2>3. \A k \in Staff : Reads(k)'
    BY <1>0, <2>1 DEF DayInv, Reads
  <2>4. \A t \in Starts : Restored(t) => Restored(t)'
    BY <2>1 DEF Restored
  <2> QED BY <1>1, <2>1, <2>2, <2>3, <2>4, QuietDay
<1>11. ASSUME NEW s \in Busy, ChangeSchedule(s) PROVE DayInv'
  <2>1. ~ calm' /\ UNCHANGED <<row, hand>>
    BY <1>11 DEF ChangeSchedule
  <2>2. \A k \in Staff : Reads(k)'
    BY <2>1 DEF DayInv, Reads
  <2> QED BY <1>1, <2>1, <2>2 DEF DayInv
<1>12. CASE UNCHANGED vars
  BY <1>1, <1>12 DEF vars, DayInv, Reads, Restored, Existing
<1> QED
  BY <1>3, <1>4, <1>5, <1>6, <1>7, <1>8, <1>9, <1>10, <1>11, <1>12 DEF Next, EditsOf

(* While the schedule stays, every row is a slot of its plan, and so is    *)
(* every slot a generation is about to put there.                          *)
PlannedInv ==
  /\ Shape
  /\ steady => \A h \in Staff : hand[h].at \in {"read", "delete", "create"} => hand[h].made = schedule
  /\ steady => \A s \in Existing : \E i \in Plan(schedule) : i.start = s /\ i.end = row[s].end

(* A step that makes no row and moves no end.                              *)
LEMMA QuietPlan ==
  ASSUME PlannedInv, Shape', schedule' = schedule, steady' => steady,
         \A h \in Staff : /\ hand'[h].at \in {"read", "delete", "create"}
                          /\ ~ (hand[h].at \in {"read", "delete", "create"} /\ hand'[h].made = hand[h].made)
                          => hand'[h].made = schedule,
         \A s \in Starts : row'[s].status # "absent" => s \in Existing /\ row'[s].end = row[s].end
  PROVE  PlannedInv'
<1>1. \A s \in Existing' : s \in Existing /\ row'[s].end = row[s].end
  BY DEF Existing
<1> QED BY <1>1 DEF PlannedInv

LEMMA PlannedKept ==
  ASSUME PlannedInv, [Next]_vars
  PROVE  PlannedInv'
<1>0. /\ hand \in [Staff -> Hand] /\ row \in [Starts -> Row] /\ Shape
      /\ \A h \in Staff : hand[h] = Idle => hand[h].at = "idle"
  BY DEF PlannedInv, Shape, TypeOK, Idle
<1>1. Shape'
  BY <1>0, ShapeKept
<1>2. ASSUME NEW h \in Staff, NEW overwrite \in BOOLEAN, GenPlan(h, overwrite) PROVE PlannedInv'
  <2>1. hand'[h] = [Idle EXCEPT !.at = "read", !.made = schedule, !.overwrite = overwrite]
    BY <1>0, <1>2 DEF GenPlan
  <2>2. hand'[h].made = schedule /\ \A k \in Staff : k # h => hand'[k] = hand[k]
    BY <1>0, <1>2, <2>1 DEF GenPlan, Idle
  <2> QED BY <1>1, <1>2, <2>2, QuietPlan DEF GenPlan, Existing
<1>3. ASSUME NEW h \in Staff, GenRead(h) PROVE PlannedInv'
  <2>1. hand'[h].made = hand[h].made /\ \A k \in Staff : k # h => hand'[k] = hand[k]
    BY <1>0, <1>3, ReadRows
  <2> QED BY <1>1, <1>3, <2>1, QuietPlan DEF GenRead, Existing
<1>4. ASSUME NEW h \in Staff, GenDelete(h) PROVE PlannedInv'
  <2>1. hand'[h].made = hand[h].made /\ \A k \in Staff : k # h => hand'[k] = hand[k]
    BY <1>0, <1>4 DEF GenDelete, Hand
  <2>2. \A s \in Starts : row'[s].status # "absent" => s \in Existing /\ row'[s] = row[s]
    BY <1>0, <1>4, Deleted DEF GenDelete, DeleteRows, NoRow
  <2> QED BY <1>1, <1>4, <2>1, <2>2, QuietPlan DEF GenDelete
<1>5. ASSUME NEW h \in Staff, GenCreate(h) PROVE PlannedInv'
  <2>1. /\ UNCHANGED <<schedule, steady>> /\ hand[h].at = "create" /\ hand'[h].at = "idle"
        /\ \A k \in Staff : k # h => hand'[k] = hand[k]
    BY <1>0, <1>5 DEF GenCreate, Idle
  <2>2. ASSUME steady, NEW s \in Existing' PROVE \E i \in Plan(schedule) : i.start = s /\ i.end = row'[s].end
    <3>1. CASE \E i \in Missing(h) : i.start = s
      <4>1. PICK j \in Missing(h) : j.start = s /\ j.end = row'[s].end
        BY <1>0, <1>5, <3>1, Created
      <4>2. j \in Plan(schedule)
        BY <2>1, <2>2 DEF PlannedInv, Missing
      <4> QED BY <4>1, <4>2
    <3>2. CASE \A i \in Missing(h) : i.start # s
      <4>1. s \in Starts /\ row'[s] = row[s] /\ s \in Existing
        BY <1>0, <1>5, <2>2, <3>2, Created DEF Existing
      <4> QED BY <2>2, <4>1 DEF PlannedInv
    <3> QED BY <3>1, <3>2
  <2> QED BY <1>1, <2>1, <2>2 DEF PlannedInv
<1>6. ASSUME NEW h \in Staff, NEW s \in Starts, DeleteRead(h, s) PROVE PlannedInv'
  <2>1. hand'[h] = [Idle EXCEPT !.at = "deleteOne", !.gone = {<<s, row[s].n>>}]
    BY <1>0, <1>6 DEF DeleteRead
  <2>2. hand'[h].at = "deleteOne" /\ \A k \in Staff : k # h => hand'[k] = hand[k]
    BY <1>0, <1>6, <2>1 DEF DeleteRead, Idle
  <2> QED BY <1>1, <1>6, <2>2, QuietPlan DEF DeleteRead, Existing
<1>7. ASSUME NEW h \in Staff, DeleteCommit(h) PROVE PlannedInv'
  <2>1. hand'[h].at = "idle" /\ \A k \in Staff : k # h => hand'[k] = hand[k]
    BY <1>0, <1>7 DEF DeleteCommit, Idle
  <2>2. \A s \in Starts : row'[s].status # "absent" => s \in Existing /\ row'[s] = row[s]
    BY <1>0, <1>7, Deleted DEF DeleteCommit, DeleteRows, NoRow
  <2> QED BY <1>1, <1>7, <2>1, <2>2, QuietPlan DEF DeleteCommit
<1>8. ASSUME NEW h \in Staff, Fails(h) \/ GenRefused(h) PROVE PlannedInv'
  <2>1. hand'[h].at = "idle" /\ \A k \in Staff : k # h => hand'[k] = hand[k]
    BY <1>0, <1>8 DEF Fails, GenRefused, Idle
  <2>2. UNCHANGED <<schedule, row, steady>>
    BY <1>8 DEF Fails, GenRefused
  <2> QED BY <1>1, <2>1, <2>2, QuietPlan DEF Existing
<1>9. ASSUME NEW s \in Starts, EditsOf(s) PROVE PlannedInv'
  <2>1. \A t \in Starts : row'[t].status # "absent" => t \in Existing /\ row'[t].end = row[t].end
    BY <1>0, <1>9, Edited DEF Existing
  <2> QED BY <1>0, <1>1, <1>9, <2>1, Edited, QuietPlan
<1>10. ASSUME NEW s \in Busy, ChangeSchedule(s) PROVE PlannedInv'
  BY <1>1, <1>10 DEF ChangeSchedule, PlannedInv
<1>11. CASE UNCHANGED vars
  BY <1>1, <1>11 DEF vars, PlannedInv, Existing
<1> QED
  BY <1>2, <1>3, <1>4, <1>5, <1>6, <1>7, <1>8, <1>9, <1>10, <1>11 DEF Next, EditsOf

(* Any number of generations of a day, overwriting or not, that overlap in *)
(* any way with each other and with customers, leave it complete: whoever  *)
(* deletes a slot counts it out of what it keeps, and so puts it back.     *)
(* And as long as the schedule stays, no two rows overlap in time, also    *)
(* when requests die half-way: each is a slot of the one lawful plan.      *)
THEOREM DayStaysAsPlanned == Spec => []DayIsAsPlanned
<1>1. Init => DayInv /\ PlannedInv
  <2> SUFFICES ASSUME Init PROVE DayInv /\ PlannedInv
    OBVIOUS
  <2>1. Shape
    BY ShapeAtFirst
  <2>2. /\ \A s \in Starts : row[s].n = 0 /\ row[s].status = "absent"
        /\ \A h \in Staff : hand[h].at = "idle" /\ hand[h].kept = {}
    BY DEF Init, NoRow, Idle
  <2>3. \A i \in Plan(schedule) : i.start \in Starts
    BY <2>1, PlansFit DEF Shape
  <2>4. DayInv
    BY <2>1, <2>2, <2>3 DEF DayInv, Reads
  <2>5. PlannedInv
    BY <2>1, <2>2 DEF PlannedInv, Existing
  <2> QED BY <2>4, <2>5
<1>2. DayInv /\ [Next]_vars => DayInv'
  BY DayKept
<1>3. PlannedInv /\ [Next]_vars => PlannedInv'
  BY PlannedKept
<1>4. ASSUME DayInv, calm, \E s \in Starts : row[s].n > 0, \A h \in Staff : hand[h] = Idle,
             NEW i \in Plan(schedule)
      PROVE  row[i.start].status # "absent"
  <2>1. i.start \in Starts /\ row[i.start].n > 0
    BY <1>4, PlansFit DEF DayInv, Shape
  <2>2. ~ Restored(i.start)
    BY <1>4 DEF Restored, Idle
  <2> QED BY <1>4, <2>1, <2>2 DEF DayInv, Existing
<1>5. ASSUME PlannedInv, steady, NEW s \in Existing, NEW t \in Existing, s < t
      PROVE  row[s].end <= t
  <2>1. PICK i \in Plan(schedule) : i.start = s /\ i.end = row[s].end
    BY <1>5 DEF PlannedInv
  <2>2. PICK j \in Plan(schedule) : j.start = t /\ j.end = row[t].end
    BY <1>5 DEF PlannedInv
  <2>3. Lawful(schedule, Plan(schedule))
    BY <1>5, PlansAreLawful DEF PlannedInv, Shape, TypeOK
  <2>4. (i = j \/ i.end <= j.start \/ j.end <= i.start) /\ j.start < j.end
    BY <2>3 DEF Lawful
  <2>5. s \in Int /\ t \in Int /\ row[t].end \in Int
    BY <1>5 DEF PlannedInv, Shape, TypeOK, Row, Existing, Starts
  <2> QED BY <1>5, <2>1, <2>2, <2>4, <2>5
<1>6. DayInv /\ PlannedInv => DayIsAsPlanned
  BY <1>4, <1>5 DEF DayIsAsPlanned
<1> QED BY <1>1, <1>2, <1>3, <1>6, PTL DEF Spec

-----------------------------------------------------------------------------
(* Rows survive. *)

(* createMany replaces no row, and a row a booking of any status refers to *)
(* is neither deleted nor replaced, whatever a generation or deleteSlot    *)
(* had read before the booking was made.                                   *)
THEOREM RowsAreKept == Spec => RowsSurvive
<1> DEFINE Survive == /\ \A h \in Staff : hand[h].at = "create" /\ row' # row =>
                           \A s \in Existing : row'[s].n = row[s].n
                      /\ \A s \in Starts : row[s].booking # "never" =>
                           row'[s].n = row[s].n /\ row'[s].status # "absent"
<1>1. Shape /\ [Next]_vars => Survive
  <2> SUFFICES ASSUME Shape, [Next]_vars,  NEW s \in Starts
               PROVE  /\ s \in Existing => row'[s].n = row[s].n
                      /\ row[s].booking # "never" => row'[s].n = row[s].n /\ row'[s].status # "absent"
    BY DEF Existing
  <2>1. row[s].booking # "never" => s \in Existing
    BY DEF Shape, TypeOK, NoRow, Existing
  <2>2. CASE row' = row
    BY <2>1, <2>2 DEF Existing
  <2>3. ASSUME NEW h \in Staff, GenCreate(h)
        PROVE  s \in Existing => row'[s] = row[s]
    BY <2>3, Created
  <2>4. ASSUME NEW ids, DeleteRows(ids), Deletable(ids)
        PROVE  /\ row'[s].n = row[s].n
               /\ row[s].booking # "never" => row'[s].status # "absent"
    BY <2>1, <2>4, Deleted DEF Deletable
  <2>5. ASSUME NEW t \in Starts, EditsOf(t)
        PROVE  row'[s].n = row[s].n /\ (s \in Existing => row'[s].status # "absent")
    BY <2>5, Edited DEF Existing
  <2>6. ASSUME NEW h \in Staff, GenDelete(h) \/ DeleteCommit(h)
        PROVE  /\ row'[s].n = row[s].n
               /\ row[s].booking # "never" => row'[s].status # "absent"
    BY <2>4, <2>6 DEF GenDelete, DeleteCommit
  <2>7. ASSUME NEW h \in Staff, \/ \E overwrite \in BOOLEAN : GenPlan(h, overwrite)
                                \/ GenRead(h) \/ GenRefused(h) \/ Fails(h)
                                \/ \E t \in Starts : DeleteRead(h, t)
        PROVE  row' = row
    BY <2>7 DEF GenPlan, GenRead, GenRefused, Fails, DeleteRead
  <2>8. ASSUME (\E t \in Busy : ChangeSchedule(t)) \/ UNCHANGED vars PROVE row' = row
    BY <2>8 DEF ChangeSchedule, vars
  <2> QED BY <2>1, <2>2, <2>3, <2>5, <2>6, <2>7, <2>8 DEF Next, EditsOf, Existing
<1>2. Shape /\ [Next]_vars => Shape'
  BY ShapeKept
<1>3. Spec => [][Survive]_vars
  BY <1>1, <1>2, ShapeAtFirst, PTL DEF Spec
<1> QED BY <1>3 DEF RowsSurvive
=============================================================================
