------------------------------ MODULE SlotPlan ------------------------------
(***************************************************************************)
(* How generateSlotsForDate (slot.service.ts) cuts a day into slots.  Time *)
(* counts in units of the finest rule; Day is midnight at the end of the   *)
(* day, which "00:00" means as an end.  A closed day or a full holiday has *)
(* no hours (open >= close); a holiday with its own hours has those.  The  *)
(* rules are the active ones that apply on the date, oldest first.         *)
(***************************************************************************)
EXTENDS Integers, Sequences

CONSTANT Day

ASSUME DayAssumption == Day \in Nat \ {0}

Priority == [peak |-> 0, weekend |-> 1, off_peak |-> 2, flat |-> 3]

Rule == [rate : DOMAIN Priority, banded : BOOLEAN, from : 0..(Day - 1), until : 1..Day,
         mins : 1..Day]
Schedule == [open : 0..(Day - 1), close : 1..Day, rules : Seq(Rule)]

InBand(r, m) == r.banded /\ r.from <= m /\ m < r.until

(* Rules whose band holds m; if there are none, the rules without a band. *)
Candidates(s, m) ==
  LET banded == {i \in DOMAIN s.rules : InBand(s.rules[i], m)} IN
  IF banded # {} THEN banded ELSE {i \in DOMAIN s.rules : ~ s.rules[i].banded}

(* The more specific rate type first, ties to the oldest rule. *)
Before(s, i, j) ==
  LET p == Priority[s.rules[i].rate]  q == Priority[s.rules[j].rate]
  IN  p < q \/ (p = q /\ i < j)

(* mutant of PickRule: the order of the rates alone decides *)
PickAnyRule(s, m) ==
  LET fit == {i \in DOMAIN s.rules : InBand(s.rules[i], m) \/ ~ s.rules[i].banded}
  IN  {i \in fit : \A j \in fit \ {i} : Before(s, i, j)}
(* The rule that prices a slot starting at m: one, or none. *)
PickRule(s, m) ==
  {i \in Candidates(s, m) : \A j \in Candidates(s, m) \ {i} : Before(s, i, j)}

(* Where a band starts after m. *)
BandStarts(s, m) == {s.rules[i].from : i \in {k \in DOMAIN s.rules : s.rules[k].banded}} \cap (m + 1)..Day

(* One turn of the loop, at c: a slot takes its length from the rule that   *)
(* prices it and the next begins where it ends; where no rule applies the   *)
(* next band is tried; the day ends with the first slot that does not fit.  *)
(* rest gives the slots that begin at a later time or after.                *)
Turn(s, rest, c) ==
  LET rule == PickRule(s, c)
      jump == BandStarts(s, c)
      end  == c + s.rules[CHOOSE i \in rule : TRUE].mins
  IN  CASE c >= s.close -> {}
        [] c < s.close /\ rule = {} /\ jump = {} -> {}
        [] c < s.close /\ rule = {} /\ jump # {} ->
             rest[CHOOSE b \in jump : \A d \in jump : b <= d]
        [] c < s.close /\ rule # {} ->
             IF end > s.close THEN {}
             ELSE {[start |-> c, end |-> end]} \cup (IF end < Day THEN rest[end] ELSE {})

(* The slots of the day. *)
Plan(s) ==
  LET cut[c \in 0..Day] == Turn(s, cut, c)
  IN  cut[s.open]

-----------------------------------------------------------------------------
Covered(plan, m) == \E i \in plan : i.start <= m /\ m < i.end

(* A rule beats another at m: only rules whose band holds m count when      *)
(* there are any, then the rate type, then age.                             *)
Beats(s, i, j, m) ==
  \/ InBand(s.rules[i], m) /\ ~ InBand(s.rules[j], m)
  \/ InBand(s.rules[i], m) = InBand(s.rules[j], m) /\ Before(s, i, j)
Applies(s, i, m) == InBand(s.rules[i], m) \/ ~ s.rules[i].banded
Winner(s, i, m)  == Applies(s, i, m) /\ \A j \in DOMAIN s.rules \ {i} : Applies(s, j, m) => Beats(s, i, j, m)

(* What a plan must be, whatever the rules: slots lie within the hours and  *)
(* do not overlap; each has the length of the rule that wins at its start;  *)
(* and no time that some rule prices is left unsold, but for a rest of the  *)
(* day that begins with a slot too long for it.                             *)
Lawful(s, plan) ==
  /\ \A i \in plan : s.open <= i.start /\ i.start < i.end /\ i.end <= s.close
  /\ \A i, j \in plan : i = j \/ i.end <= j.start \/ j.end <= i.start
  /\ \A i \in plan : \E r \in DOMAIN s.rules :
       Winner(s, r, i.start) /\ i.end = i.start + s.rules[r].mins
  /\ \A m \in s.open..(s.close - 1) : ~ Covered(plan, m) =>
       \/ \A r \in DOMAIN s.rules : ~ Applies(s, r, m)
       \/ \E c \in s.open..m : \E r \in DOMAIN s.rules :
            /\ Winner(s, r, c) /\ c + s.rules[r].mins > s.close
            /\ \A i \in plan : i.end <= c
=============================================================================
