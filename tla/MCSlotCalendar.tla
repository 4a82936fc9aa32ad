--------------------------- MODULE MCSlotCalendar ---------------------------
EXTENDS SlotCalendar, TLC

(* Three hours in half hours: every pair of a weekend and a flat rule, in   *)
(* either order, with any band, of 60 or 90 minutes, and every single rule. *)
Band == {[banded |-> FALSE, from |-> 0, until |-> 1]}
          \cup {[banded |-> TRUE, from |-> f, until |-> u] : f \in 0..(Day - 1), u \in 1..Day}
RuleOf(rate, band, mins) == [rate |-> rate, banded |-> band.banded, from |-> band.from,
                             until |-> band.until, mins |-> mins]
Rules == {RuleOf(rate, band, mins) : rate \in {"weekend", "flat"}, band \in Band, mins \in 2..3}
Flat(mins) == [open |-> 0, close |-> Day, rules |-> <<RuleOf("flat", [banded |-> FALSE, from |-> 0, until |-> 1], mins)>>]

(* 90-minute slots, and a 120-minute slot with an hour left over. *)
TwoLengths == {Flat(3), Flat(4)}
AllSchedules ==
  TwoLengths
    \cup {[open |-> o, close |-> c, rules |-> <<p>>] : o \in 0..(Day - 1), c \in 1..Day, p \in Rules}
    \cup {[open |-> 0, close |-> Day, rules |-> <<p, q>>] : p \in Rules, q \in Rules}

Symmetry == Permutations(Staff)
=============================================================================
