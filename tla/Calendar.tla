------------------------------ MODULE Calendar ------------------------------
(***************************************************************************)
(* The calendar arithmetic of holidays.py: the dates the pages show for a  *)
(* rule (occurrences), the entry a thermostat is given for it              *)
(* (to_calendar_entry) and the dates on which that entry is in force, which*)
(* the thermostat decides by itself.  Dates are counted from Monday,       *)
(* 1 January 2024; the arithmetic is good until 2099.                      *)
(***************************************************************************)
EXTENDS Integers, FiniteSets

CONSTANT EveryYear  \* a field left open: every year

Epoch == 2024

Leap(y) == y % 4 = 0
MonthLength(y, m) == IF m = 2 /\ Leap(y) THEN 29
                     ELSE <<31, 28, 31, 30, 31, 30, 31, 31, 30, 31, 30, 31>>[m]
DaysBefore(y, m) == <<0, 31, 59, 90, 120, 151, 181, 212, 243, 273, 304, 334>>[m]
                    + (IF m > 2 /\ Leap(y) THEN 1 ELSE 0)
Date(y, m, d) == (y - Epoch) * 365 + (y - Epoch + 3) \div 4 + DaysBefore(y, m) + d - 1
IsoWeekday(date) == (date % 7) + 1
Month(y, m) == {Date(y, m, d) : d \in 1..MonthLength(y, m)}

(* A rule: fixed and ranges name days, floating ones a weekday's turn in   *)
(* the month, of which 5 "means last".                                     *)
Fixed(y, m, d) == [rule_type |-> "fixed", year |-> y, month |-> m, day |-> d]
Span(m, d, em, ed) == [rule_type |-> "range", year |-> EveryYear, month |-> m, day |-> d,
                       end_month |-> em, end_day |-> ed]
Floating(m, w, wd) == [rule_type |-> "floating", month |-> m, week_of_month |-> w,
                       day_of_week |-> wd]

(* The rules that the request for a holiday lets by, when it names every   *)
(* field its type needs.                                                   *)
Rule ==
  LET AnyYear == {EveryYear} \cup (Nat \ {0})
  IN [rule_type : {"fixed"}, year : AnyYear, month : 1..12, day : 1..31]
     \cup [rule_type : {"range"}, year : AnyYear, month : 1..12, day : 1..31,
           end_month : 1..12, end_day : 1..31]
     \cup [rule_type : {"floating"}, month : 1..12, week_of_month : 1..5, day_of_week : 1..7]

Exists(y, m, d) == d <= MonthLength(y, m)

(* occurrences raises for a day the year does not have.                    *)
Raises(h, y) ==
  \/ h.rule_type \in {"fixed", "range"} /\ h.year \in {EveryYear, y} /\ ~Exists(y, h.month, h.day)
  \/ h.rule_type = "range" /\ h.year \in {EveryYear, y} /\ ~Exists(y, h.end_month, h.end_day)

(* Mutant: the turn is counted from nought.                                *)
NthFromNought(dates, n) == {x \in dates : Cardinality({z \in dates : z < x}) = n}

(* The n-th of some dates, from the first; none when there are fewer.      *)
Nth(dates, n) == {x \in dates : Cardinality({z \in dates : z < x}) = n - 1}
Last(dates) == {x \in dates : \A z \in dates : z <= x}

Matching(h, y) == {x \in Month(y, h.month) : IsoWeekday(x) = h.day_of_week}

Occurrences(h, y) ==
  IF h.rule_type = "floating"
  THEN IF h.week_of_month = 5 THEN Last(Matching(h, y)) ELSE Nth(Matching(h, y), h.week_of_month)
  ELSE IF h.year \notin {EveryYear, y} THEN {}
  ELSE IF h.rule_type = "fixed" THEN {Date(y, h.month, h.day)}
  ELSE LET start == Date(y, h.month, h.day)
           end == Date(y, h.end_month, h.end_day)
       IN start .. (IF end < start THEN Date(y + 1, h.end_month, h.end_day) ELSE end)

(* What a thermostat makes of the entry, of the dates of a year: week k of *)
(* a month is its days 7k-6 to 7k, and 5 is what is left of it.            *)
InForce(h, y) ==
  LET week(x) == (x - Date(y, h.month, 1)) \div 7 + 1
  IN IF h.rule_type = "floating"
     THEN {x \in Matching(h, y) : week(x) = h.week_of_month}
     ELSE IF h.year \notin {EveryYear, y} THEN {}
     ELSE IF h.rule_type = "fixed" THEN {Date(y, h.month, h.day)}
     ELSE Date(y, h.month, h.day) .. Date(y, h.end_month, h.end_day)

(* Where the two are known to differ: "5 means last" in a month with four  *)
(* of the weekday, and a range across the new year.                        *)
Differs(h, y) ==
  \/ h.rule_type = "floating" /\ h.week_of_month = 5 /\ Cardinality(Matching(h, y)) = 4
  \/ h.rule_type = "range" /\ Date(y, h.end_month, h.end_day) < Date(y, h.month, h.day)
=============================================================================
