------------------------------ MODULE MCIntent ------------------------------
(***************************************************************************)
(* A small instance of Intent.  The rules are the shapes of                *)
(* US_FEDERAL_DEFAULTS, leap days, ranges within a year and across one, and*)
(* every turn of a weekday in the month where the turns are fewest; the    *)
(* years are every calendar there is.                                      *)
(***************************************************************************)
EXTENDS Intent, TLC

SomeRules ==
  {Fixed(EveryYear, 12, 25), Fixed(2026, 7, 4), Fixed(EveryYear, 2, 29),
   Span(12, 24, 12, 31), Span(12, 24, 1, 2),
   Floating(11, 4, 4), Floating(5, 5, 1)}
  \cup {Floating(2, w, 7) : w \in 1..5}

EveryCalendar == 2024..2051

Same == Permutations(Device) \cup Permutations(Level)
=============================================================================
