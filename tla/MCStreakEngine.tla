--------------------------- MODULE MCStreakEngine ---------------------------
(***************************************************************************)
(* Instances of StreakEngine for TLC.                                      *)
(***************************************************************************)
EXTENDS StreakProperties

\* One zone.  With one slot to a period, now = 0 is in period 2.
HomeOnly == [z \in Zones |-> [t \in Time |-> 2]]

\* Zones with two slots (half days) to a day.  east is half a day ahead of
\* home and west half a day behind it; in dst the clock goes forward by a slot
\* at instant 3 and back at instant 6.
FlightOffset ==
  [z \in Zones |-> [t \in Time |->
     CASE z = "west" -> 4
       [] z = "home" -> 5
       [] z = "east" -> 6
       [] z = "dst"  -> IF t \in 3..5 THEN 6 ELSE 5]]

\* Days of three slots, of which the second starts a period (Boundary = 1).
\* The third slot of day 3 is skipped and that of day 5 comes twice.
SummerOffset ==
  [z \in Zones |-> [t \in Time |-> IF t \in 4..9 THEN 8 ELSE 7]]

EveryDay == 0..6
\* Days 4 and 5 modulo 7 are rest days: the runs meet both in their middle.
RestDays == {0, 1, 2, 3, 6}
=============================================================================
