----------------------------- MODULE MCCalendar ------------------------------
(* An instance of Calendar for TLC. *)
EXTENDS Calendar, TLC

CONSTANTS monday, tuesday

Row(d, a, b) == [day |-> d, start |-> a, end |-> b]

\* Rows that overlap, rows that touch, one that ends before it starts (nothing
\* refuses it) and one of another weekday.
Rows == {Row(monday, 0, 4), Row(monday, 2, 5), Row(monday, 4, 5),
         Row(monday, 3, 1), Row(tuesday, 0, 4)}

\* Two pages open at once matter while the calendar keeps one grid; without
\* it, one mentee at a time already makes every set of reservations.
OnePage == grid \/ Cardinality(Pages) <= 1

Symmetry == Permutations(ScheduleIds) \cup Permutations(SessionIds)
            \cup Permutations(Clients)
=============================================================================
