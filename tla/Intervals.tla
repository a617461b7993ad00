----------------------------- MODULE Intervals ------------------------------
(***************************************************************************)
(* The arithmetic behind the offered times (reservation.service.ts):       *)
(* booked intervals are cut out of the mentor's hours and what is left is  *)
(* divided into slots.  Times are minutes of the day; a set stands for the *)
(* array in the code, whose order only decides the order of the answer.    *)
(***************************************************************************)
EXTENDS FiniteSetsExt, Integers

Interval(a, b) == [start |-> a, end |-> b]

\* Mutant of Untouched: an exact fit counts as apart.
UntouchedLoose(seg, cut) ==
    \/ cut.end <= seg.start + 1
    \/ cut.start >= seg.end

\* The segment and the cut do not meet.
Untouched(seg, cut) == cut.end <= seg.start \/ cut.start >= seg.end

\* Mutant of Pieces: only the part before the cut is kept.
PiecesBefore(seg, cut) ==
    IF Untouched(seg, cut) THEN {seg}
    ELSE {s \in {Interval(seg.start, cut.start)} : cut.start > seg.start}

\* What one cut leaves of one segment: all of it when they do not meet, else
\* the part before and the part after.
Pieces(seg, cut) ==
    IF Untouched(seg, cut) THEN {seg}
    ELSE UNION {IF cut.start > seg.start
                THEN {Interval(seg.start, cut.start)} ELSE {},
                IF cut.end < seg.end
                THEN {Interval(cut.end, seg.end)} ELSE {}}

\* The loops over the cuts and, for each, over the segments left so far.
subtractIntervals(base, cuts) ==
    LET CutAll(cut, segs) == UNION {Pieces(seg, cut) : seg \in segs}
    IN {s \in FoldSet(CutAll, base, cuts) : s.end - s.start > 0}

\* Mutant of Slots: the next slot starts a minute later.
SlotsEveryMinute(seg, d) ==
    {Interval(t, t + d) : t \in seg.start .. seg.end - d}

\* for (t = seg.start; t + d <= seg.end; t += d), d being at least 1.
Slots(seg, d) ==
    {Interval(t, t + d) :
        t \in {x \in seg.start .. seg.end - d : (x - seg.start) % d = 0}}

availableTimes(base, cuts, d) ==
    UNION {Slots(seg, d) : seg \in subtractIntervals(base, cuts)}
=============================================================================
