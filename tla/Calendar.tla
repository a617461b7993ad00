------------------------------ MODULE Calendar ------------------------------
(***************************************************************************)
(* One mentor's calendar on one date: the weekly rows the mentor edits     *)
(* (schedule.service.ts), the sessions on offer (mentoring.service.ts),    *)
(* the times a mentee is shown and the reservations made from them         *)
(* (reservation.service.ts).                                               *)
(*                                                                         *)
(* A reservation here is only its place in time.  What becomes of it is    *)
(* the business of module Booking: neither the availability nor the        *)
(* duplicate check looks at its status, so a cancelled one still counts.   *)
(***************************************************************************)
EXTENDS Intervals, FiniteSets, Functions

CONSTANTS
    ScheduleIds,   \* ids of mentoring_schedules rows
    RowBodies,     \* the rows a mentor's form sends: [day, start, end]
    Today,         \* the weekday of the date everybody books
    SessionIds,    \* ids of mentoring_sessions rows
    Durations,     \* durations createSession is sent (its DTO wants >= 1)
    NewDurations,  \* durations updateSession is sent (its DTO takes any)
    Clients,       \* mentees with the booking page open
    NoSlot,        \* what an idle client has picked
    MaxBookings    \* bound on the reservations of the date

ASSUME DurationAssumption ==
    /\ Durations \subseteq Nat \ {0}
    /\ NewDurations \subseteq Int

\* Times of day, in minutes; nothing asks for the end to come after the start.
ASSUME RowAssumption == \A row \in RowBodies : {row.start, row.end} \subseteq Nat

VARIABLES
    schedule,  \* mentoring_schedules: ids in use -> row
    session,   \* mentoring_sessions: ids in use -> duration
    booked,    \* mentoring_reservations of the date: [session, start, end]
    client,    \* what each client is doing: [pc, session, slot]
    stuck,     \* the event loop never leaves the slot loop
    grid       \* history: rows and durations have kept one grid of slots

vars == <<schedule, session, booked, client, stuck, grid>>

Partial(D, R) == UNION {[d -> R] : d \in SUBSET D}
IsPartial(f, D, R) == DOMAIN f \subseteq D /\ Range(f) \subseteq R
Drop(f, ids) == Restrict(f, DOMAIN f \ ids)
With(f, id, v) == [i \in DOMAIN f \cup {id} |-> IF i = id THEN v ELSE f[i]]

Idle == [pc |-> "idle", session |-> NoSlot, slot |-> NoSlot]

TimeOf(x) == Interval(x.start, x.end)

\* The rows of the mentor on the date's weekday, and every reservation of
\* the mentor on the date.
baseRanges ==
    {TimeOf(schedule[i]) : i \in {j \in DOMAIN schedule : schedule[j].day = Today}}
cutRanges == {TimeOf(b) : b \in booked}

Offers(s) == availableTimes(baseRanges, cutRanges, session[s])

-----------------------------------------------------------------------------
Overlap(x, y) == x.start < y.end /\ y.start < x.end

\* One grid: the rows of the day do not overlap and every session has the
\* same duration; the first booking freezes both.
OneGrid(rows, durations) ==
    /\ Cardinality(Range(durations)) <= 1
    /\ \A i, j \in {k \in DOMAIN rows : rows[k].day = Today} :
          i # j => ~Overlap(rows[i], rows[j])

Pages == {c \in Clients : client[c] # Idle}

\* grid stays TRUE as long as every edit happens before anybody is shown a
\* time and leaves one grid.
Track ==
    grid' = (grid /\ OneGrid(schedule', session')
             /\ (booked # {} \/ Pages # {}
                    => schedule' = schedule /\ Range(session') \subseteq Range(session)))

MentorKeeps == UNCHANGED <<client, stuck>>

-----------------------------------------------------------------------------
\* createSchedule: the whole body is inserted, whatever is there already.
CreateSchedule ==
    /\ \E i \in ScheduleIds \ DOMAIN schedule, row \in RowBodies :
          schedule' = With(schedule, i, row)
    /\ UNCHANGED <<session, booked>>

\* updateSchedule: rows the body does not name are removed, the others take
\* the body's values, and items without an id become new rows.
UpdateSchedule ==
    /\ schedule' \in Partial(ScheduleIds, RowBodies)
    /\ schedule' # schedule
    /\ UNCHANGED <<session, booked>>

DeleteSchedule ==
    /\ \E i \in DOMAIN schedule : schedule' = Drop(schedule, {i})
    /\ UNCHANGED <<session, booked>>

\* createSession: refused to a mentor without any row, of any weekday.
CreateSession ==
    /\ DOMAIN schedule # {}
    /\ \E s \in SessionIds \ DOMAIN session, d \in Durations :
          session' = With(session, s, d)
    /\ UNCHANGED <<schedule, booked>>

UpdateSession ==
    /\ \E s \in DOMAIN session, d \in NewDurations :
          session' = [session EXCEPT ![s] = d]
    /\ UNCHANGED <<schedule, booked>>

\* Mutant of DeleteSession: the reservations stay behind.
DeleteSessionOnly ==
    /\ \E s \in DOMAIN session : session' = Drop(session, {s})
    /\ UNCHANGED <<schedule, booked>>

\* deleteSession: the foreign keys cascade to the session's reservations.
DeleteSession ==
    /\ \E s \in DOMAIN session :
          /\ session' = Drop(session, {s})
          /\ booked' = {b \in booked : b.session # s}
    /\ UNCHANGED schedule

MentorEdits ==
    /\ ~stuck
    /\ \/ CreateSchedule
       \/ UpdateSchedule
       \/ DeleteSchedule
       \/ CreateSession
       \/ UpdateSession
       \/ DeleteSession
    /\ MentorKeeps
    /\ Track

-----------------------------------------------------------------------------
ClientKeeps == UNCHANGED <<schedule, session, stuck, grid>>

\* getAvailableTimes, and the mentee picks one of the times shown.
Ask(c, s) ==
    /\ ~stuck
    /\ client[c].pc \in {"idle", "picked"}
    /\ s \in DOMAIN session
    /\ session[s] > 0
    /\ \E slot \in Offers(s) :
          client' = [client EXCEPT ![c] =
                        [pc |-> "picked", session |-> s, slot |-> slot]]
    /\ UNCHANGED booked
    /\ ClientKeeps

\* getAvailableTimes of a session whose duration is not positive: t never
\* passes the end of a free range, and the array grows until the process ends.
AskForever(c, s) ==
    /\ ~stuck
    /\ client[c].pc \in {"idle", "picked"}
    /\ s \in DOMAIN session
    /\ session[s] <= 0
    /\ subtractIntervals(baseRanges, cutRanges) # {}
    /\ stuck' = TRUE
    /\ UNCHANGED <<schedule, session, booked, client, grid>>

Place(c) ==
    [session |-> client[c].session,
     start |-> client[c].slot.start, end |-> client[c].slot.end]

\* The duplicate check: the same session, start and end.
isReserved(c) == Place(c) \in booked

\* createReservation up to its save.  It does not look at the schedule, nor
\* at reservations that merely overlap.
ReserveCheck(c) ==
    /\ ~stuck
    /\ client[c].pc = "picked"
    /\ client' = [client EXCEPT ![c] =
                     IF client[c].session \in DOMAIN session /\ ~isReserved(c)
                     THEN [@ EXCEPT !.pc = "insert"] ELSE Idle]
    /\ UNCHANGED booked
    /\ ClientKeeps

\* The save: the foreign key refuses it when the session is gone by now.
ReserveInsert(c) ==
    /\ ~stuck
    /\ client[c].pc = "insert"
    /\ Cardinality(booked) < MaxBookings
    /\ booked' = IF client[c].session \in DOMAIN session
                 THEN booked \cup {Place(c)} ELSE booked
    /\ client' = [client EXCEPT ![c] = Idle]
    /\ ClientKeeps

-----------------------------------------------------------------------------
Init ==
    /\ schedule = <<>>
    /\ session = <<>>
    /\ booked = {}
    /\ client = [c \in Clients |-> Idle]
    /\ stuck = FALSE
    /\ grid = TRUE

Next ==
    \/ MentorEdits
    \/ \E c \in Clients, s \in SessionIds : Ask(c, s)
    \/ \E c \in Clients, s \in SessionIds : AskForever(c, s)
    \/ \E c \in Clients : ReserveCheck(c)
    \/ \E c \in Clients : ReserveInsert(c)

Spec == Init /\ [][Next]_vars

-----------------------------------------------------------------------------
Bookable == [session : SessionIds, start : Nat, end : Nat]

\* Every variable holds a value the tables and the handlers allow.
TypeOK ==
    /\ IsPartial(schedule, ScheduleIds, RowBodies)
    /\ IsPartial(session, SessionIds, Durations \cup NewDurations)
    /\ booked \subseteq Bookable
    /\ \A b \in booked : b.session \in DOMAIN session
    /\ \A c \in Clients :
          \/ client[c] = Idle
          \/ /\ client[c].pc \in {"picked", "insert"}
             /\ client[c].session \in SessionIds
             /\ client[c].slot.start < client[c].slot.end
    /\ {stuck, grid} \subseteq BOOLEAN

\* What a mentee is shown is bookable: a time of the session's length, inside
\* one of the mentor's rows, that meets no reservation of the mentor whatever
\* its session and duration (getAvailableTimes, reservation.service.ts).
SlotsAreFree ==
    \A s \in DOMAIN session : session[s] > 0 =>
        \A slot \in Offers(s) :
            /\ slot.end - slot.start = session[s]
            /\ \E row \in baseRanges : row.start <= slot.start /\ slot.end <= row.end
            /\ \A b \in booked : ~Overlap(slot, b)

\* The minutes of a row that no reservation takes, and the first minute of
\* the unbroken run of them that minute m belongs to.
FreeMinutes(row) ==
    {m \in row.start .. row.end - 1 :
        \A b \in booked : ~(b.start <= m /\ m < b.end)}
RunStart(free, m) ==
    CHOOSE a \in free : a <= m /\ a .. m \subseteq free /\ a - 1 \notin free

\* Nothing bookable is withheld: the answer is every time of the session's
\* length that is free minute by minute and lies a whole number of sessions
\* after the start of its run of free minutes.
SlotsAreAll ==
    \A s \in DOMAIN session : session[s] > 0 =>
        Offers(s) = UNION {LET free == FreeMinutes(row)
                              d == session[s]
                          IN {Interval(m, m + d) : m \in
                                {x \in free : /\ x .. x + d - 1 \subseteq free
                                              /\ (x - RunStart(free, x)) % d = 0}}
                          : row \in baseRanges}

\* The duplicate check compares exact times only, yet as long as rows and
\* durations keep one grid it is enough: two different times of one session
\* are never both booked and overlapping, however old the page a mentee
\* booked from (createReservation, reservation.service.ts).
SameSessionDisjoint ==
    grid => \A b1, b2 \in booked :
                b1 # b2 /\ b1.session = b2.session => ~Overlap(b1, b2)
=============================================================================
