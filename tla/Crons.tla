------------------------------- MODULE Crons --------------------------------
(***************************************************************************)
(* SchedulerService's three tasks over reservations: expire, complete,     *)
(* progress.  Each selects rows, then writes them one at a time; other     *)
(* handlers run between the select and each write.                         *)
(***************************************************************************)
EXTENDS BookingState

Idling(j) == j \in Handlers /\ job[j] = {}

Select(j, due) ==
    /\ Idling(j)
    /\ due # {}
    /\ job' = [job EXCEPT ![j] = {[res |-> r, roomId |-> roomId[r]] : r \in due}]
    /\ UNCHANGED <<rows, rooms, toss, gone, leaving, clock, call>>

\* Mutants of the selections: expiresAt compared the wrong way round; no
\* condition on the status of a session that is over, or only PROGRESS.
NotYetDue == {r \in Res : status[r] = "pending" /\ ~lapsed[r]}
EndedInProgress == {r \in Res : status[r] = "progress" /\ phase[r] = "over"}
AnyEnded == {r \in Res : Exists(r) /\ phase[r] = "over"}

\* PENDING rows whose ten minutes have passed.
Overdue == {r \in Res : status[r] = "pending" /\ lapsed[r]}
\* CONFIRMED rows whose session has ended, or is about to start or running.
Ended == {r \in Res : status[r] = "confirmed" /\ phase[r] = "over"}
Starting == {r \in Res : status[r] = "confirmed" /\ phase[r] = "window"}

ExpireSelect == Select("expire", Overdue)
CompleteSelect == Select("complete", Ended)
ProgressSelect == Select("progress", Starting)

\* update(id, {status}) has no condition on the status the row has by now.
ExpireOne(i) ==
    /\ i \in job["expire"]
    /\ status' = [status EXCEPT ![i.res] = "expired"]
    /\ job' = [job EXCEPT !["expire"] = @ \ {i}]
    /\ UNCHANGED <<roomId, payment, rooms, toss, gone, leaving, clock, call>>

\* save(reservation) writes the row back as it was selected.
CompleteOne(i) ==
    /\ i \in job["complete"]
    /\ status' = [status EXCEPT ![i.res] = "completed"]
    /\ roomId' = [roomId EXCEPT ![i.res] = i.roomId]
    /\ job' = [job EXCEPT !["complete"] = @ \ {i}]
    /\ UNCHANGED <<payment, rooms, toss, gone, leaving, clock, call>>

\* After the first save the loop reads r.mentee.id; the query joined nothing,
\* so it throws and the rest of the selection is dropped.
ProgressOne(i) ==
    /\ i \in job["progress"]
    /\ status' = [status EXCEPT ![i.res] = "progress"]
    /\ roomId' = [roomId EXCEPT ![i.res] = i.roomId]
    /\ job' = [job EXCEPT !["progress"] = {}]
    /\ UNCHANGED <<payment, rooms, toss, gone, leaving, clock, call>>

CronFails(j) ==
    /\ job[j] # {}
    /\ May("database")
    /\ job' = [job EXCEPT ![j] = {}]
    /\ UNCHANGED <<rows, rooms, toss, gone, leaving, clock, call>>

ExpireTask == ExpireSelect \/ \E i \in JobItem : ExpireOne(i)
CompleteTask == CompleteSelect \/ \E i \in JobItem : CompleteOne(i)
ProgressTask == ProgressSelect \/ \E i \in JobItem : ProgressOne(i)

Cron ==
    \/ ExpireTask
    \/ CompleteTask
    \/ ProgressTask
    \/ \E j \in Jobs : CronFails(j)

(* Time, against which the selections are made.  expiresAt matters only to  *)
(* a PENDING row and to the task that expires it, the session's hour only   *)
(* to the other two tasks: an instance without them lets it stand still.    *)

Lapse(r) ==
    /\ "expire" \in Handlers
    /\ status[r] = "pending"
    /\ ~lapsed[r]
    /\ lapsed' = [lapsed EXCEPT ![r] = TRUE]
    /\ UNCHANGED <<rows, rooms, toss, gone, leaving, phase, call, job>>

PhaseAfter == [early |-> "window", window |-> "over"]

Pass(r) ==
    /\ Handlers \cap {"complete", "progress"} # {}
    /\ phase[r] # "over"
    /\ phase' = [phase EXCEPT ![r] = PhaseAfter[@]]
    /\ UNCHANGED <<rows, rooms, toss, gone, leaving, lapsed, call, job>>

Tick == \E r \in Res : Lapse(r) \/ Pass(r)
=============================================================================
