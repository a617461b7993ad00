---------------------------- MODULE Reservations ----------------------------
(***************************************************************************)
(* ReservationService.createReservation: a check that nobody holds the     *)
(* slot, then an insert, in one transaction that takes no lock.            *)
(***************************************************************************)
EXTENDS BookingState

\* The duplicate check looks for any row with the same session, date, start
\* and end, whatever its status.
SlotTaken(r) == \E o \in Res : SlotOf[o] = SlotOf[r] /\ Exists(o)

\* The id is a fresh uuid: no other request is inserting it.
Unused(r) == ~Exists(r) /\ \A p \in Req : ~(At(p, "insert") /\ call[p].res = r)

CreateCheck(q, r) ==
    /\ Unused(r)
    /\ ~SlotTaken(r)
    /\ MenteeOf[r] \notin gone
    /\ Start(q, "insert", r, NoKey, NoSnapshot)
    /\ UNCHANGED <<rows, rooms, toss, gone, leaving, clock, job>>

CreateInsert(q) ==
    /\ At(q, "insert")
    /\ status' = [status EXCEPT ![call[q].res] = "pending"]
    /\ Finish(q)
    /\ UNCHANGED <<roomId, payment, rooms, toss, gone, leaving, clock, job>>

CreateFails(q) ==
    /\ At(q, "insert")
    /\ May("database")
    /\ Finish(q)
    /\ UNCHANGED <<rows, rooms, toss, gone, leaving, clock, job>>

Create(q) ==
    \/ \E r \in Res : CreateCheck(q, r)
    \/ CreateInsert(q)
    \/ CreateFails(q)
=============================================================================
