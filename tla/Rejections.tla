----------------------------- MODULE Rejections -----------------------------
(***************************************************************************)
(* ScheduleService.updateReservationStatus: the mentor turns a booking     *)
(* down.  Toss is asked to cancel first, outside any transaction; the rows *)
(* loaded before that call are then saved as they were, changed in place.  *)
(***************************************************************************)
EXTENDS Payments

\* A reservation without a payment row makes payments.paymentKey throw; no
\* status is refused.
RejectCheck(q, r) ==
    /\ "reject" \in Handlers
    /\ Exists(r)
    /\ payment[r].state # "none"
    /\ MentorOf[r] \notin gone
    /\ Start(q, "rejectCancel", r, payment[r].key, Load(r))
    /\ UNCHANGED <<rows, rooms, toss, gone, leaving, clock, job>>

RejectCancel(q) ==
    /\ At(q, "rejectCancel")
    /\ TossCancel(q, "rejectSettle")
    /\ UNCHANGED <<rows, rooms, gone, leaving, clock, job>>

\* Mutant of RejectCancelFails: Toss's error does not stop the handler.
SettleAnyway(q) ==
    /\ At(q, "rejectCancel")
    /\ ~Cancelable(call[q].key) \/ May("network")
    /\ GoTo(q, "rejectSettle")
    /\ UNCHANGED <<rows, rooms, toss, gone, leaving, clock, job>>

RejectCancelFails(q) ==
    /\ At(q, "rejectCancel")
    /\ TossCancelFails(q)
    /\ UNCHANGED <<rows, rooms, gone, leaving, clock, job>>

\* Mutant of RejectSettle: the status the API's own example names, which is
\* none of the column's values.
SettleAsRejected(q) ==
    LET r == call[q].res IN
    /\ At(q, "rejectSettle")
    /\ status' = [status EXCEPT ![r] = "rejected"]
    /\ payment' = [payment EXCEPT ![r].state = "refunded"]
    /\ Finish(q)
    /\ UNCHANGED <<roomId, rooms, toss, gone, leaving, clock, job>>

\* Mutant of RejectSettle: the payment is not saved with the reservation.
SettleReservationOnly(q) ==
    LET r == call[q].res IN
    /\ At(q, "rejectSettle")
    /\ status' = [status EXCEPT ![r] = "cancelled"]
    /\ roomId' = [roomId EXCEPT ![r] = call[q].snap.roomId]
    /\ Finish(q)
    /\ UNCHANGED <<payment, rooms, toss, gone, leaving, clock, job>>

\* The transaction saves the loaded reservation (its roomId included) as
\* CANCELLED and the payment as REFUNDED, then notifies the mentee.
RejectSettle(q) ==
    LET r == call[q].res IN
    /\ At(q, "rejectSettle")
    /\ MenteeOf[r] \notin call[q].snap.missing
    /\ status' = [status EXCEPT ![r] = "cancelled"]
    /\ roomId' = [roomId EXCEPT ![r] = call[q].snap.roomId]
    /\ payment' = [payment EXCEPT ![r].state = "refunded"]
    /\ Finish(q)
    /\ UNCHANGED <<rooms, toss, gone, leaving, clock, job>>

\* The mentee's account was missing (mentee.id throws), or the database
\* refuses: the rows keep their old state although Toss has paid back.
RejectRollback(q) ==
    /\ At(q, "rejectSettle")
    /\ MenteeOf[call[q].res] \in call[q].snap.missing \/ May("database")
    /\ Finish(q)
    /\ UNCHANGED <<rows, rooms, toss, gone, leaving, clock, job>>

Reject(q) ==
    \/ \E r \in Res : RejectCheck(q, r)
    \/ RejectCancel(q)
    \/ RejectCancelFails(q)
    \/ RejectSettle(q)
    \/ RejectRollback(q)
=============================================================================
