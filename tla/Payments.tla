------------------------------ MODULE Payments ------------------------------
(***************************************************************************)
(* PaymentService: confirmPayment, refundPayment and cancelAndRefund, and  *)
(* the two calls of the Toss API they make.                                *)
(***************************************************************************)
EXTENDS BookingState

(* Toss, as its two endpoints are used: an order is approved at most once, *)
(* and only an approved payment can be cancelled.                          *)

Approvable(k) ==
    /\ toss[k] = "ready"
    /\ \A o \in Keys : OrderOf[o] = OrderOf[k] => toss[o] = "ready"

Cancelable(k) == toss[k] = "done"

\* The request reaches Toss and is carried out; the answer is either
\* received (the handler goes to "next") or lost on the way back.
TossApprove(q, next, lost) ==
    /\ Approvable(call[q].key)
    /\ toss' = [toss EXCEPT ![call[q].key] = "done"]
    /\ GoTo(q, next) \/ (May("network") /\ GoTo(q, lost))

TossCancel(q, next) ==
    /\ Cancelable(call[q].key)
    /\ toss' = [toss EXCEPT ![call[q].key] = "canceled"]
    /\ GoTo(q, next) \/ (May("network") /\ Finish(q))

TossCancelFails(q) ==
    /\ ~Cancelable(call[q].key) \/ May("network")
    /\ Finish(q)
    /\ UNCHANGED toss

-----------------------------------------------------------------------------
(* confirmPayment *)

\* The payer and the reservation (with its session, mentor and the mentor's
\* user) are read; a reservation that already has a SUCCESS row returns here.
\* Nothing looks at the reservation's status.
ConfirmCheck(q, k) ==
    LET r == OrderOf[k] IN
    /\ Exists(r)
    /\ payment[r].state # "success"
    /\ Start(q, "approve", r, k, Load(r))
    /\ UNCHANGED <<rows, rooms, toss, gone, leaving, clock, job>>

\* The price differs from the session's: the mentor edited it since checkout.
\* The exception is thrown inside the try, so it is logged like a failure.
ConfirmMispriced(q, k) ==
    LET r == OrderOf[k] IN
    /\ May("reprice")
    /\ Exists(r)
    /\ payment[r].state # "success"
    /\ Start(q, "log", r, k, NoSnapshot)
    /\ UNCHANGED <<rows, rooms, toss, gone, leaving, clock, job>>

ConfirmApprove(q) ==
    /\ At(q, "approve")
    /\ TossApprove(q, "record", "log")
    /\ UNCHANGED <<rows, rooms, gone, leaving, clock, job>>

\* Toss answers with an error (already processed, card declined) or cannot
\* be reached: the catch block logs the failure.
ConfirmRefused(q) ==
    /\ At(q, "approve")
    /\ ~Approvable(call[q].key) \/ May("decline") \/ May("network")
    /\ GoTo(q, "log")
    /\ UNCHANGED <<rows, rooms, toss, gone, leaving, clock, job>>

\* The transaction: insert the SUCCESS row, confirm the reservation, notify
\* the mentor.  Reading user.nickname and mentor.user.id throws when either
\* account was missing from what was loaded before the charge.
Recordable(q) ==
    /\ payment[call[q].res] = NoPayment
    /\ call[q].snap.missing = {}

\* Mutant of ConfirmRecord: no event after the commit.
RecordSilently(q) ==
    /\ At(q, "record")
    /\ Recordable(q)
    /\ payment' = [payment EXCEPT ![call[q].res] =
                      [state |-> "success", key |-> call[q].key]]
    /\ status' = [status EXCEPT ![call[q].res] = "confirmed"]
    /\ Finish(q)
    /\ UNCHANGED <<roomId, rooms, toss, gone, leaving, clock, job>>

ConfirmRecord(q) ==
    /\ At(q, "record")
    /\ Recordable(q)
    /\ payment' = [payment EXCEPT ![call[q].res] =
                      [state |-> "success", key |-> call[q].key]]
    /\ status' = [status EXCEPT ![call[q].res] = "confirmed"]
    /\ GoTo(q, "announce")
    /\ UNCHANGED <<roomId, rooms, toss, gone, leaving, clock, job>>

\* Mutant of ConfirmRollback: the event is emitted although nothing was
\* committed.
AnnounceAnyway(q) ==
    /\ At(q, "record")
    /\ ~Recordable(q) \/ May("database")
    /\ GoTo(q, "announce")
    /\ UNCHANGED <<rows, rooms, toss, gone, leaving, clock, job>>

\* Mutant of ConfirmRollback: the catch block only covers the call of Toss.
RollbackUnlogged(q) ==
    /\ At(q, "record")
    /\ ~Recordable(q) \/ May("database")
    /\ Finish(q)
    /\ UNCHANGED <<rows, rooms, toss, gone, leaving, clock, job>>

ConfirmRollback(q) ==
    /\ At(q, "record")
    /\ ~Recordable(q) \/ May("database")
    /\ GoTo(q, "log")
    /\ UNCHANGED <<rows, rooms, toss, gone, leaving, clock, job>>

\* Mutant of ConfirmLog: the failure is written over the row that is there.
LogOverRow(q) ==
    /\ At(q, "log")
    /\ payment' = [payment EXCEPT ![call[q].res] =
                      [state |-> "failed", key |-> call[q].key]]
    /\ Finish(q)
    /\ UNCHANGED <<status, roomId, rooms, toss, gone, leaving, clock, job>>

\* The catch block inserts a FAILED row for the same reservation; the unique
\* reservationId refuses it when a row is already there.
ConfirmLog(q) ==
    /\ At(q, "log")
    /\ IF payment[call[q].res] = NoPayment
       THEN payment' = [payment EXCEPT ![call[q].res] =
                           [state |-> "failed", key |-> call[q].key]]
       ELSE UNCHANGED payment
    /\ Finish(q)
    /\ UNCHANGED <<status, roomId, rooms, toss, gone, leaving, clock, job>>

ConfirmLogFails(q) ==
    /\ At(q, "log")
    /\ May("database")
    /\ Finish(q)
    /\ UNCHANGED <<rows, rooms, toss, gone, leaving, clock, job>>

Confirm(q) ==
    \/ \E k \in Keys : ConfirmCheck(q, k) \/ ConfirmMispriced(q, k)
    \/ ConfirmApprove(q)
    \/ ConfirmRefused(q)
    \/ ConfirmRecord(q)
    \/ ConfirmRollback(q)
    \/ ConfirmLog(q)
    \/ ConfirmLogFails(q)

-----------------------------------------------------------------------------
(* refundPayment *)

\* The row with this key, its reservation and its user, read on a connection
\* of their own; neither the row's state nor the date is looked at.
RefundCheck(q, r) ==
    /\ "refund" \in Handlers
    /\ payment[r].state # "none"
    /\ MenteeOf[r] \notin gone
    /\ status[r] \notin {"completed", "progress"}
    /\ Start(q, "refundCancel", r, payment[r].key, Load(r))
    /\ UNCHANGED <<rows, rooms, toss, gone, leaving, clock, job>>

RefundCancel(q) ==
    /\ At(q, "refundCancel")
    /\ TossCancel(q, "refundSettle")
    /\ UNCHANGED <<rows, rooms, gone, leaving, clock, job>>

RefundCancelFails(q) ==
    /\ At(q, "refundCancel")
    /\ TossCancelFails(q)
    /\ UNCHANGED <<rows, rooms, gone, leaving, clock, job>>

\* cancelAndRefund saves REFUNDED and CANCELLED inside the transaction, then
\* refundPayment reads reservation.session.mentor.user.id to notify the
\* mentor.  "user" of the mentor is not among the relations it loaded, so the
\* read throws and the transaction is rolled back: no write survives.
RefundSettle(q) ==
    /\ At(q, "refundSettle")
    /\ Finish(q)
    /\ UNCHANGED <<rows, rooms, toss, gone, leaving, clock, job>>

Refund(q) ==
    \/ \E r \in Res : RefundCheck(q, r)
    \/ RefundCancel(q)
    \/ RefundCancelFails(q)
    \/ RefundSettle(q)
=============================================================================
