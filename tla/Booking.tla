------------------------------ MODULE Booking -------------------------------
(***************************************************************************)
(* A reservation from its creation to its end: the booking components      *)
(* composed over the rows they share.                                      *)
(***************************************************************************)
EXTENDS Reservations, Rejections, Rooms, Crons, Accounts

Init ==
    /\ status = [r \in Res |-> "absent"]
    /\ roomId = [r \in Res |-> FALSE]
    /\ payment = [r \in Res |-> NoPayment]
    /\ rooms = [r \in Res |-> 0]
    /\ toss = [k \in Keys |-> "ready"]
    /\ gone = {}
    /\ leaving = {}
    /\ lapsed = [r \in Res |-> FALSE]
    /\ phase = [r \in Res |-> "early"]
    /\ call = [q \in Req |-> Idle]
    /\ job = [j \in Jobs |-> {}]

\* The process dies and is started again: what was in flight is forgotten,
\* open transactions are rolled back, and no start-up code looks for what
\* was left half done.
Restart ==
    /\ May("crash")
    /\ call' = [q \in Req |-> Idle]
    /\ job' = [j \in Jobs |-> {}]
    /\ leaving' = {}
    /\ UNCHANGED <<rows, rooms, toss, gone, clock>>

Next ==
    \/ \E q \in Req : Create(q) \/ Confirm(q) \/ Refund(q) \/ Reject(q)
                      \/ Listen(q) \/ Override(q)
    \/ Cron
    \/ Withdraw
    \/ Tick
    \/ Restart

Spec == Init /\ [][Next]_vars

-----------------------------------------------------------------------------
(* Fairness: the event loop resumes every handler whose await has settled,  *)
(* cron fires for ever, and time passes.  Nobody has to send a request.     *)

Resume(q) ==
    \/ CreateInsert(q) \/ CreateFails(q)
    \/ ConfirmApprove(q) \/ ConfirmRefused(q)
    \/ ConfirmRecord(q) \/ ConfirmRollback(q)
    \/ ConfirmLog(q) \/ ConfirmLogFails(q)
    \/ Listen(q)
    \/ RefundCancel(q) \/ RefundCancelFails(q) \/ RefundSettle(q)
    \/ RejectCancel(q) \/ RejectCancelFails(q)
    \/ RejectSettle(q) \/ RejectRollback(q)
    \/ OverrideSave(q) \/ OverrideFails(q)

Fairness ==
    /\ \A q \in Req : WF_vars(Resume(q))
    /\ WF_vars(ExpireTask)
    /\ WF_vars(CompleteTask)
    /\ WF_vars(ProgressTask)
    /\ \A r \in Res : WF_vars(Lapse(r)) /\ WF_vars(Pass(r))

FairSpec == Spec /\ Fairness

-----------------------------------------------------------------------------
(* Invariants *)

\* Every variable holds values the schema and the handlers allow.
TypeOK ==
    /\ status \in [Res -> Status]
    /\ roomId \in [Res -> BOOLEAN]
    /\ payment \in [Res -> PaymentRow]
    /\ rooms \in [Res -> Nat]
    /\ toss \in [Keys -> TossState]
    /\ gone \subseteq Users
    /\ leaving \subseteq Users
    /\ lapsed \in [Res -> BOOLEAN]
    /\ phase \in [Res -> Phase]
    /\ call \in [Req -> Call]
    /\ job \in [Jobs -> SUBSET JobItem]

\* The books agree with Toss whatever is lost or races: a SUCCESS row names a
\* payment of this order that was charged, a REFUNDED row one that was paid
\* back (payment.service.ts 88-105, schedule.service.ts 341-347).
BooksMatchToss ==
    \A r \in Res :
        /\ payment[r].state = "success" =>
              payment[r].key \in Keys /\ toss[payment[r].key] \in {"done", "canceled"}
        /\ payment[r].state = "refunded" =>
              payment[r].key \in Keys /\ toss[payment[r].key] = "canceled"
        /\ payment[r].state # "none" => OrderOf[payment[r].key] = r

\* However often the client repeats the confirmation, the payment.confirmed
\* event starts one listener per reservation, hence one chat room
\* (payment.service.ts 122, chat.listener.ts 24; the rooms collection itself
\* does not enforce it).
OneRoom == \A r \in Res : rooms[r] <= 1

\* A chat room exists only for a reservation whose payment was recorded, and
\* a reservation that has a roomId has that room (chat.listener.ts 24-32).
RoomIsPaidFor ==
    \A r \in Res :
        /\ rooms[r] > 0 => payment[r].state \in {"success", "refunded"}
        /\ roomId[r] => rooms[r] > 0

\* With no administrator about, a reservation is CONFIRMED, in PROGRESS or
\* COMPLETED only after a payment for it was recorded, even where stale
\* snapshots are written back (payment.service.ts 103, chat.listener.ts 32,
\* scheduler.service.ts 83-84 and 101-102).
Held == {"confirmed", "progress", "completed"}
HeldIsPaid ==
    \A r \in Res :
        status[r] \in Held => payment[r].state \in {"success", "refunded"}

\* With no administrator about, a CANCELLED reservation has had its money
\* returned, in the books and at Toss (schedule.service.ts 318-347; a refund
\* the mentee asks for is rolled back with its CANCELLED).
CancelledIsPaidBack ==
    \A r \in Res : status[r] = "cancelled" =>
        payment[r].state = "refunded" /\ toss[payment[r].key] = "canceled"

\* While the process and the database stay up, no charge is without a trace:
\* the reservation of a charged key has a payment row, or the request that
\* will write one is still running (payment.service.ts 68-150).
ChargeLeavesRow ==
    \A k \in Keys :
        toss[k] # "ready" =>
            \/ payment[OrderOf[k]] # NoPayment
            \/ \E q \in Req : /\ call[q].res = OrderOf[k]
                              /\ call[q].pc \in {"record", "log"}

-----------------------------------------------------------------------------
(* Action properties *)

\* A reservation that has left PENDING is never PENDING again, though whole
\* entities read earlier are saved over it (chat.listener.ts 32,
\* scheduler.service.ts 84 and 102, admin.service.ts 1052).
NeverPendingAgain ==
    [][\A r \in Res : status[r] \notin {"absent", "pending"}
                         => status'[r] \notin {"absent", "pending"}]_vars

-----------------------------------------------------------------------------
(* Liveness, under FairSpec *)

\* A recorded payment gets its chat room, unless one of the two accounts is
\* withdrawn first (payment.service.ts 122-124, chat.listener.ts 16-34).
PaidGetsRoom ==
    \A r \in Res :
        payment[r].state = "success" ~> (rooms[r] = 1 \/ Parties(r) \cap gone # {})

\* An unpaid reservation does not stay PENDING: it is confirmed or expires
\* (scheduler.service.ts 27-44).
PendingEnds == \A r \in Res : status[r] = "pending" ~> status[r] # "pending"

\* A confirmed reservation does not stay CONFIRMED: it is cancelled, or a task
\* finds it when its hour is near or over (scheduler.service.ts 68-104).  What
\* the second task turns to PROGRESS the first does not select, so it may end
\* there.
ConfirmedEnds == \A r \in Res : status[r] = "confirmed" ~> status[r] # "confirmed"

-----------------------------------------------------------------------------
(* What the documentation, a comment or a message says and the code does    *)
(* not do.  Each is refuted by a run of its own.                            *)

Quiet == (\A q \in Req : call[q] = Idle) /\ (\A j \in Jobs : job[j] = {})

\* "Prevent duplicate payments" (payment.service.ts 39): once every request is
\* answered, a charged order has its SUCCESS row.  Two clicks on one checkout
\* pass the check together; Toss refuses the second, whose FAILED row takes
\* the unique reservationId before the first request inserts SUCCESS.
ChargeIsBooked ==
    Quiet => \A k \in Keys : toss[k] = "done" => payment[OrderOf[k]].state = "success"

\* "Refunded and the reservation cancelled" (payment.service.ts 296): money
\* Toss paid back at the mentee's request is REFUNDED in the books.
RefundIsBooked ==
    Quiet => \A k \in Keys : toss[k] = "canceled" =>
                /\ payment[OrderOf[k]].state = "refunded"
                /\ status[OrderOf[k]] = "cancelled"

\* "A successful payment confirms the reservation" (README.md 36): a paid
\* reservation is not EXPIRED by the task that selected it before.
PaidIsNotExpired ==
    \A r \in Res : payment[r].state = "success" => status[r] # "expired"

\* "The reservation has been rejected" (schedule.service.ts 363): a
\* reservation cancelled by its mentor stays cancelled.
RejectionStands ==
    [][\A r \in Res : status[r] = "cancelled" => status'[r] = "cancelled"]_vars

\* "This time is already reserved" (reservation.service.ts 179): two
\* reservations never hold the same slot.
OneBookingPerSlot ==
    \A r, o \in Res : r # o /\ SlotOf[r] = SlotOf[o] =>
                        ~(status[r] \in LiveStatus /\ status[o] \in LiveStatus)

-----------------------------------------------------------------------------
(* The abstract specification this one implements *)

MoneyOf(r) ==
    IF \E k \in Keys : OrderOf[k] = r /\ toss[k] = "canceled" THEN "returned"
    ELSE IF \E k \in Keys : OrderOf[k] = r /\ toss[k] = "done" THEN "held"
    ELSE "unpaid"

L == INSTANCE Ledger WITH money <- [r \in Res |-> MoneyOf(r)],
                          book <- [r \in Res |-> payment[r].state]

\* Every behaviour of the handlers is one the ledger allows
\* (payment.service.ts 35-153 and 248-338, schedule.service.ts 284-364).
ImplementsLedger == L!Spec
=============================================================================
