---------------------------- MODULE BookingState ----------------------------
(***************************************************************************)
(* The state every booking component reads and writes: the rows of         *)
(* mentoring_reservation and payment (MySQL), the chat rooms (MongoDB),    *)
(* the payments held by Toss, and the handlers in flight.                  *)
(*                                                                         *)
(* The service is one Node process.  A handler runs alone between two      *)
(* awaits, so an action is the code from one await to the next, and what   *)
(* it read is kept in its call record while other handlers run.  One       *)
(* statement of the ORM (a find, an update, a save) is one step, and so is *)
(* a transaction whose writes become visible when it commits.              *)
(***************************************************************************)
EXTENDS FiniteSets, Naturals

CONSTANTS
    Res,        \* reservation ids (mentoring_reservation.id, Toss's orderId)
    Keys,       \* payment keys Toss issues, one per checkout
    Users,      \* accounts
    Req,        \* slots for HTTP requests in flight
    NoRes,      \* "no reservation" in an idle call
    NoKey,      \* "no payment key"
    OrderOf,    \* the reservation each payment key was issued for
    MenteeOf,   \* who books each reservation
    MentorOf,   \* whose session it is
    SlotOf,     \* the (session, date, start, end) each reservation asks for
    Handlers,   \* the handlers this instance exercises
    Faults      \* what the environment may do

AllHandlers == {"refund", "reject", "override", "withdraw",
                "expire", "complete", "progress"}
AllFaults == {"crash", "network", "decline", "database", "reprice"}

ASSUME ConstantTypes ==
    /\ OrderOf \in [Keys -> Res]
    /\ MenteeOf \in [Res -> Users]
    /\ MentorOf \in [Res -> Users]
    /\ NoRes \notin Res
    /\ NoKey \notin Keys
    /\ Handlers \subseteq AllHandlers
    /\ Faults \subseteq AllFaults

VARIABLES
    status,     \* mentoring_reservation.status, "absent" before the insert
    roomId,     \* is mentoring_reservation.roomId set?
    payment,    \* the payment row of each reservation
    rooms,      \* how many chat rooms name each reservation
    toss,       \* Toss: what happened to the money of each key
    gone,       \* users with deletedAt set
    leaving,    \* withdrawals between their reads and their commit
    lapsed,     \* has expiresAt passed?
    phase,      \* where now stands against the session's hour
    call,       \* the request (and then its listener) in each slot
    job         \* rows each cron task has selected and not yet written

rows == <<status, roomId, payment>>
clock == <<lapsed, phase>>
vars == <<status, roomId, payment, rooms, toss, gone, leaving,
          lapsed, phase, call, job>>

-----------------------------------------------------------------------------
(* Types *)

LiveStatus == {"pending", "confirmed", "progress", "completed"}
DeadStatus == {"expired", "cancelled"}
Status == LiveStatus \cup DeadStatus \cup {"absent"}

\* A reservation has at most one payment row: Payment.reservation is a
\* @OneToOne with a @JoinColumn, which makes payment.reservationId unique.
PaymentRow == [state : {"none", "success", "failed", "refunded"},
               key : Keys \cup {NoKey}]
NoPayment == [state |-> "none", key |-> NoKey]

TossState == {"ready", "done", "canceled"}

Phase == {"early", "window", "over"}

\* What a handler keeps of the entities it loaded: the columns a later save
\* of the whole entity writes back, and the related accounts the ORM left
\* out because they were soft-deleted.
Snapshot == [status : Status, roomId : BOOLEAN, missing : SUBSET Users]
NoSnapshot == [status |-> "absent", roomId |-> FALSE, missing |-> {}]

\* Where a handler waits: the step it takes when its await settles.
Pc == {"insert",
       "approve", "record", "log", "announce", "open", "attach",
       "refundCancel", "refundSettle",
       "rejectCancel", "rejectSettle",
       "override"}
Idle == [pc |-> "idle", res |-> NoRes, key |-> NoKey, snap |-> NoSnapshot]
Call == {Idle} \cup [pc : Pc, res : Res, key : Keys \cup {NoKey}, snap : Snapshot]

Jobs == {"expire", "complete", "progress"}
JobItem == [res : Res, roomId : BOOLEAN]

-----------------------------------------------------------------------------
(* Reading rows *)

Exists(r) == status[r] # "absent"

Parties(r) == {MenteeOf[r], MentorOf[r]}

\* What a find with the mentor's user and the mentee joined returns.
Load(r) == [status |-> status[r], roomId |-> roomId[r],
            missing |-> Parties(r) \cap gone]

(* Moving a call along *)

Start(q, pc, r, k, snap) ==
    /\ call[q] = Idle
    /\ call' = [call EXCEPT ![q] = [pc |-> pc, res |-> r, key |-> k,
                                    snap |-> snap]]
At(q, pc) == call[q].pc = pc
GoTo(q, pc) == call' = [call EXCEPT ![q].pc = pc]
GoOnWith(q, pc, snap) ==
    call' = [call EXCEPT ![q] = [call[q] EXCEPT !.pc = pc, !.snap = snap]]
Finish(q) == call' = [call EXCEPT ![q] = Idle]

May(fault) == fault \in Faults
=============================================================================
