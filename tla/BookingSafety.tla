---------------------------- MODULE BookingSafety ----------------------------
(***************************************************************************)
(* Safety theorems about Booking.  The invariants the runs check are not   *)
(* inductive: they say nothing of the handlers in flight, which carry keys *)
(* and copies of rows from one await to the next.  The three invariants    *)
(* below add what every handler knows about its key, its copy and the      *)
(* rows, and are inductive together with TypeOK.                           *)
(***************************************************************************)
EXTENDS BookingProofs

-----------------------------------------------------------------------------
(* Rows: which of them exist, and what may still be written to them         *)

Settled == Status \ {"absent", "pending"}
Paid(r) == payment[r].state \in {"success", "refunded"}

\* A request that inserts has an id nobody else has; every other handler
\* works on a row that is there.
RowInv ==
    /\ \A q \in Req : At(q, "insert") =>
          /\ ~Exists(call[q].res)
          /\ \A p \in Req : At(p, "insert") /\ call[p].res = call[q].res => p = q
    /\ \A q \in Req : call[q] # Idle /\ ~At(q, "insert") => Exists(call[q].res)
    /\ \A j \in Jobs : \A i \in job[j] : Exists(i.res)
    /\ \A r \in Res : payment[r].state # "none" => Exists(r)
    /\ \A r \in Res : Paid(r) => status[r] \in Settled
    /\ \A q \in Req : At(q, "announce") => Paid(call[q].res)
    /\ \A q \in Req : At(q, "open") \/ At(q, "attach") =>
          Paid(call[q].res) /\ call[q].snap.status \in Settled

\* The key a handler holds is of the order it is about; what Toss has
\* answered is still true, and the row the mentor's rejection has read is
\* still the row of that key.
MoneyInv ==
    /\ \A r \in Res : payment[r].state # "none" =>
          payment[r].key \in Keys /\ OrderOf[payment[r].key] = r
    /\ \A r \in Res : payment[r].state = "success" => toss[payment[r].key] # "ready"
    /\ \A r \in Res : payment[r].state = "refunded" => toss[payment[r].key] = "canceled"
    /\ \A q \in Req : call[q].pc \in {"approve", "record", "log"} =>
          call[q].key \in Keys /\ OrderOf[call[q].key] = call[q].res
    /\ \A q \in Req : At(q, "record") => toss[call[q].key] # "ready"
    /\ \A q \in Req : call[q].pc \in {"refundCancel", "rejectCancel", "rejectSettle"} =>
          /\ payment[call[q].res].state # "none"
          /\ payment[call[q].res].key = call[q].key
    /\ \A q \in Req : At(q, "rejectSettle") => toss[call[q].key] = "canceled"

\* No two charges of one order.
ChargeInv ==
    \A k, o \in Keys : /\ OrderOf[k] = OrderOf[o]
                       /\ toss[k] # "ready"
                       /\ toss[o] # "ready"
                       => k = o

\* At most one listener per reservation is about to create a room, and only
\* while there is none; whoever remembers a roomId has seen a room.
RoomInv ==
    /\ \A q \in Req : At(q, "announce") \/ At(q, "open") => rooms[call[q].res] = 0
    /\ \A q \in Req : At(q, "attach") => rooms[call[q].res] > 0
    /\ \A p, q \in Req :
          /\ call[p].pc \in {"announce", "open"}
          /\ call[q].pc \in {"announce", "open"}
          /\ call[p].res = call[q].res
          => p = q
    /\ \A q \in Req : call[q] # Idle /\ call[q].snap.roomId => rooms[call[q].res] > 0
    /\ \A j \in Jobs : \A i \in job[j] : i.roomId => rooms[i.res] > 0
    /\ \A r \in Res : roomId[r] => rooms[r] > 0
    /\ \A r \in Res : rooms[r] > 0 => Paid(r)
    /\ \A r \in Res : rooms[r] <= 1

-----------------------------------------------------------------------------
(* What becomes of the calls when one of them moves                         *)

LEMMA StartCall ==
    ASSUME call \in [Req -> Call], NEW q \in Req, NEW pc \in Pc, NEW r, NEW k,
           NEW s, Start(q, pc, r, k, s)
    PROVE  /\ call'[q] = [pc |-> pc, res |-> r, key |-> k, snap |-> s]
           /\ call'[q] # Idle
           /\ \A p \in Req : p # q => call'[p] = call[p]
<1>1. pc # "idle"
    BY DEF Pc
<1> QED
    BY <1>1 DEF Start, Idle

LEMMA GoToCall ==
    ASSUME call \in [Req -> Call], NEW q \in Req, NEW was \in Pc, At(q, was),
           NEW pc \in Pc, GoTo(q, pc)
    PROVE  /\ call[q] # Idle /\ call'[q] # Idle
           /\ call'[q].pc = pc
           /\ call'[q].res = call[q].res
           /\ call'[q].key = call[q].key
           /\ call'[q].snap = call[q].snap
           /\ \A p \in Req : p # q => call'[p] = call[p]
<1>1. call[q] \in [pc : Pc, res : Res, key : Keys \cup {NoKey}, snap : Snapshot]
    BY BusyType
<1>2. call' = [call EXCEPT ![q] = [call[q] EXCEPT !.pc = pc]]
    BY DEF GoTo
<1>3. /\ call'[q] = [call[q] EXCEPT !.pc = pc]
      /\ \A p \in Req : p # q => call'[p] = call[p]
    BY <1>2
<1>4. /\ call'[q].pc = pc
      /\ call'[q].res = call[q].res
      /\ call'[q].key = call[q].key
      /\ call'[q].snap = call[q].snap
    BY <1>1, <1>3
<1>5. call[q] # Idle /\ call'[q] # Idle
    BY <1>4 DEF At, Idle, Pc
<1> QED
    BY <1>3, <1>4, <1>5

LEMMA GoOnWithCall ==
    ASSUME call \in [Req -> Call], NEW q \in Req, NEW was \in Pc, At(q, was),
           NEW pc \in Pc, NEW s, GoOnWith(q, pc, s)
    PROVE  /\ call[q] # Idle /\ call'[q] # Idle
           /\ call'[q].pc = pc
           /\ call'[q].res = call[q].res
           /\ call'[q].key = call[q].key
           /\ call'[q].snap = s
           /\ \A p \in Req : p # q => call'[p] = call[p]
<1>1. call[q] \in [pc : Pc, res : Res, key : Keys \cup {NoKey}, snap : Snapshot]
    BY BusyType
<1>2. /\ call'[q] = [call[q] EXCEPT !.pc = pc, !.snap = s]
      /\ \A p \in Req : p # q => call'[p] = call[p]
    BY DEF GoOnWith
<1>3. /\ call'[q].pc = pc
      /\ call'[q].res = call[q].res
      /\ call'[q].key = call[q].key
      /\ call'[q].snap = s
    BY <1>1, <1>2
<1>4. call[q] # Idle /\ call'[q] # Idle
    BY <1>3 DEF At, Idle, Pc
<1> QED
    BY <1>2, <1>3, <1>4

LEMMA FinishCall ==
    ASSUME call \in [Req -> Call], NEW q \in Req, Finish(q)
    PROVE  /\ call'[q] = Idle
           /\ \A p \in Req : p # q => call'[p] = call[p]
<1> QED
    BY DEF Finish

\* Every handler in flight is about a reservation.
LEMMA Aims ==
    ASSUME TypeOK
    PROVE  /\ \A p \in Req : call[p] # Idle => call[p].res \in Res
           /\ \A j \in Jobs : \A i \in job[j] : i.res \in Res
<1> QED
    BY DEF TypeOK, Call, JobItem

-----------------------------------------------------------------------------
(* RowInv                                                                   *)

\* A handler that ends without writing a row disturbs nothing.
LEMMA RowFinish ==
    ASSUME TypeOK, RowInv, NEW q \in Req, Finish(q), UNCHANGED <<status, payment, job>>
    PROVE  RowInv'
<1> QED
    BY FinishCall DEF TypeOK, RowInv, Exists, Paid, At, Idle

\* A handler that ends, or a cron task that strikes an item off, by giving a
\* row that exists a status a live reservation may be left with.
LEMMA RowWrite ==
    ASSUME TypeOK, RowInv, NEW r \in Res, Exists(r), NEW s \in Settled,
           status' = [status EXCEPT ![r] = s],
           \A p \in Req : call'[p] = call[p] \/ call'[p] = Idle,
           \A j \in Jobs : job'[j] \subseteq job[j],
           \A o \in Res : o # r => payment'[o] = payment[o],
           Paid(r) => Paid(r)'
    PROVE  RowInv'
<1>1. s # "absent"
    BY DEF Settled
<1>2. \A o \in Res : Exists(o) <=> Exists(o)'
    BY <1>1 DEF TypeOK, Exists
<1>3. \A o \in Res : Paid(o) => Paid(o)'
    BY DEF Paid
<1>4. \A o \in Res : payment'[o].state # "none" => Exists(o)'
    BY <1>2 DEF RowInv
<1>5. \A o \in Res : Paid(o)' => status'[o] \in Settled
    BY DEF TypeOK, RowInv, Paid
<1> QED
    BY <1>2, <1>3, <1>4, <1>5, Aims DEF RowInv, Exists, Paid, At, Idle

LEMMA RowCreate == ASSUME TypeOK, RowInv, NEW q \in Req, Create(q) PROVE RowInv'
<1>1. ASSUME NEW r \in Res, CreateCheck(q, r) PROVE RowInv'
  <2>1. /\ call'[q] = [pc |-> "insert", res |-> r, key |-> NoKey, snap |-> NoSnapshot]
        /\ \A p \in Req : p # q => call'[p] = call[p]
      BY <1>1, StartCall DEF TypeOK, CreateCheck, Pc
  <2> QED
      BY <1>1, <2>1 DEF TypeOK, RowInv, CreateCheck, Unused, Exists, Paid, At, rows
<1>2. CASE CreateInsert(q)
  <2>1. call[q].res \in Res
      BY <1>2, BusyType DEF TypeOK, CreateInsert, Pc
  <2> QED
      BY <1>2, <2>1, FinishCall DEF TypeOK, RowInv, CreateInsert, Exists, Paid, At, Idle, Settled
<1>3. CASE CreateFails(q)
    BY <1>3, RowFinish DEF CreateFails, rows
<1> QED
    BY <1>1, <1>2, <1>3 DEF Create

\* Nor does a handler that goes on with the row it was about, except that one
\* about to call the listener must have recorded a payment.
LEMMA RowGoTo ==
    ASSUME TypeOK, RowInv, NEW q \in Req, NEW was \in Pc \ {"insert"}, At(q, was),
           NEW pc \in Pc \ {"insert", "announce", "open"}, GoTo(q, pc),
           pc = "attach" => was = "open",
           UNCHANGED <<status, payment, job>>
    PROVE  RowInv'
<1> QED
    BY GoToCall DEF TypeOK, RowInv, Exists, Paid, At

\* A call that starts with a row it has just read.
LEMMA RowStart ==
    ASSUME TypeOK, RowInv, NEW q \in Req, NEW r \in Res, Exists(r),
           NEW pc \in Pc \ {"insert", "announce", "open", "attach"}, NEW k, NEW s,
           Start(q, pc, r, k, s), UNCHANGED <<status, payment, job>>
    PROVE  RowInv'
<1>1. /\ call'[q] = [pc |-> pc, res |-> r, key |-> k, snap |-> s]
      /\ \A p \in Req : p # q => call'[p] = call[p]
    BY StartCall DEF TypeOK
<1> QED
    BY <1>1 DEF TypeOK, RowInv, Exists, Paid, At

LEMMA RowConfirm == ASSUME TypeOK, RowInv, NEW q \in Req, Confirm(q) PROVE RowInv'
<1>1. ASSUME NEW k \in Keys, ConfirmCheck(q, k) \/ ConfirmMispriced(q, k)
      PROVE  RowInv'
  <2>1. OrderOf[k] \in Res
      BY ConstantTypes
  <2> QED
      BY <1>1, <2>1, RowStart DEF ConfirmCheck, ConfirmMispriced, Pc, rows
<1>2. CASE ConfirmApprove(q) \/ ConfirmRefused(q) \/ ConfirmRollback(q)
    BY <1>2, RowGoTo DEF ConfirmApprove, TossApprove, ConfirmRefused,
                         ConfirmRollback, Pc, rows
<1>3. CASE ConfirmRecord(q)
  <2>1. call[q].res \in Res
      BY <1>3, BusyType DEF TypeOK, ConfirmRecord, Pc
  <2>2. /\ call[q] # Idle
        /\ call'[q].pc = "announce" /\ call'[q].res = call[q].res
        /\ \A p \in Req : p # q => call'[p] = call[p]
      BY <1>3, GoToCall DEF TypeOK, ConfirmRecord, Pc
  <2>3. "confirmed" \in Settled /\ "confirmed" # "absent"
      BY DEF Settled, Status, LiveStatus
  <2> QED
      BY <1>3, <2>1, <2>2, <2>3 DEF TypeOK, RowInv, ConfirmRecord, Exists, Paid, At
<1>4. CASE ConfirmLog(q)
  <2>1. call[q].res \in Res
      BY <1>4, BusyType DEF TypeOK, ConfirmLog, Pc
  <2>2. \A r \in Res : Paid(r) => Paid(r)'
      BY <1>4, <2>1 DEF TypeOK, ConfirmLog, NoPayment, Paid
  <2>3. \A r \in Res : Paid(r)' => Paid(r)
      BY <1>4, <2>1 DEF TypeOK, ConfirmLog, Paid
  <2>4. \A r \in Res : Exists(r) <=> Exists(r)'
      BY <1>4 DEF ConfirmLog, Exists
  <2>5. \A r \in Res : payment'[r].state # "none" => Exists(r)
      BY <1>4, <2>1 DEF TypeOK, RowInv, ConfirmLog, At, Idle
  <2>6. /\ call'[q] = Idle /\ \A p \in Req : p # q => call'[p] = call[p]
        /\ status' = status /\ job' = job
      BY <1>4, FinishCall DEF TypeOK, ConfirmLog
  <2> QED
      BY <2>2, <2>3, <2>4, <2>5, <2>6, Aims DEF RowInv, Exists, Paid, At, Idle
<1>5. CASE ConfirmLogFails(q)
    BY <1>5, RowFinish DEF ConfirmLogFails, rows
<1> QED
    BY <1>1, <1>2, <1>3, <1>4, <1>5 DEF Confirm

LEMMA RowRefund == ASSUME TypeOK, RowInv, NEW q \in Req, Refund(q) PROVE RowInv'
<1>1. ASSUME NEW r \in Res, RefundCheck(q, r) PROVE RowInv'
    BY <1>1, RowStart DEF RowInv, RefundCheck, Pc, rows
<1>2. CASE RefundCancel(q)
    BY <1>2, RowGoTo, RowFinish DEF RefundCancel, TossCancel, Pc, rows
<1>3. CASE RefundCancelFails(q) \/ RefundSettle(q)
    BY <1>3, RowFinish DEF RefundCancelFails, TossCancelFails, RefundSettle, rows
<1> QED
    BY <1>1, <1>2, <1>3 DEF Refund

LEMMA RowReject == ASSUME TypeOK, RowInv, NEW q \in Req, Reject(q) PROVE RowInv'
<1>1. ASSUME NEW r \in Res, RejectCheck(q, r) PROVE RowInv'
    BY <1>1, RowStart DEF RejectCheck, Pc, rows
<1>2. CASE RejectCancel(q)
    BY <1>2, RowGoTo, RowFinish DEF RejectCancel, TossCancel, Pc, rows
<1>3. CASE RejectCancelFails(q) \/ RejectRollback(q)
    BY <1>3, RowFinish DEF RejectCancelFails, TossCancelFails, RejectRollback, rows
<1>4. CASE RejectSettle(q)
  <2>1. call[q].res \in Res /\ Exists(call[q].res)
      BY <1>4, BusyType DEF TypeOK, RowInv, RejectSettle, Pc, At, Idle
  <2>2. "cancelled" \in Settled
      BY DEF Settled, Status, DeadStatus
  <2>3. /\ \A o \in Res : o # call[q].res => payment'[o] = payment[o]
        /\ Paid(call[q].res) => payment'[call[q].res].state = "refunded"
      BY <1>4, <2>1 DEF TypeOK, RejectSettle
  <2>4. \A p \in Req : call'[p] = call[p] \/ call'[p] = Idle
      BY <1>4, FinishCall DEF TypeOK, RejectSettle
  <2>5. PICK r \in Res : r = call[q].res
      BY <2>1
  <2> QED
      BY <1>4, <2>1, <2>2, <2>3, <2>4, <2>5, RowWrite DEF RejectSettle, Paid
<1> QED
    BY <1>1, <1>2, <1>3, <1>4 DEF Reject

LEMMA RowListen == ASSUME TypeOK, RowInv, NEW q \in Req, Listen(q) PROVE RowInv'
<1>1. CASE ListenerLoad(q)
  <2>1. call[q].res \in Res
      BY <1>1, BusyType DEF TypeOK, ListenerLoad, Pc
  <2>2. /\ call[q] # Idle
        /\ call'[q].pc = "open" /\ call'[q].res = call[q].res
        /\ call'[q].snap = Load(call[q].res)
        /\ \A p \in Req : p # q => call'[p] = call[p]
      BY <1>1, GoOnWithCall DEF TypeOK, ListenerLoad, Pc
  <2>3. call'[q].snap.status \in Settled
      BY <1>1, <2>1, <2>2 DEF RowInv, ListenerLoad, Load
  <2> QED
      BY <1>1, <2>1, <2>2, <2>3 DEF TypeOK, RowInv, ListenerLoad, Exists, Paid, At, rows
<1>2. CASE ListenerThrows(q) \/ RoomFails(q)
    BY <1>2, RowFinish DEF ListenerThrows, RoomFails, rows
<1>3. CASE CreateRoom(q)
    BY <1>3, RowGoTo DEF CreateRoom, Pc, rows
<1>4. CASE AttachRoom(q)
  <2>1. PICK r \in Res : r = call[q].res
      BY <1>4, BusyType DEF TypeOK, AttachRoom, Pc
  <2>2. Exists(r) /\ call[q].snap.status \in Settled
      BY <1>4, <2>1 DEF RowInv, AttachRoom, At, Idle
  <2>3. \A p \in Req : call'[p] = call[p] \/ call'[p] = Idle
      BY <1>4, FinishCall DEF TypeOK, AttachRoom
  <2> QED
      BY <1>4, <2>1, <2>2, <2>3, RowWrite DEF AttachRoom, Paid
<1> QED
    BY <1>1, <1>2, <1>3, <1>4 DEF Listen

LEMMA RowOverride == ASSUME TypeOK, RowInv, NEW q \in Req, Override(q) PROVE RowInv'
<1>1. ASSUME NEW r \in Res, OverrideLoad(q, r) PROVE RowInv'
    BY <1>1, RowStart DEF OverrideLoad, Pc, rows
<1>2. CASE OverrideSave(q)
  <2>1. PICK r \in Res : r = call[q].res
      BY <1>2, BusyType DEF TypeOK, OverrideSave, Pc
  <2>2. Exists(r)
      BY <1>2, <2>1 DEF RowInv, OverrideSave, At, Idle
  <2>3. {"confirmed", "cancelled"} \subseteq Settled
      BY DEF Settled, Status, LiveStatus, DeadStatus
  <2>4. \A p \in Req : call'[p] = call[p] \/ call'[p] = Idle
      BY <1>2, FinishCall DEF TypeOK, OverrideSave
  <2>5. PICK s \in {"confirmed", "cancelled"} : status' = [status EXCEPT ![r] = s]
      BY <1>2, <2>1 DEF OverrideSave
  <2> QED
      BY <1>2, <2>2, <2>3, <2>4, <2>5, RowWrite DEF OverrideSave, Paid
<1>3. CASE OverrideFails(q)
    BY <1>3, RowFinish DEF OverrideFails, rows
<1> QED
    BY <1>1, <1>2, <1>3 DEF Override

\* A step that moves no call and writes neither statuses nor payments, and
\* only selects reservations that exist.
LEMMA RowQuiet ==
    ASSUME TypeOK, RowInv, UNCHANGED <<status, payment>>,
           \A p \in Req : call'[p] = call[p] \/ call'[p] = Idle,
           \A j \in Jobs : \A i \in job'[j] : i \in job[j] \/ Exists(i.res)
    PROVE  RowInv'
<1> QED
    BY DEF RowInv, Exists, Paid, At, Idle

LEMMA RowCron == ASSUME TypeOK, RowInv, Cron PROVE RowInv'
<1>1. ASSUME NEW j \in Jobs, NEW due \in SUBSET Res, Select(j, due),
             \A r \in due : Exists(r)
      PROVE  RowInv'
  <2>1. \A o \in Jobs : \A i \in job'[o] : i \in job[o] \/ Exists(i.res)
      BY <1>1 DEF TypeOK, Select
  <2> QED
      BY <1>1, <2>1, RowQuiet DEF Select, rows
<1>2. CASE ExpireSelect \/ CompleteSelect \/ ProgressSelect
    BY <1>1, <1>2 DEF ExpireSelect, CompleteSelect, ProgressSelect, Jobs,
                      Overdue, Ended, Starting, Exists
<1>3. ASSUME NEW i \in JobItem, ExpireOne(i) \/ CompleteOne(i) \/ ProgressOne(i)
      PROVE  RowInv'
  <2>1. PICK r \in Res : r = i.res
      BY DEF JobItem
  <2>2. Exists(r)
      BY <1>3, <2>1 DEF RowInv, ExpireOne, CompleteOne, ProgressOne, Jobs
  <2>3. {"expired", "completed", "progress"} \subseteq Settled
      BY DEF Settled, Status, LiveStatus, DeadStatus
  <2>4. \A j \in Jobs : job'[j] \subseteq job[j]
      BY <1>3 DEF TypeOK, ExpireOne, CompleteOne, ProgressOne
  <2> QED
      BY <1>3, <2>1, <2>2, <2>3, <2>4, RowWrite
      DEF ExpireOne, CompleteOne, ProgressOne, Paid
<1>4. ASSUME NEW j \in Jobs, CronFails(j) PROVE RowInv'
  <2>1. \A o \in Jobs : \A i \in job'[o] : i \in job[o]
      BY <1>4 DEF TypeOK, CronFails
  <2> QED
      BY <1>4, <2>1, RowQuiet DEF CronFails, rows
<1> QED
    BY <1>2, <1>3, <1>4 DEF Cron, ExpireTask, CompleteTask, ProgressTask

LEMMA RowStep == TypeOK /\ RowInv /\ [Next]_vars => RowInv'
<1> SUFFICES ASSUME TypeOK, RowInv, [Next]_vars PROVE RowInv'
    OBVIOUS
<1>1. CASE Withdraw
    BY <1>1, RowQuiet DEF Withdraw, WithdrawCheck, WithdrawCommit, WithdrawFails, rows
<1>2. CASE Tick
    BY <1>2, RowQuiet DEF Tick, Lapse, Pass, rows
<1>3. CASE Restart
    BY <1>3, RowQuiet DEF Restart, rows
<1>4. CASE UNCHANGED vars
    BY <1>4, RowQuiet DEF vars
<1> QED
    BY <1>1, <1>2, <1>3, <1>4, RowCreate, RowConfirm, RowRefund, RowReject,
       RowListen, RowOverride, RowCron DEF Next

LEMMA RowInit == Init => RowInv
<1> QED
    BY DEF Init, RowInv, At, Idle, Paid, NoPayment, Exists

LEMMA RowAlways == Spec => [](TypeOK /\ RowInv)
<1>1. Init => TypeOK /\ RowInv
    BY TypeInit, RowInit
<1>2. TypeOK /\ RowInv /\ [Next]_vars => (TypeOK /\ RowInv)'
    BY TypeStep, RowStep
<1> QED
    BY <1>1, <1>2, PTL DEF Spec

\* The writes to a status column: the insert finds an id without a row, and
\* every other value written is one a settled reservation may have.
LEMMA StatusStep ==
    ASSUME TypeOK, RowInv, Next, NEW r \in Res, status[r] \notin {"absent", "pending"}
    PROVE  status'[r] \notin {"absent", "pending"}
<1>1. ASSUME NEW q \in Req, Create(q) PROVE status'[r] \notin {"absent", "pending"}
    BY <1>1 DEF TypeOK, RowInv, Create, CreateCheck, CreateInsert, CreateFails,
                Exists, At, rows
<1>2. ASSUME NEW q \in Req, Confirm(q) PROVE status'[r] \notin {"absent", "pending"}
    BY <1>2 DEF TypeOK, Confirm, ConfirmCheck, ConfirmMispriced, ConfirmApprove,
                ConfirmRefused, ConfirmRecord, ConfirmRollback, ConfirmLog,
                ConfirmLogFails, rows
<1>3. ASSUME NEW q \in Req, Refund(q) \/ Reject(q)
      PROVE  status'[r] \notin {"absent", "pending"}
    BY <1>3 DEF TypeOK, Refund, RefundCheck, RefundCancel, RefundCancelFails,
                RefundSettle, Reject, RejectCheck, RejectCancel,
                RejectCancelFails, RejectSettle, RejectRollback, rows
<1>4. ASSUME NEW q \in Req, Listen(q) PROVE status'[r] \notin {"absent", "pending"}
    BY <1>4 DEF TypeOK, RowInv, Settled, Listen, ListenerLoad, ListenerThrows,
                CreateRoom, AttachRoom, RoomFails, rows
<1>5. ASSUME NEW q \in Req, Override(q) PROVE status'[r] \notin {"absent", "pending"}
    BY <1>5 DEF TypeOK, Override, OverrideLoad, OverrideSave, OverrideFails, rows
<1>6. CASE Cron
    BY <1>6 DEF TypeOK, Cron, ExpireTask, CompleteTask, ProgressTask, ExpireSelect,
                CompleteSelect, ProgressSelect, Select, ExpireOne, CompleteOne,
                ProgressOne, CronFails, rows
<1>7. CASE Withdraw \/ Tick \/ Restart
    BY <1>7 DEF Withdraw, WithdrawCheck, WithdrawCommit, WithdrawFails, Tick,
                Lapse, Pass, Restart, rows
<1> QED
    BY <1>1, <1>2, <1>3, <1>4, <1>5, <1>6, <1>7 DEF Next

\* Once a reservation has left PENDING no handler, however old its copy of
\* the row, brings it back there or removes it: each saves a copy it read
\* after the payment was recorded.
THEOREM NeverPending == Spec => NeverPendingAgain
<1>1. TypeOK /\ RowInv /\ [Next]_vars =>
        [\A r \in Res : status[r] \notin {"absent", "pending"}
                          => status'[r] \notin {"absent", "pending"}]_vars
    BY StatusStep
<1> QED
    BY <1>1, RowAlways, PTL DEF Spec, NeverPendingAgain

-----------------------------------------------------------------------------
(* MoneyInv                                                                 *)

LEMMA MoneyInit == Init => MoneyInv
<1> QED
    BY DEF Init, MoneyInv, At, Idle, NoPayment

\* What Toss has done to a payment stays done: it may be paid back, and that
\* is all.
TossGrows ==
    \A k \in Keys : /\ toss[k] # "ready" => toss'[k] # "ready"
                    /\ toss[k] = "canceled" => toss'[k] = "canceled"

\* The keys the invariant speaks of are keys Toss has issued.
LEMMA MoneyKeys ==
    ASSUME TypeOK, MoneyInv
    PROVE  /\ \A r \in Res : payment[r].state # "none" => payment[r].key \in Keys
           /\ \A p \in Req : call[p].pc \in {"approve", "record", "log", "refundCancel",
                                             "rejectCancel", "rejectSettle"}
                                => call[p].key \in Keys
<1>1. \A r \in Res : payment[r].state # "none" => payment[r].key \in Keys
    BY DEF MoneyInv
<1> QED
    BY <1>1, Aims DEF MoneyInv, Idle

\* A step in which handlers only end, no row is written and Toss may act.
LEMMA MoneyQuiet ==
    ASSUME TypeOK, MoneyInv, UNCHANGED payment, TossGrows,
           \A p \in Req : call'[p] = call[p] \/ call'[p] = Idle
    PROVE  MoneyInv'
<1> QED
    BY MoneyKeys DEF MoneyInv, TossGrows, At, Idle

\* A handler that goes on with the key it holds, and may rely on what Toss
\* has just answered.
LEMMA MoneyGoTo ==
    ASSUME TypeOK, MoneyInv, NEW q \in Req, NEW was \in Pc, At(q, was),
           NEW pc \in Pc, GoTo(q, pc), UNCHANGED payment, TossGrows,
           pc \notin {"approve", "refundCancel", "rejectCancel"},
           pc \in {"record", "log"} => was \in {"approve", "record"},
           pc = "record" => toss'[call[q].key] # "ready",
           pc = "rejectSettle" => was = "rejectCancel" /\ toss'[call[q].key] = "canceled"
    PROVE  MoneyInv'
<1> QED
    BY MoneyKeys, GoToCall DEF TypeOK, MoneyInv, TossGrows, At

\* A call that starts with a key of its order, or of the row it has read.
LEMMA MoneyStart ==
    ASSUME TypeOK, MoneyInv, NEW q \in Req, NEW r \in Res, NEW k,
           NEW pc \in Pc \ {"record", "rejectSettle"}, NEW s,
           Start(q, pc, r, k, s), UNCHANGED <<payment, toss>>,
           pc \in {"approve", "log"} => k \in Keys /\ OrderOf[k] = r,
           pc \in {"refundCancel", "rejectCancel"} =>
               payment[r].state # "none" /\ payment[r].key = k
    PROVE  MoneyInv'
<1>1. /\ call'[q] = [pc |-> pc, res |-> r, key |-> k, snap |-> s]
      /\ \A p \in Req : p # q => call'[p] = call[p]
    BY StartCall DEF TypeOK
<1> QED
    BY <1>1 DEF MoneyInv, At

\* The two effects of Toss's endpoints.
LEMMA ApproveGrows ==
    ASSUME TypeOK, NEW q \in Req, NEW next, NEW lost, TossApprove(q, next, lost)
    PROVE  /\ TossGrows
           /\ call[q].key \in Keys => toss'[call[q].key] # "ready"
<1> QED
    BY DEF TypeOK, TossApprove, Approvable, TossGrows

LEMMA CancelGrows ==
    ASSUME TypeOK, NEW q \in Req, NEW next, TossCancel(q, next)
    PROVE  /\ TossGrows
           /\ call[q].key \in Keys => toss'[call[q].key] = "canceled"
<1> QED
    BY DEF TypeOK, TossCancel, Cancelable, TossGrows

\* A row without an entry gets one, under the key of the handler that writes
\* it, which ends or goes on to call the listener.
LEMMA MoneyEntry ==
    ASSUME TypeOK, MoneyInv, NEW q \in Req, At(q, "record") \/ At(q, "log"),
           payment[call[q].res] = NoPayment,
           NEW state \in {"success", "failed"}, state = "success" => At(q, "record"),
           payment' = [payment EXCEPT ![call[q].res] =
                          [state |-> state, key |-> call[q].key]],
           UNCHANGED toss, Finish(q) \/ GoTo(q, "announce")
    PROVE  MoneyInv'
<1>1. call[q].res \in Res
    BY BusyType DEF TypeOK, Pc
<1>2. /\ call'[q].pc \in {"idle", "announce"}
      /\ \A p \in Req : p # q => call'[p] = call[p]
    BY FinishCall, GoToCall DEF TypeOK, Pc, Idle
<1>3. \A r \in Res : r # call[q].res => payment'[r] = payment[r]
    BY DEF TypeOK
<1>4. payment'[call[q].res] = [state |-> state, key |-> call[q].key]
    BY <1>1 DEF TypeOK
<1>5. call[q].key \in Keys /\ OrderOf[call[q].key] = call[q].res
    BY DEF MoneyInv, At
<1>6. state = "success" => toss[call[q].key] # "ready"
    BY DEF MoneyInv
<1>7. \A p \in Req : call[p].pc \in {"refundCancel", "rejectCancel", "rejectSettle"} =>
          call[p].res \in Res /\ call[p].res # call[q].res
    BY Aims DEF MoneyInv, NoPayment, Idle
<1> QED
    BY <1>1, <1>2, <1>3, <1>4, <1>5, <1>6, <1>7 DEF MoneyInv, At

LEMMA MoneyConfirm == ASSUME TypeOK, MoneyInv, NEW q \in Req, Confirm(q) PROVE MoneyInv'
<1>1. ASSUME NEW k \in Keys, ConfirmCheck(q, k) \/ ConfirmMispriced(q, k)
      PROVE  MoneyInv'
  <2>1. OrderOf[k] \in Res
      BY ConstantTypes
  <2> QED
      BY <1>1, <2>1, MoneyStart DEF ConfirmCheck, ConfirmMispriced, Pc, rows
<1>2. CASE ConfirmApprove(q)
  <2>1. TossGrows /\ toss'[call[q].key] # "ready"
      BY <1>2, ApproveGrows DEF MoneyInv, ConfirmApprove, At
  <2> QED
      BY <1>2, <2>1, MoneyGoTo DEF ConfirmApprove, TossApprove, Pc, rows
<1>3. CASE ConfirmRefused(q) \/ ConfirmRollback(q)
    BY <1>3, MoneyGoTo DEF ConfirmRefused, ConfirmRollback, Pc, rows, TossGrows
<1>4. CASE ConfirmRecord(q)
    BY <1>4, MoneyEntry DEF ConfirmRecord, Recordable
<1>5. CASE ConfirmLog(q)
  <2>1. CASE payment[call[q].res] = NoPayment
      BY <1>5, <2>1, MoneyEntry DEF ConfirmLog
  <2>2. CASE payment[call[q].res] # NoPayment
      BY <1>5, <2>2, MoneyQuiet, FinishCall DEF TypeOK, ConfirmLog, TossGrows
  <2> QED
      BY <2>1, <2>2
<1>6. CASE ConfirmLogFails(q)
    BY <1>6, MoneyQuiet, FinishCall DEF TypeOK, ConfirmLogFails, TossGrows, rows
<1> QED
    BY <1>1, <1>2, <1>3, <1>4, <1>5, <1>6 DEF Confirm

LEMMA MoneyRefund == ASSUME TypeOK, MoneyInv, NEW q \in Req, Refund(q) PROVE MoneyInv'
<1>1. ASSUME NEW r \in Res, RefundCheck(q, r) PROVE MoneyInv'
    BY <1>1, MoneyStart DEF RefundCheck, Pc, rows
<1>2. CASE RefundCancel(q)
  <2>1. TossGrows
      BY <1>2, CancelGrows DEF RefundCancel
  <2> QED
      BY <1>2, <2>1, MoneyGoTo, MoneyQuiet, FinishCall
      DEF TypeOK, RefundCancel, TossCancel, Pc, rows
<1>3. CASE RefundCancelFails(q) \/ RefundSettle(q)
    BY <1>3, MoneyQuiet, FinishCall
    DEF TypeOK, RefundCancelFails, TossCancelFails, RefundSettle, TossGrows, rows
<1> QED
    BY <1>1, <1>2, <1>3 DEF Refund

LEMMA MoneyReject == ASSUME TypeOK, MoneyInv, NEW q \in Req, Reject(q) PROVE MoneyInv'
<1>1. ASSUME NEW r \in Res, RejectCheck(q, r) PROVE MoneyInv'
    BY <1>1, MoneyStart DEF RejectCheck, Pc, rows
<1>2. CASE RejectCancel(q)
  <2>1. TossGrows /\ toss'[call[q].key] = "canceled"
      BY <1>2, CancelGrows, MoneyKeys DEF RejectCancel, At
  <2> QED
      BY <1>2, <2>1, MoneyGoTo, MoneyQuiet, FinishCall
      DEF TypeOK, RejectCancel, TossCancel, Pc, rows
<1>3. CASE RejectCancelFails(q) \/ RejectRollback(q)
    BY <1>3, MoneyQuiet, FinishCall
    DEF TypeOK, RejectCancelFails, TossCancelFails, RejectRollback, TossGrows, rows
<1>4. CASE RejectSettle(q)
  <2>1. PICK r \in Res : r = call[q].res
      BY <1>4, BusyType DEF TypeOK, RejectSettle, Pc
  <2>2. /\ payment[r].state # "none" /\ payment[r].key = call[q].key
        /\ toss[call[q].key] = "canceled"
      BY <1>4, <2>1 DEF MoneyInv, RejectSettle, At
  <2>3. /\ payment'[r].state = "refunded" /\ payment'[r].key = payment[r].key
        /\ \A o \in Res : o # r => payment'[o] = payment[o]
      BY <1>4, <2>1 DEF TypeOK, PaymentRow, RejectSettle
  <2>4. \A p \in Req : call'[p] = call[p] \/ call'[p] = Idle
      BY <1>4, FinishCall DEF TypeOK, RejectSettle
  <2>5. toss' = toss
      BY <1>4 DEF RejectSettle
  <2> QED
      BY <2>1, <2>2, <2>3, <2>4, <2>5, Aims DEF MoneyInv, At, Idle
<1> QED
    BY <1>1, <1>2, <1>3, <1>4 DEF Reject

\* The listener, the administrator and the insert of a reservation leave both
\* the books and Toss alone.
LEMMA MoneyListen == ASSUME TypeOK, MoneyInv, NEW q \in Req, Listen(q) PROVE MoneyInv'
<1>1. CASE ListenerLoad(q)
  <2>1. /\ call'[q].pc = "open"
        /\ \A p \in Req : p # q => call'[p] = call[p]
      BY <1>1, GoOnWithCall DEF TypeOK, ListenerLoad, Pc
  <2> QED
      BY <1>1, <2>1 DEF MoneyInv, ListenerLoad, At, rows
<1>2. CASE CreateRoom(q)
    BY <1>2, MoneyGoTo DEF CreateRoom, TossGrows, Pc, rows
<1>3. CASE ListenerThrows(q) \/ AttachRoom(q) \/ RoomFails(q)
    BY <1>3, MoneyQuiet, FinishCall
    DEF TypeOK, ListenerThrows, AttachRoom, RoomFails, TossGrows, rows
<1> QED
    BY <1>1, <1>2, <1>3 DEF Listen

LEMMA MoneyOther ==
    ASSUME TypeOK, MoneyInv, NEW q \in Req, Create(q) \/ Override(q)
    PROVE  MoneyInv'
<1>1. ASSUME NEW r \in Res, CreateCheck(q, r) \/ OverrideLoad(q, r) PROVE MoneyInv'
    BY <1>1, MoneyStart DEF CreateCheck, OverrideLoad, Pc, rows
<1>2. CASE CreateInsert(q) \/ CreateFails(q) \/ OverrideSave(q) \/ OverrideFails(q)
    BY <1>2, MoneyQuiet, FinishCall
    DEF TypeOK, CreateInsert, CreateFails, OverrideSave, OverrideFails, TossGrows, rows
<1> QED
    BY <1>1, <1>2 DEF Create, Override

LEMMA MoneyStep == TypeOK /\ MoneyInv /\ [Next]_vars => MoneyInv'
<1> SUFFICES ASSUME TypeOK, MoneyInv, [Next]_vars PROVE MoneyInv'
    OBVIOUS
<1>1. CASE Cron
    BY <1>1, MoneyQuiet DEF Cron, ExpireTask, CompleteTask, ProgressTask, ExpireSelect,
       CompleteSelect, ProgressSelect, Select, ExpireOne, CompleteOne, ProgressOne,
       CronFails, TossGrows, rows
<1>2. CASE Withdraw \/ Tick
    BY <1>2, MoneyQuiet DEF Withdraw, WithdrawCheck, WithdrawCommit, WithdrawFails,
       Tick, Lapse, Pass, TossGrows, rows
<1>3. CASE Restart
    BY <1>3, MoneyQuiet DEF Restart, TossGrows, rows
<1>4. CASE UNCHANGED vars
    BY <1>4, MoneyQuiet DEF vars, TossGrows
<1> QED
    BY <1>1, <1>2, <1>3, <1>4, MoneyConfirm, MoneyRefund, MoneyReject, MoneyListen,
       MoneyOther DEF Next

\* The books agree with Toss, whatever answers are lost, requests race or
\* restarts happen between the charge and the commit.
THEOREM BooksAgree == Spec => []BooksMatchToss
<1>1. TypeOK /\ MoneyInv => BooksMatchToss
    BY DEF TypeOK, TossState, MoneyInv, BooksMatchToss
<1>2. Init => TypeOK /\ MoneyInv
    BY TypeInit, MoneyInit
<1>3. TypeOK /\ MoneyInv /\ [Next]_vars => (TypeOK /\ MoneyInv)'
    BY TypeStep, MoneyStep
<1> QED
    BY <1>1, <1>2, <1>3, PTL DEF Spec

-----------------------------------------------------------------------------
(* RoomInv                                                                  *)

\* A recorded payment is never forgotten.
PaidGrows == \A r \in Res : Paid(r) => Paid(r)'

LEMMA RoomInit == Init => RoomInv
<1> QED
    BY DEF Init, RoomInv, At, Idle

\* A step in which handlers only end, tasks select rows as they are, and what
\* is written back to a roomId was read while the room was there.
LEMMA RoomQuiet ==
    ASSUME TypeOK, RoomInv, UNCHANGED rooms, PaidGrows,
           \A r \in Res : roomId'[r] => rooms[r] > 0,
           \A p \in Req : call'[p] = call[p] \/ call'[p] = Idle,
           \A j \in Jobs : \A i \in job'[j] : i \in job[j] \/ (i.roomId => rooms[i.res] > 0)
    PROVE  RoomInv'
<1> QED
    BY DEF RoomInv, PaidGrows, At, Idle

LEMMA RoomGoTo ==
    ASSUME TypeOK, RoomInv, NEW q \in Req, NEW was \in Pc, At(q, was),
           NEW pc \in Pc \ {"announce", "open", "attach"}, GoTo(q, pc),
           UNCHANGED <<rooms, roomId, job>>, PaidGrows
    PROVE  RoomInv'
<1> QED
    BY GoToCall DEF TypeOK, RoomInv, PaidGrows, At

LEMMA RoomStart ==
    ASSUME TypeOK, RoomInv, NEW q \in Req, NEW r \in Res, NEW k,
           NEW pc \in Pc \ {"announce", "open", "attach"}, NEW s,
           s.roomId => rooms[r] > 0,
           Start(q, pc, r, k, s), UNCHANGED <<rooms, roomId, payment, job>>
    PROVE  RoomInv'
<1>1. /\ call'[q] = [pc |-> pc, res |-> r, key |-> k, snap |-> s]
      /\ \A p \in Req : p # q => call'[p] = call[p]
    BY StartCall DEF TypeOK
<1> QED
    BY <1>1 DEF TypeOK, RoomInv, Paid, At

\* A copy of a row that has a roomId was made while the room was there.
LEMMA LoadSeesRoom ==
    ASSUME TypeOK, RoomInv, NEW r \in Res
    PROVE  /\ Load(r).roomId => rooms[r] > 0
           /\ ~NoSnapshot.roomId
<1> QED
    BY DEF RoomInv, Load, NoSnapshot

LEMMA RoomConfirm ==
    ASSUME TypeOK, RowInv, RoomInv, NEW q \in Req, Confirm(q)
    PROVE  RoomInv'
<1>1. ASSUME NEW k \in Keys, ConfirmCheck(q, k) \/ ConfirmMispriced(q, k)
      PROVE  RoomInv'
  <2>1. OrderOf[k] \in Res
      BY ConstantTypes
  <2> QED
      BY <1>1, <2>1, RoomStart, LoadSeesRoom DEF ConfirmCheck, ConfirmMispriced, Pc, rows
<1>2. CASE ConfirmApprove(q) \/ ConfirmRefused(q) \/ ConfirmRollback(q)
    BY <1>2, RoomGoTo DEF ConfirmApprove, TossApprove, ConfirmRefused, ConfirmRollback,
                          PaidGrows, Paid, Pc, rows
<1>3. CASE ConfirmRecord(q)
  <2>1. PICK r \in Res : r = call[q].res
      BY <1>3, BusyType DEF TypeOK, ConfirmRecord, Pc
  <2>2. /\ call[q] # Idle
        /\ call'[q].pc = "announce" /\ call'[q].res = r /\ call'[q].snap = call[q].snap
        /\ \A p \in Req : p # q => call'[p] = call[p]
      BY <1>3, <2>1, GoToCall DEF TypeOK, ConfirmRecord, Pc
  <2>3. ~Paid(r) /\ rooms[r] = 0
      BY <1>3, <2>1 DEF TypeOK, RoomInv, ConfirmRecord, Recordable, NoPayment, Paid
  <2>4. \A p \in Req : call[p].pc \in {"announce", "open"} => call[p].res # r
      BY <2>3 DEF RowInv, At
  <2>5. PaidGrows
      BY <1>3, <2>1 DEF TypeOK, ConfirmRecord, PaidGrows, Paid
  <2>6. UNCHANGED <<rooms, roomId, job>>
      BY <1>3 DEF ConfirmRecord
  <2> QED
      BY <2>1, <2>2, <2>3, <2>4, <2>5, <2>6 DEF TypeOK, RoomInv, PaidGrows, At
<1>4. CASE ConfirmLog(q)
  <2>1. PaidGrows
      BY <1>4 DEF TypeOK, ConfirmLog, NoPayment, PaidGrows, Paid
  <2> QED
      BY <1>4, <2>1, RoomQuiet, FinishCall DEF TypeOK, RoomInv, ConfirmLog
<1>5. CASE ConfirmLogFails(q)
    BY <1>5, RoomQuiet, FinishCall DEF TypeOK, RoomInv, ConfirmLogFails, PaidGrows, Paid, rows
<1> QED
    BY <1>1, <1>2, <1>3, <1>4, <1>5 DEF Confirm

LEMMA RoomRefund == ASSUME TypeOK, RoomInv, NEW q \in Req, Refund(q) PROVE RoomInv'
<1>1. ASSUME NEW r \in Res, RefundCheck(q, r) PROVE RoomInv'
    BY <1>1, RoomStart, LoadSeesRoom DEF RefundCheck, Pc, rows
<1>2. CASE RefundCancel(q)
    BY <1>2, RoomGoTo, RoomQuiet, FinishCall
    DEF TypeOK, RoomInv, RefundCancel, TossCancel, PaidGrows, Paid, Pc, rows
<1>3. CASE RefundCancelFails(q) \/ RefundSettle(q)
    BY <1>3, RoomQuiet, FinishCall
    DEF TypeOK, RoomInv, RefundCancelFails, TossCancelFails, RefundSettle,
        PaidGrows, Paid, rows
<1> QED
    BY <1>1, <1>2, <1>3 DEF Refund

\* A handler that ends by writing back the roomId of its own copy.
LEMMA RoomSaves ==
    ASSUME TypeOK, RoomInv, NEW q \in Req, call[q] # Idle, Finish(q),
           roomId' = [roomId EXCEPT ![call[q].res] = call[q].snap.roomId],
           UNCHANGED <<rooms, job>>, PaidGrows
    PROVE  RoomInv'
<1>1. call[q].snap.roomId => rooms[call[q].res] > 0
    BY DEF RoomInv
<1>2. \A r \in Res : roomId'[r] => rooms[r] > 0
    BY <1>1 DEF TypeOK, RoomInv
<1> QED
    BY <1>2, RoomQuiet, FinishCall DEF TypeOK

LEMMA RoomReject == ASSUME TypeOK, RoomInv, NEW q \in Req, Reject(q) PROVE RoomInv'
<1>1. ASSUME NEW r \in Res, RejectCheck(q, r) PROVE RoomInv'
    BY <1>1, RoomStart, LoadSeesRoom DEF RejectCheck, Pc, rows
<1>2. CASE RejectCancel(q)
    BY <1>2, RoomGoTo, RoomQuiet, FinishCall
    DEF TypeOK, RoomInv, RejectCancel, TossCancel, PaidGrows, Paid, Pc, rows
<1>3. CASE RejectCancelFails(q) \/ RejectRollback(q)
    BY <1>3, RoomQuiet, FinishCall
    DEF TypeOK, RoomInv, RejectCancelFails, TossCancelFails, RejectRollback,
        PaidGrows, Paid, rows
<1>4. CASE RejectSettle(q)
  <2>1. PaidGrows
      BY <1>4 DEF TypeOK, RejectSettle, PaidGrows, Paid
  <2>2. call[q] # Idle
      BY <1>4 DEF RejectSettle, At, Idle
  <2> QED
      BY <1>4, <2>1, <2>2, RoomSaves DEF RejectSettle
<1> QED
    BY <1>1, <1>2, <1>3, <1>4 DEF Reject

LEMMA RoomOther ==
    ASSUME TypeOK, RoomInv, NEW q \in Req, Create(q) \/ Override(q)
    PROVE  RoomInv'
<1>1. ASSUME NEW r \in Res, CreateCheck(q, r) \/ OverrideLoad(q, r) PROVE RoomInv'
    BY <1>1, RoomStart, LoadSeesRoom DEF CreateCheck, OverrideLoad, Pc, rows
<1>2. CASE CreateInsert(q) \/ CreateFails(q) \/ OverrideFails(q)
    BY <1>2, RoomQuiet, FinishCall
    DEF TypeOK, RoomInv, CreateInsert, CreateFails, OverrideFails, PaidGrows, Paid, rows
<1>3. CASE OverrideSave(q)
  <2>1. call[q] # Idle
      BY <1>3 DEF OverrideSave, At, Idle
  <2> QED
      BY <1>3, <2>1, RoomSaves DEF OverrideSave, PaidGrows, Paid
<1> QED
    BY <1>1, <1>2, <1>3 DEF Create, Override

\* The listener: nobody else is about to create the same room, so the room it
\* creates is the first, and the payment it is for has been recorded.
LEMMA RoomListen ==
    ASSUME TypeOK, RowInv, RoomInv, NEW q \in Req, Listen(q)
    PROVE  RoomInv'
<1>1. CASE ListenerLoad(q)
  <2>1. PICK r \in Res : r = call[q].res
      BY <1>1, BusyType DEF TypeOK, ListenerLoad, Pc
  <2>2. /\ call[q].pc = "announce"
        /\ call'[q].pc = "open" /\ call'[q].res = r /\ call'[q].snap = Load(r)
        /\ \A p \in Req : p # q => call'[p] = call[p]
      BY <1>1, <2>1, GoOnWithCall DEF TypeOK, ListenerLoad, Pc, At
  <2>3. UNCHANGED <<rooms, roomId, payment, job>>
      BY <1>1 DEF ListenerLoad, rows
  <2> QED
      BY <2>1, <2>2, <2>3, LoadSeesRoom DEF TypeOK, RoomInv, Paid, At
<1>2. CASE ListenerThrows(q) \/ RoomFails(q)
    BY <1>2, RoomQuiet, FinishCall
    DEF TypeOK, RoomInv, ListenerThrows, RoomFails, PaidGrows, Paid, rows
<1>3. CASE CreateRoom(q)
  <2>1. PICK r \in Res : r = call[q].res
      BY <1>3, BusyType DEF TypeOK, CreateRoom, Pc
  <2>2. /\ call[q] # Idle /\ call[q].pc = "open"
        /\ call'[q].pc = "attach" /\ call'[q].res = r /\ call'[q].snap = call[q].snap
        /\ \A p \in Req : p # q => call'[p] = call[p]
      BY <1>3, <2>1, GoToCall DEF TypeOK, CreateRoom, Pc, At
  <2>3. rooms[r] = 0 /\ Paid(r)
      BY <2>1, <2>2 DEF RowInv, RoomInv, At
  <2>4. rooms' = [rooms EXCEPT ![r] = 1]
      BY <1>3, <2>1, <2>3 DEF CreateRoom
  <2>5. rooms'[r] = 1 /\ \A o \in Res : o # r => rooms'[o] = rooms[o]
      BY <2>4 DEF TypeOK
  <2>6. \A p \in Req : p # q /\ call[p].pc \in {"announce", "open"} => call[p].res # r
      BY <2>1, <2>2 DEF RoomInv
  <2>7. UNCHANGED <<roomId, payment, job>>
      BY <1>3 DEF CreateRoom, rows
  <2> QED
      BY <2>1, <2>2, <2>3, <2>5, <2>6, <2>7, Aims DEF TypeOK, RoomInv, Paid, At, Idle
<1>4. CASE AttachRoom(q)
  <2>1. \A r \in Res : roomId'[r] => rooms[r] > 0
      BY <1>4 DEF TypeOK, RoomInv, AttachRoom, At
  <2> QED
      BY <1>4, <2>1, RoomQuiet, FinishCall DEF TypeOK, AttachRoom, PaidGrows, Paid
<1> QED
    BY <1>1, <1>2, <1>3, <1>4 DEF Listen

LEMMA RoomCron == ASSUME TypeOK, RoomInv, Cron PROVE RoomInv'
<1>1. ASSUME NEW j \in Jobs, NEW due \in SUBSET Res, Select(j, due) PROVE RoomInv'
  <2>1. \A o \in Jobs : \A i \in job'[o] : i \in job[o] \/ (i.roomId => rooms[i.res] > 0)
      BY <1>1 DEF TypeOK, RoomInv, Select
  <2> QED
      BY <1>1, <2>1, RoomQuiet DEF RoomInv, Select, PaidGrows, Paid, rows
<1>2. CASE ExpireSelect \/ CompleteSelect \/ ProgressSelect
    BY <1>1, <1>2 DEF ExpireSelect, CompleteSelect, ProgressSelect, Jobs,
                      Overdue, Ended, Starting
<1>3. ASSUME NEW i \in JobItem, ExpireOne(i) \/ CompleteOne(i) \/ ProgressOne(i)
      PROVE  RoomInv'
  <2>1. \A j \in Jobs : job'[j] \subseteq job[j]
      BY <1>3 DEF TypeOK, ExpireOne, CompleteOne, ProgressOne
  <2>2. \A r \in Res : roomId'[r] => rooms[r] > 0
      BY <1>3 DEF TypeOK, RoomInv, ExpireOne, CompleteOne, ProgressOne, Jobs
  <2> QED
      BY <1>3, <2>1, <2>2, RoomQuiet DEF ExpireOne, CompleteOne, ProgressOne, PaidGrows, Paid
<1>4. ASSUME NEW j \in Jobs, CronFails(j) PROVE RoomInv'
  <2>1. \A o \in Jobs : \A i \in job'[o] : i \in job[o]
      BY <1>4 DEF TypeOK, CronFails
  <2>2. UNCHANGED <<rooms, roomId, payment, call>>
      BY <1>4 DEF CronFails, rows
  <2>3. \A r \in Res : roomId'[r] => rooms[r] > 0
      BY <2>2 DEF RoomInv
  <2> QED
      BY <2>1, <2>2, <2>3, RoomQuiet DEF PaidGrows, Paid
<1> QED
    BY <1>2, <1>3, <1>4 DEF Cron, ExpireTask, CompleteTask, ProgressTask

LEMMA RoomStep == TypeOK /\ RowInv /\ RoomInv /\ [Next]_vars => RoomInv'
<1> SUFFICES ASSUME TypeOK, RowInv, RoomInv, [Next]_vars PROVE RoomInv'
    OBVIOUS
<1>1. CASE Withdraw
    BY <1>1, RoomQuiet DEF Withdraw, WithdrawCheck, WithdrawCommit,
       WithdrawFails, RoomInv, PaidGrows, Paid, rows
<1>2. CASE Tick
    BY <1>2, RoomQuiet DEF Tick, Lapse, Pass, RoomInv, PaidGrows, Paid, rows
<1>3. CASE Restart
  <2>1. UNCHANGED <<rooms, roomId, payment>>
      BY <1>3 DEF Restart, rows
  <2> QED
      BY <1>3, <2>1, RoomQuiet DEF Restart, RoomInv, PaidGrows, Paid
<1>4. CASE UNCHANGED vars
    BY <1>4, RoomQuiet DEF vars, RoomInv, PaidGrows, Paid
<1> QED
    BY <1>1, <1>2, <1>3, <1>4, RoomConfirm, RoomRefund, RoomReject, RoomOther, RoomListen,
       RoomCron DEF Next

LEMMA RoomAlways == Spec => []RoomInv
<1>1. TypeOK /\ RowInv /\ RoomInv /\ [Next]_vars => (TypeOK /\ RowInv /\ RoomInv)'
    BY TypeStep, RowStep, RoomStep
<1> QED
    BY <1>1, TypeInit, RowInit, RoomInit, PTL DEF Spec

\* However many requests confirm one reservation, at most one listener ever
\* creates a chat room for it.
THEOREM AtMostOneRoom == Spec => []OneRoom
<1>1. RoomInv => OneRoom
    BY DEF RoomInv, OneRoom
<1> QED
    BY <1>1, RoomAlways, PTL

\* A chat room is only ever opened for a payment that was recorded, and no
\* copy of a row writes back a roomId whose room does not exist.
THEOREM RoomsArePaidFor == Spec => []RoomIsPaidFor
<1>1. RoomInv => RoomIsPaidFor
    BY DEF RoomInv, RoomIsPaidFor, Paid
<1> QED
    BY <1>1, RoomAlways, PTL

-----------------------------------------------------------------------------
(* What a reservation's status says of its payment when no administrator   *)
(* overrides statuses: the two theorems assume "override" is not among the *)
(* handlers, since AdminService.updateReservationStatus looks at no        *)
(* payment.                                                                *)

\* The rows themselves, and what is carried to them: the listener's copy, and
\* the rows two of the cron tasks have selected.
OutcomeInv ==
    /\ \A q \in Req : ~At(q, "override")
    /\ \A r \in Res : status[r] \in Held => Paid(r)
    /\ \A r \in Res : status[r] = "cancelled" => payment[r].state = "refunded"
    /\ \A j \in {"complete", "progress"} : \A i \in job[j] : Paid(i.res)
    /\ \A q \in Req : At(q, "open") \/ At(q, "attach") =>
          (call[q].snap.status = "cancelled" => payment[call[q].res].state = "refunded")

LEMMA OutcomeInit == Init => OutcomeInv
<1> QED
    BY DEF Init, OutcomeInv, At, Idle, Held, Jobs

\* Neither a recorded payment nor a refund is forgotten.
BooksGrow ==
    /\ PaidGrows
    /\ \A r \in Res : payment[r].state = "refunded" => payment'[r].state = "refunded"

\* A step whose writes to the rows keep the clauses about rows, and after
\* which no new call carries a copy the listener will save.
LEMMA OutcomeFrame ==
    ASSUME TypeOK, OutcomeInv, BooksGrow,
           \A r \in Res : status'[r] \in Held => Paid(r)',
           \A r \in Res : status'[r] = "cancelled" => payment'[r].state = "refunded",
           \A p \in Req : call'[p] = call[p]
                          \/ call'[p].pc \notin {"open", "attach", "override"},
           \A j \in {"complete", "progress"} : \A i \in job'[j] :
               i \in job[j] \/ (i.res \in Res /\ Paid(i.res))
    PROVE  OutcomeInv'
<1>1. \A j \in {"complete", "progress"} : \A i \in job'[j] : i.res \in Res /\ Paid(i.res)
    BY Aims DEF OutcomeInv, Jobs
<1>2. \A j \in {"complete", "progress"} : \A i \in job'[j] : Paid(i.res)'
    BY <1>1 DEF BooksGrow, PaidGrows, Paid
<1>3. \A q \in Req : call'[q].pc \in {"open", "attach"} =>
          (call'[q].snap.status = "cancelled" => payment'[call'[q].res].state = "refunded")
    BY Aims DEF OutcomeInv, BooksGrow, At, Idle
<1> QED
    BY <1>2, <1>3 DEF OutcomeInv, Paid, At

\* A step that writes neither statuses nor entries, and moves no listener.
LEMMA OutcomeQuiet ==
    ASSUME TypeOK, OutcomeInv, UNCHANGED <<status, payment, job>>,
           \A p \in Req : call'[p] = call[p]
                          \/ call'[p].pc \notin {"open", "attach", "override"}
    PROVE  OutcomeInv'
<1> QED
    BY OutcomeFrame DEF OutcomeInv, BooksGrow, PaidGrows, Paid

\* One call moves, and not to a point where a copy is saved.
LEMMA MovesOn ==
    ASSUME TypeOK, NEW q \in Req,
           \/ Finish(q)
           \/ \E was \in Pc, pc \in Pc \ {"open", "attach", "override"} :
                 At(q, was) /\ GoTo(q, pc)
           \/ \E pc \in Pc \ {"open", "attach", "override"} :
                 \E r, k, s : Start(q, pc, r, k, s)
    PROVE  \A p \in Req : call'[p] = call[p]
                          \/ call'[p].pc \notin {"open", "attach", "override"}
<1>1. CASE Finish(q)
    BY <1>1, FinishCall DEF TypeOK, Idle
<1>2. CASE \E was \in Pc, pc \in Pc \ {"open", "attach", "override"} :
               At(q, was) /\ GoTo(q, pc)
    BY <1>2, GoToCall DEF TypeOK
<1>3. CASE \E pc \in Pc \ {"open", "attach", "override"} :
               \E r, k, s : Start(q, pc, r, k, s)
  <2>1. PICK pc \in Pc \ {"open", "attach", "override"} :
               \E r, k, s : Start(q, pc, r, k, s)
      BY <1>3
  <2>2. PICK r, k, s : Start(q, pc, r, k, s)
      BY <2>1
  <2>3. /\ call'[q] = [pc |-> pc, res |-> r, key |-> k, snap |-> s]
        /\ \A p \in Req : p # q => call'[p] = call[p]
      BY <2>2, StartCall DEF TypeOK
  <2>4. call'[q].pc = pc
      BY <2>3
  <2> QED
      BY <2>3, <2>4
<1> QED
    BY <1>1, <1>2, <1>3

LEMMA OutcomeCreate == ASSUME TypeOK, OutcomeInv, NEW q \in Req, Create(q) PROVE OutcomeInv'
<1>1. ASSUME NEW r \in Res, CreateCheck(q, r) PROVE OutcomeInv'
  <2>1. Start(q, "insert", r, NoKey, NoSnapshot)
      BY <1>1 DEF CreateCheck
  <2> QED
      BY <1>1, <2>1, MovesOn, OutcomeQuiet DEF CreateCheck, Pc, rows
<1>2. CASE CreateInsert(q)
  <2>1. \A r \in Res : status'[r] = status[r] \/ status'[r] = "pending"
      BY <1>2 DEF TypeOK, CreateInsert
  <2>2. UNCHANGED <<payment, job>>
      BY <1>2 DEF CreateInsert
  <2>3. /\ \A r \in Res : status'[r] \in Held => Paid(r)'
        /\ \A r \in Res : status'[r] = "cancelled" => payment'[r].state = "refunded"
      BY <2>1, <2>2 DEF OutcomeInv, Held, Paid
  <2> QED
      BY <1>2, <2>2, <2>3, MovesOn, OutcomeFrame DEF CreateInsert, BooksGrow, PaidGrows, Paid
<1>3. CASE CreateFails(q)
    BY <1>3, MovesOn, OutcomeQuiet DEF CreateFails, rows
<1> QED
    BY <1>1, <1>2, <1>3 DEF Create

LEMMA OutcomeConfirm == ASSUME TypeOK, OutcomeInv, NEW q \in Req, Confirm(q) PROVE OutcomeInv'
<1>1. ASSUME NEW k \in Keys, ConfirmCheck(q, k) \/ ConfirmMispriced(q, k)
      PROVE  OutcomeInv'
  <2>1. \E pc \in {"approve", "log"} : \E r, s : Start(q, pc, r, k, s)
      BY <1>1 DEF ConfirmCheck, ConfirmMispriced
  <2> QED
      BY <1>1, <2>1, MovesOn, OutcomeQuiet DEF ConfirmCheck, ConfirmMispriced, Pc, rows
<1>2. CASE ConfirmApprove(q) \/ ConfirmRefused(q) \/ ConfirmRollback(q)
  <2>1. \E was \in Pc, pc \in {"record", "log"} : At(q, was) /\ GoTo(q, pc)
      BY <1>2 DEF ConfirmApprove, TossApprove, ConfirmRefused, ConfirmRollback, Pc
  <2> QED
      BY <1>2, <2>1, MovesOn, OutcomeQuiet
      DEF ConfirmApprove, ConfirmRefused, ConfirmRollback, Pc, rows
<1>3. CASE ConfirmRecord(q) \/ ConfirmLog(q)
  <2>1. PICK r \in Res : r = call[q].res
      BY <1>3, BusyType DEF TypeOK, ConfirmRecord, ConfirmLog, Pc
  <2>2. BooksGrow
      BY <1>3 DEF TypeOK, ConfirmRecord, Recordable, ConfirmLog, NoPayment, BooksGrow,
                  PaidGrows, Paid
  <2>3. ConfirmRecord(q) => Paid(r)'
      BY <2>1 DEF TypeOK, ConfirmRecord, Paid
  <2>4. \A o \in Res : status'[o] = status[o]
                         \/ (Paid(o)' /\ status'[o] = "confirmed")
      BY <1>3, <2>1, <2>3 DEF TypeOK, ConfirmRecord, ConfirmLog
  <2>5. /\ \A o \in Res : status'[o] \in Held => Paid(o)'
        /\ \A o \in Res : status'[o] = "cancelled" => payment'[o].state = "refunded"
      BY <2>2, <2>4 DEF OutcomeInv, BooksGrow, PaidGrows
  <2>6. \A p \in Req : call'[p] = call[p]
                        \/ call'[p].pc \notin {"open", "attach", "override"}
      BY <1>3, MovesOn DEF ConfirmRecord, ConfirmLog, Pc
  <2>7. UNCHANGED job
      BY <1>3 DEF ConfirmRecord, ConfirmLog
  <2> QED
      BY <2>2, <2>5, <2>6, <2>7, OutcomeFrame
<1>4. CASE ConfirmLogFails(q)
    BY <1>4, MovesOn, OutcomeQuiet DEF ConfirmLogFails, rows
<1> QED
    BY <1>1, <1>2, <1>3, <1>4 DEF Confirm

LEMMA OutcomeRefund == ASSUME TypeOK, OutcomeInv, NEW q \in Req, Refund(q) PROVE OutcomeInv'
<1>1. ASSUME NEW r \in Res, RefundCheck(q, r) PROVE OutcomeInv'
  <2>1. Start(q, "refundCancel", r, payment[r].key, Load(r))
      BY <1>1 DEF RefundCheck
  <2> QED
      BY <1>1, <2>1, MovesOn, OutcomeQuiet DEF RefundCheck, Pc, rows
<1>2. CASE RefundCancel(q)
  <2>1. Finish(q) \/ (At(q, "refundCancel") /\ GoTo(q, "refundSettle"))
      BY <1>2 DEF RefundCancel, TossCancel
  <2> QED
      BY <1>2, <2>1, MovesOn, OutcomeQuiet DEF RefundCancel, Pc, rows
<1>3. CASE RefundCancelFails(q) \/ RefundSettle(q)
    BY <1>3, MovesOn, OutcomeQuiet
    DEF RefundCancelFails, TossCancelFails, RefundSettle, rows
<1> QED
    BY <1>1, <1>2, <1>3 DEF Refund

LEMMA OutcomeReject == ASSUME TypeOK, OutcomeInv, NEW q \in Req, Reject(q) PROVE OutcomeInv'
<1>1. ASSUME NEW r \in Res, RejectCheck(q, r) PROVE OutcomeInv'
  <2>1. Start(q, "rejectCancel", r, payment[r].key, Load(r))
      BY <1>1 DEF RejectCheck
  <2> QED
      BY <1>1, <2>1, MovesOn, OutcomeQuiet DEF RejectCheck, Pc, rows
<1>2. CASE RejectCancel(q)
  <2>1. Finish(q) \/ (At(q, "rejectCancel") /\ GoTo(q, "rejectSettle"))
      BY <1>2 DEF RejectCancel, TossCancel
  <2> QED
      BY <1>2, <2>1, MovesOn, OutcomeQuiet DEF RejectCancel, Pc, rows
<1>3. CASE RejectCancelFails(q) \/ RejectRollback(q)
    BY <1>3, MovesOn, OutcomeQuiet
    DEF RejectCancelFails, TossCancelFails, RejectRollback, rows
<1>4. CASE RejectSettle(q)
  <2>1. PICK r \in Res : r = call[q].res
      BY <1>4, BusyType DEF TypeOK, RejectSettle, Pc
  <2>2. /\ payment'[r].state = "refunded"
        /\ \A o \in Res : o # r => payment'[o] = payment[o]
      BY <1>4, <2>1 DEF TypeOK, PaymentRow, RejectSettle
  <2>3. status'[r] = "cancelled" /\ \A o \in Res : o # r => status'[o] = status[o]
      BY <1>4, <2>1 DEF TypeOK, RejectSettle
  <2>4. BooksGrow
      BY <2>2 DEF BooksGrow, PaidGrows, Paid
  <2>5. /\ \A o \in Res : status'[o] \in Held => Paid(o)'
        /\ \A o \in Res : status'[o] = "cancelled" => payment'[o].state = "refunded"
      BY <2>2, <2>3 DEF OutcomeInv, Paid
  <2> QED
      BY <1>4, <2>4, <2>5, MovesOn, OutcomeFrame DEF RejectSettle
<1> QED
    BY <1>1, <1>2, <1>3, <1>4 DEF Reject

LEMMA OutcomeListen ==
    ASSUME TypeOK, RowInv, OutcomeInv, NEW q \in Req, Listen(q)
    PROVE  OutcomeInv'
<1>1. CASE ListenerLoad(q)
  <2>1. PICK r \in Res : r = call[q].res
      BY <1>1, BusyType DEF TypeOK, ListenerLoad, Pc
  <2>2. /\ call'[q].pc = "open" /\ call'[q].res = r /\ call'[q].snap = Load(r)
        /\ \A p \in Req : p # q => call'[p] = call[p]
      BY <1>1, <2>1, GoOnWithCall DEF TypeOK, ListenerLoad, Pc
  <2>3. Load(r).status = status[r]
      BY DEF Load
  <2>4. UNCHANGED <<status, payment, job>>
      BY <1>1 DEF ListenerLoad, rows
  <2> QED
      BY <2>2, <2>3, <2>4 DEF OutcomeInv, Paid, At
<1>2. CASE ListenerThrows(q) \/ RoomFails(q)
    BY <1>2, MovesOn, OutcomeQuiet DEF ListenerThrows, RoomFails, rows
<1>3. CASE CreateRoom(q)
  <2>1. /\ call[q].pc = "open" /\ call'[q].pc = "attach"
        /\ call'[q].res = call[q].res /\ call'[q].snap = call[q].snap
        /\ \A p \in Req : p # q => call'[p] = call[p]
      BY <1>3, GoToCall DEF TypeOK, CreateRoom, Pc, At
  <2>2. UNCHANGED <<status, payment, job>>
      BY <1>3 DEF CreateRoom, rows
  <2> QED
      BY <2>1, <2>2 DEF OutcomeInv, Paid, At
<1>4. CASE AttachRoom(q)
  <2>1. PICK r \in Res : r = call[q].res
      BY <1>4, BusyType DEF TypeOK, AttachRoom, Pc
  <2>2. /\ Paid(r)
        /\ call[q].snap.status = "cancelled" => payment[r].state = "refunded"
      BY <1>4, <2>1 DEF RowInv, OutcomeInv, AttachRoom
  <2>3. /\ status'[r] = call[q].snap.status
        /\ \A o \in Res : o # r => status'[o] = status[o]
      BY <1>4, <2>1 DEF TypeOK, AttachRoom
  <2>4. UNCHANGED <<payment, job>>
      BY <1>4 DEF AttachRoom
  <2>5. /\ \A o \in Res : status'[o] \in Held => Paid(o)'
        /\ \A o \in Res : status'[o] = "cancelled" => payment'[o].state = "refunded"
      BY <2>2, <2>3, <2>4 DEF OutcomeInv, Paid
  <2> QED
      BY <1>4, <2>4, <2>5, MovesOn, OutcomeFrame
      DEF AttachRoom, BooksGrow, PaidGrows, Paid
<1> QED
    BY <1>1, <1>2, <1>3, <1>4 DEF Listen

LEMMA OutcomeCron == ASSUME TypeOK, OutcomeInv, Cron PROVE OutcomeInv'
<1>1. ASSUME NEW j \in Jobs, NEW due \in SUBSET Res, Select(j, due),
             j # "expire" => \A r \in due : Paid(r)
      PROVE  OutcomeInv'
  <2>1. UNCHANGED <<status, payment, call>>
      BY <1>1 DEF Select, rows
  <2>2. /\ job'[j] = {[res |-> r, roomId |-> roomId[r]] : r \in due}
        /\ \A o \in Jobs : o # j => job'[o] = job[o]
      BY <1>1 DEF TypeOK, Select
  <2>3. \A o \in {"complete", "progress"} : \A i \in job'[o] :
            i \in job[o] \/ (i.res \in Res /\ Paid(i.res))
      BY <1>1, <2>2 DEF Jobs
  <2>4. BooksGrow
      BY <2>1 DEF BooksGrow, PaidGrows, Paid
  <2>5. /\ \A o \in Res : status'[o] \in Held => Paid(o)'
        /\ \A o \in Res : status'[o] = "cancelled" => payment'[o].state = "refunded"
      BY <2>1 DEF OutcomeInv, Paid
  <2> QED
      BY <2>1, <2>3, <2>4, <2>5, OutcomeFrame
<1>2. CASE ExpireSelect
    BY <1>1, <1>2 DEF ExpireSelect, Jobs, Overdue
<1>3. CASE CompleteSelect \/ ProgressSelect
  <2>1. \A r \in Ended \cup Starting : Paid(r)
      BY DEF OutcomeInv, Ended, Starting, Held
  <2> QED
      BY <1>1, <1>3, <2>1 DEF CompleteSelect, ProgressSelect, Jobs, Ended, Starting
<1>4. ASSUME NEW i \in JobItem, ExpireOne(i) \/ CompleteOne(i) \/ ProgressOne(i)
      PROVE  OutcomeInv'
  <2>1. PICK r \in Res : r = i.res
      BY DEF JobItem
  <2>2. UNCHANGED <<payment, call>>
      BY <1>4 DEF ExpireOne, CompleteOne, ProgressOne
  <2>3. \A j \in Jobs : job'[j] \subseteq job[j]
      BY <1>4 DEF TypeOK, ExpireOne, CompleteOne, ProgressOne
  <2>4. /\ status'[r] = "expired" \/ (status'[r] \in Held /\ Paid(r))
        /\ \A o \in Res : o # r => status'[o] = status[o]
      BY <1>4, <2>1 DEF TypeOK, OutcomeInv, ExpireOne, CompleteOne, ProgressOne, Held
  <2>5. /\ \A o \in Res : status'[o] \in Held => Paid(o)'
        /\ \A o \in Res : status'[o] = "cancelled" => payment'[o].state = "refunded"
      BY <2>2, <2>4 DEF OutcomeInv, Held, Paid
  <2> QED
      BY <2>2, <2>3, <2>5, OutcomeFrame DEF BooksGrow, PaidGrows, Paid, Jobs
<1>5. ASSUME NEW j \in Jobs, CronFails(j) PROVE OutcomeInv'
  <2>1. \A o \in Jobs : job'[o] \subseteq job[o]
      BY <1>5 DEF TypeOK, CronFails
  <2>2. UNCHANGED <<status, payment, call>>
      BY <1>5 DEF CronFails, rows
  <2>3. /\ \A o \in Res : status'[o] \in Held => Paid(o)'
        /\ \A o \in Res : status'[o] = "cancelled" => payment'[o].state = "refunded"
      BY <2>2 DEF OutcomeInv, Paid
  <2> QED
      BY <2>1, <2>2, <2>3, OutcomeFrame DEF BooksGrow, PaidGrows, Paid, Jobs
<1> QED
    BY <1>2, <1>3, <1>4, <1>5 DEF Cron, ExpireTask, CompleteTask, ProgressTask

LEMMA OutcomeStep ==
    ASSUME "override" \notin Handlers
    PROVE  TypeOK /\ RowInv /\ OutcomeInv /\ [Next]_vars => OutcomeInv'
<1> SUFFICES ASSUME TypeOK, RowInv, OutcomeInv, [Next]_vars PROVE OutcomeInv'
    OBVIOUS
<1>1. ASSUME NEW q \in Req, Override(q) PROVE OutcomeInv'
    BY <1>1 DEF OutcomeInv, Override, OverrideLoad, OverrideSave, OverrideFails
<1>2. CASE Withdraw
    BY <1>2, OutcomeQuiet DEF Withdraw, WithdrawCheck, WithdrawCommit, WithdrawFails, rows
<1>3. CASE Tick
    BY <1>3, OutcomeQuiet DEF Tick, Lapse, Pass, rows
<1>4. CASE Restart
  <2>1. UNCHANGED <<status, payment>> /\ job' = [j \in Jobs |-> {}]
      BY <1>4 DEF Restart, rows
  <2>2. /\ \A o \in Res : status'[o] \in Held => Paid(o)'
        /\ \A o \in Res : status'[o] = "cancelled" => payment'[o].state = "refunded"
      BY <2>1 DEF OutcomeInv, Paid
  <2>3. \A p \in Req : call'[p].pc = "idle"
      BY <1>4 DEF Restart, Idle
  <2> QED
      BY <2>1, <2>2, <2>3, OutcomeFrame DEF BooksGrow, PaidGrows, Paid, Jobs
<1>5. CASE UNCHANGED vars
    BY <1>5, OutcomeQuiet DEF vars
<1> QED
    BY <1>1, <1>2, <1>3, <1>4, <1>5, OutcomeCreate, OutcomeConfirm, OutcomeRefund,
       OutcomeReject, OutcomeListen, OutcomeCron DEF Next

LEMMA OutcomeAlways ==
    ASSUME "override" \notin Handlers
    PROVE  Spec => []OutcomeInv
<1>1. TypeOK /\ RowInv /\ OutcomeInv /\ [Next]_vars => (TypeOK /\ RowInv /\ OutcomeInv)'
    BY TypeStep, RowStep, OutcomeStep
<1> QED
    BY <1>1, TypeInit, RowInit, OutcomeInit, PTL DEF Spec

\* With no administrator about, a reservation is CONFIRMED, in PROGRESS or
\* COMPLETED only after its payment was recorded, whatever stale copy of the
\* row the listener or a cron task saved.
THEOREM HeldOnlyIfPaid ==
    ASSUME "override" \notin Handlers
    PROVE  Spec => []HeldIsPaid
<1>1. OutcomeInv => HeldIsPaid
    BY DEF OutcomeInv, HeldIsPaid, Paid
<1> QED
    BY <1>1, OutcomeAlways, PTL

\* With no administrator about, a reservation is CANCELLED only after its
\* money was returned, at Toss and in the books.
THEOREM CancelledOnlyIfPaidBack ==
    ASSUME "override" \notin Handlers
    PROVE  Spec => []CancelledIsPaidBack
<1>1. OutcomeInv /\ MoneyInv => CancelledIsPaidBack
    BY DEF OutcomeInv, MoneyInv, CancelledIsPaidBack
<1>2. TypeOK /\ MoneyInv /\ [Next]_vars => (TypeOK /\ MoneyInv)'
    BY TypeStep, MoneyStep
<1>3. Spec => []MoneyInv
    BY <1>2, TypeInit, MoneyInit, PTL DEF Spec
<1> QED
    BY <1>1, <1>3, OutcomeAlways, PTL
=============================================================================
