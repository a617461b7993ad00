--------------------------- MODULE BookingProofs ----------------------------
(***************************************************************************)
(* Theorems about Booking, for every set of reservations, keys, users and  *)
(* requests, and every choice of handlers and faults.                      *)
(***************************************************************************)
EXTENDS Booking, TLAPS

-----------------------------------------------------------------------------
(* Type correctness.  One lemma per component, a step per action.           *)

LEMMA TypeInit == Init => TypeOK
<1> SUFFICES ASSUME Init PROVE TypeOK
    OBVIOUS
<1> QED
    BY DEF Init, TypeOK, Status, LiveStatus, DeadStatus, NoPayment, PaymentRow,
           TossState, Phase, Idle, Call, Pc, NoSnapshot, Snapshot, Jobs, JobItem

\* The calls stay well typed whichever way a handler moves one of them.
LEMMA NoSnapshotType == NoSnapshot \in Snapshot
<1> QED
    BY DEF NoSnapshot, Snapshot, Status

LEMMA LoadType ==
    ASSUME TypeOK, NEW r \in Res
    PROVE  Load(r) \in Snapshot
<1> QED
    BY DEF TypeOK, Load, Snapshot

LEMMA StartType ==
    ASSUME call \in [Req -> Call], NEW q \in Req, NEW pc \in Pc, NEW r \in Res,
           NEW k \in Keys \cup {NoKey}, NEW s \in Snapshot, Start(q, pc, r, k, s)
    PROVE  call' \in [Req -> Call]
<1> QED
    BY DEF Start, Call

LEMMA BusyType ==
    ASSUME call \in [Req -> Call], NEW q \in Req, NEW was \in Pc, At(q, was)
    PROVE  /\ call[q].res \in Res
           /\ call[q].key \in Keys \cup {NoKey}
           /\ call[q].snap \in Snapshot
           /\ call[q] \in [pc : Pc, res : Res, key : Keys \cup {NoKey}, snap : Snapshot]
<1>1. call[q] # Idle
    BY DEF At, Idle, Pc
<1> QED
    BY <1>1 DEF Call

LEMMA GoToType ==
    ASSUME call \in [Req -> Call], NEW q \in Req, NEW was \in Pc, At(q, was),
           NEW pc \in Pc, GoTo(q, pc)
    PROVE  call' \in [Req -> Call]
<1>1. [call[q] EXCEPT !.pc = pc] \in Call
    BY BusyType DEF Call
<1> QED
    BY <1>1 DEF GoTo

LEMMA GoOnWithType ==
    ASSUME call \in [Req -> Call], NEW q \in Req, NEW was \in Pc, At(q, was),
           NEW pc \in Pc, NEW s \in Snapshot, GoOnWith(q, pc, s)
    PROVE  call' \in [Req -> Call]
<1>1. [call[q] EXCEPT !.pc = pc, !.snap = s] \in Call
    BY BusyType DEF Call
<1> QED
    BY <1>1 DEF GoOnWith

LEMMA FinishType ==
    ASSUME call \in [Req -> Call], NEW q \in Req, Finish(q)
    PROVE  call' \in [Req -> Call]
<1> QED
    BY DEF Finish, Call

LEMMA CreateType == ASSUME TypeOK, NEW q \in Req, Create(q) PROVE TypeOK'
<1>1. ASSUME NEW r \in Res, CreateCheck(q, r) PROVE TypeOK'
    BY <1>1, StartType, NoSnapshotType DEF TypeOK, CreateCheck, Pc, rows, clock
<1>2. CASE CreateInsert(q)
    BY <1>2, FinishType DEF TypeOK, CreateInsert, Status, LiveStatus, clock
<1>3. CASE CreateFails(q)
    BY <1>3, FinishType DEF TypeOK, CreateFails, rows, clock
<1> QED
    BY <1>1, <1>2, <1>3 DEF Create

LEMMA ConfirmType == ASSUME TypeOK, NEW q \in Req, Confirm(q) PROVE TypeOK'
<1>1. ASSUME NEW k \in Keys, ConfirmCheck(q, k) PROVE TypeOK'
  <2>1. OrderOf[k] \in Res
      BY ConstantTypes
  <2> QED
      BY <1>1, <2>1, StartType, LoadType DEF TypeOK, ConfirmCheck, Pc, rows, clock
<1>2. ASSUME NEW k \in Keys, ConfirmMispriced(q, k) PROVE TypeOK'
  <2>1. OrderOf[k] \in Res
      BY ConstantTypes
  <2> QED
      BY <1>2, <2>1, StartType, NoSnapshotType DEF TypeOK, ConfirmMispriced, Pc, rows, clock
<1>3. CASE ConfirmApprove(q)
  <2>1. call' \in [Req -> Call]
      BY <1>3, GoToType DEF TypeOK, ConfirmApprove, TossApprove, Pc
  <2> QED
      BY <1>3, <2>1 DEF TypeOK, ConfirmApprove, TossApprove, TossState, rows, clock
<1>4. CASE ConfirmRefused(q)
    BY <1>4, GoToType DEF TypeOK, ConfirmRefused, Pc, rows, clock
<1>5. CASE ConfirmRecord(q)
  <2>1. call' \in [Req -> Call]
      BY <1>5, GoToType DEF TypeOK, ConfirmRecord, Pc
  <2>2. call[q].key \in Keys \cup {NoKey}
      BY <1>5, BusyType DEF TypeOK, ConfirmRecord, Pc
  <2>3. payment' \in [Res -> PaymentRow]
      BY <1>5, <2>2 DEF TypeOK, ConfirmRecord, PaymentRow
  <2> QED
      BY <1>5, <2>1, <2>3 DEF TypeOK, ConfirmRecord, Status, LiveStatus, clock
<1>6. CASE ConfirmRollback(q)
    BY <1>6, GoToType DEF TypeOK, ConfirmRollback, Pc, rows, clock
<1>7. CASE ConfirmLog(q)
  <2>1. call[q].key \in Keys \cup {NoKey}
      BY <1>7, BusyType DEF TypeOK, ConfirmLog, Pc
  <2>2. payment' \in [Res -> PaymentRow]
      BY <1>7, <2>1 DEF TypeOK, ConfirmLog, PaymentRow
  <2> QED
      BY <1>7, <2>2, FinishType DEF TypeOK, ConfirmLog, clock
<1>8. CASE ConfirmLogFails(q)
    BY <1>8, FinishType DEF TypeOK, ConfirmLogFails, rows, clock
<1> QED
    BY <1>1, <1>2, <1>3, <1>4, <1>5, <1>6, <1>7, <1>8 DEF Confirm

\* The cancel call of Toss, as refundPayment and the mentor's rejection make it.
LEMMA TossCancelType ==
    ASSUME TypeOK, NEW q \in Req, NEW was \in Pc, At(q, was), NEW next \in Pc,
           TossCancel(q, next) \/ TossCancelFails(q)
    PROVE  call' \in [Req -> Call] /\ toss' \in [Keys -> TossState]
<1>1. CASE TossCancel(q, next)
  <2>1. call' \in [Req -> Call]
      BY <1>1, GoToType, FinishType DEF TypeOK, TossCancel
  <2> QED
      BY <1>1, <2>1 DEF TypeOK, TossCancel, TossState
<1>2. CASE TossCancelFails(q)
    BY <1>2, FinishType DEF TypeOK, TossCancelFails
<1> QED
    BY <1>1, <1>2

LEMMA RefundType == ASSUME TypeOK, NEW q \in Req, Refund(q) PROVE TypeOK'
<1>1. ASSUME NEW r \in Res, RefundCheck(q, r) PROVE TypeOK'
  <2>1. payment[r].key \in Keys \cup {NoKey}
      BY DEF TypeOK, PaymentRow
  <2> QED
      BY <1>1, <2>1, StartType, LoadType DEF TypeOK, RefundCheck, Pc, rows, clock
<1>2. CASE RefundCancel(q)
    BY <1>2, TossCancelType DEF TypeOK, RefundCancel, Pc, rows, clock
<1>3. CASE RefundCancelFails(q)
    BY <1>3, TossCancelType DEF TypeOK, RefundCancelFails, Pc, rows, clock
<1>4. CASE RefundSettle(q)
    BY <1>4, FinishType DEF TypeOK, RefundSettle, rows, clock
<1> QED
    BY <1>1, <1>2, <1>3, <1>4 DEF Refund

LEMMA RejectType == ASSUME TypeOK, NEW q \in Req, Reject(q) PROVE TypeOK'
<1>1. ASSUME NEW r \in Res, RejectCheck(q, r) PROVE TypeOK'
  <2>1. payment[r].key \in Keys \cup {NoKey}
      BY DEF TypeOK, PaymentRow
  <2> QED
      BY <1>1, <2>1, StartType, LoadType DEF TypeOK, RejectCheck, Pc, rows, clock
<1>2. CASE RejectCancel(q)
    BY <1>2, TossCancelType DEF TypeOK, RejectCancel, Pc, rows, clock
<1>3. CASE RejectCancelFails(q)
    BY <1>3, TossCancelType DEF TypeOK, RejectCancelFails, Pc, rows, clock
<1>4. CASE RejectSettle(q)
  <2>1. payment' \in [Res -> PaymentRow]
      BY <1>4 DEF TypeOK, RejectSettle, PaymentRow
  <2>2. call[q].snap \in Snapshot
      BY <1>4, BusyType DEF TypeOK, RejectSettle, Pc
  <2>3. status' \in [Res -> Status] /\ roomId' \in [Res -> BOOLEAN]
      BY <1>4, <2>2 DEF TypeOK, RejectSettle, Status, DeadStatus, Snapshot
  <2> QED
      BY <1>4, <2>1, <2>3, FinishType DEF TypeOK, RejectSettle, clock
<1>5. CASE RejectRollback(q)
    BY <1>5, FinishType DEF TypeOK, RejectRollback, rows, clock
<1> QED
    BY <1>1, <1>2, <1>3, <1>4, <1>5 DEF Reject

LEMMA ListenType == ASSUME TypeOK, NEW q \in Req, Listen(q) PROVE TypeOK'
<1>1. CASE ListenerLoad(q)
  <2>1. call[q].res \in Res
      BY <1>1, BusyType DEF TypeOK, ListenerLoad, Pc
  <2>2. call' \in [Req -> Call]
      BY <1>1, <2>1, LoadType, GoOnWithType DEF TypeOK, ListenerLoad, Pc
  <2> QED
      BY <1>1, <2>2 DEF TypeOK, ListenerLoad, rows, clock
<1>2. CASE ListenerThrows(q)
    BY <1>2, FinishType DEF TypeOK, ListenerThrows, rows, clock
<1>3. CASE CreateRoom(q)
  <2>1. call' \in [Req -> Call]
      BY <1>3, GoToType DEF TypeOK, CreateRoom, Pc
  <2>2. rooms' \in [Res -> Nat]
      BY <1>3, BusyType DEF TypeOK, CreateRoom, Pc
  <2> QED
      BY <1>3, <2>1, <2>2 DEF TypeOK, CreateRoom, rows, clock
<1>4. CASE AttachRoom(q)
  <2>1. call[q].snap \in Snapshot
      BY <1>4, BusyType DEF TypeOK, AttachRoom, Pc
  <2>2. status' \in [Res -> Status] /\ roomId' \in [Res -> BOOLEAN]
      BY <1>4, <2>1 DEF TypeOK, AttachRoom, Snapshot
  <2> QED
      BY <1>4, <2>2, FinishType DEF TypeOK, AttachRoom, clock
<1>5. CASE RoomFails(q)
    BY <1>5, FinishType DEF TypeOK, RoomFails, rows, clock
<1> QED
    BY <1>1, <1>2, <1>3, <1>4, <1>5 DEF Listen

LEMMA OverrideType == ASSUME TypeOK, NEW q \in Req, Override(q) PROVE TypeOK'
<1>1. ASSUME NEW r \in Res, OverrideLoad(q, r) PROVE TypeOK'
    BY <1>1, StartType, LoadType DEF TypeOK, OverrideLoad, Pc, rows, clock
<1>2. CASE OverrideSave(q)
  <2>1. call[q].snap \in Snapshot
      BY <1>2, BusyType DEF TypeOK, OverrideSave, Pc
  <2>2. status' \in [Res -> Status] /\ roomId' \in [Res -> BOOLEAN]
      BY <1>2, <2>1 DEF TypeOK, OverrideSave, Snapshot, Status, LiveStatus, DeadStatus
  <2> QED
      BY <1>2, <2>2, FinishType DEF TypeOK, OverrideSave, clock
<1>3. CASE OverrideFails(q)
    BY <1>3, FinishType DEF TypeOK, OverrideFails, rows, clock
<1> QED
    BY <1>1, <1>2, <1>3 DEF Override

LEMMA WithdrawType == ASSUME TypeOK, Withdraw PROVE TypeOK'
<1>1. ASSUME NEW u \in Users,
             WithdrawCheck(u) \/ WithdrawCommit(u) \/ WithdrawFails(u)
      PROVE  TypeOK'
    BY <1>1 DEF TypeOK, WithdrawCheck, WithdrawCommit, WithdrawFails, rows, clock
<1> QED
    BY <1>1 DEF Withdraw

LEMMA CronType == ASSUME TypeOK, Cron PROVE TypeOK'
<1>1. ASSUME NEW j \in Jobs, NEW due \in SUBSET Res, Select(j, due) PROVE TypeOK'
  <2>1. {[res |-> r, roomId |-> roomId[r]] : r \in due} \in SUBSET JobItem
      BY DEF TypeOK, JobItem
  <2> QED
      BY <1>1, <2>1 DEF TypeOK, Select, rows, clock
<1>2. CASE ExpireSelect \/ CompleteSelect \/ ProgressSelect
    BY <1>1, <1>2 DEF ExpireSelect, CompleteSelect, ProgressSelect, Jobs,
                      Overdue, Ended, Starting
<1>3. ASSUME NEW i \in JobItem, ExpireOne(i) \/ CompleteOne(i) \/ ProgressOne(i)
      PROVE  TypeOK'
  <2>1. job' \in [Jobs -> SUBSET JobItem]
      BY <1>3 DEF TypeOK, ExpireOne, CompleteOne, ProgressOne, Jobs
  <2>2. status' \in [Res -> Status] /\ roomId' \in [Res -> BOOLEAN]
      BY <1>3 DEF TypeOK, ExpireOne, CompleteOne, ProgressOne, JobItem, Status,
                  LiveStatus, DeadStatus
  <2> QED
      BY <1>3, <2>1, <2>2 DEF TypeOK, ExpireOne, CompleteOne, ProgressOne, clock
<1>4. ASSUME NEW j \in Jobs, CronFails(j) PROVE TypeOK'
    BY <1>4 DEF TypeOK, CronFails, rows, clock
<1> QED
    BY <1>2, <1>3, <1>4 DEF Cron, ExpireTask, CompleteTask, ProgressTask

LEMMA TickType == ASSUME TypeOK, Tick PROVE TypeOK'
<1>1. ASSUME NEW r \in Res, Lapse(r) PROVE TypeOK'
    BY <1>1 DEF TypeOK, Lapse, rows
<1>2. ASSUME NEW r \in Res, Pass(r) PROVE TypeOK'
  <2>1. PhaseAfter[phase[r]] \in Phase
      BY <1>2 DEF TypeOK, Pass, PhaseAfter, Phase
  <2> QED
      BY <1>2, <2>1 DEF TypeOK, Pass, rows
<1> QED
    BY <1>1, <1>2 DEF Tick

LEMMA RestartType == ASSUME TypeOK, Restart PROVE TypeOK'
<1> QED
    BY DEF TypeOK, Restart, Call, rows, clock

\* No step writes a value outside its column or strands a call record.
LEMMA TypeStep == TypeOK /\ [Next]_vars => TypeOK'
<1> SUFFICES ASSUME TypeOK, [Next]_vars PROVE TypeOK'
    OBVIOUS
<1>1. CASE Next
    BY <1>1, CreateType, ConfirmType, RefundType, RejectType, ListenType,
       OverrideType, CronType, WithdrawType, TickType, RestartType DEF Next
<1>2. CASE UNCHANGED vars
    BY <1>2 DEF TypeOK, vars
<1> QED
    BY <1>1, <1>2

\* Every variable always holds values the schema and the handlers allow, for
\* any number of reservations, requests and checkouts.
THEOREM TypeCorrect == Spec => []TypeOK
<1> QED
    BY TypeInit, TypeStep, PTL DEF Spec
=============================================================================
