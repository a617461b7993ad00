---------------------------- MODULE BookingLedger ----------------------------
(***************************************************************************)
(* Booking implements Ledger: under the mapping of Booking's instance L,   *)
(* every step of the handlers is a step of the ledger or a stutter.        *)
(***************************************************************************)
EXTENDS BookingSafety

-----------------------------------------------------------------------------
(* ChargeInv                                                                *)

LEMMA ChargeInit == Init => ChargeInv
<1> QED
    BY DEF Init, ChargeInv

\* A step either leaves Toss alone, or approves a payment of an order none of
\* whose payments was, or pays an approved one back.
TossMoves ==
    \/ UNCHANGED toss
    \/ \E k \in Keys : /\ \A o \in Keys : OrderOf[o] = OrderOf[k] => toss[o] = "ready"
                       /\ toss' = [toss EXCEPT ![k] = "done"]
    \/ \E k \in Keys : toss[k] = "done" /\ toss' = [toss EXCEPT ![k] = "canceled"]

\* A step either leaves the books alone, or makes the entry of a handler that
\* has been to Toss, or turns an entry into a refund Toss has paid.
BooksMove ==
    \/ UNCHANGED payment
    \/ \E r \in Res : \E row \in PaymentRow :
          /\ payment[r].state = "none"
          /\ row.state = "failed" \/ (/\ row.state = "success"
                                      /\ row.key \in Keys
                                      /\ OrderOf[row.key] = r
                                      /\ toss[row.key] # "ready")
          /\ payment' = [payment EXCEPT ![r] = row]
    \/ \E r \in Res :
          /\ payment[r].state # "none"
          /\ \E k \in Keys : OrderOf[k] = r /\ toss[k] = "canceled"
          /\ payment' = [payment EXCEPT ![r].state = "refunded"]

LEMMA ChargeStep == TypeOK /\ ChargeInv /\ TossMoves => ChargeInv'
<1> QED
    BY DEF TypeOK, ChargeInv, TossMoves

-----------------------------------------------------------------------------
(* Every step of Next does one of these, and never both to Toss and the books *)

Moves == TossMoves /\ BooksMove /\ (UNCHANGED toss \/ UNCHANGED payment)

LEMMA ConfirmMoves == ASSUME TypeOK, MoneyInv, NEW q \in Req, Confirm(q) PROVE Moves
<1>1. ASSUME NEW k \in Keys, ConfirmCheck(q, k) \/ ConfirmMispriced(q, k) PROVE Moves
    BY <1>1 DEF ConfirmCheck, ConfirmMispriced, Moves, TossMoves, BooksMove, rows
<1>2. CASE ConfirmApprove(q)
  <2>1. call[q].key \in Keys
      BY <1>2 DEF MoneyInv, ConfirmApprove, At
  <2> QED
      BY <1>2, <2>1 DEF ConfirmApprove, TossApprove, Approvable, Moves, TossMoves,
                        BooksMove, rows
<1>3. CASE ConfirmRefused(q) \/ ConfirmRollback(q) \/ ConfirmLogFails(q)
    BY <1>3 DEF ConfirmRefused, ConfirmRollback, ConfirmLogFails, Moves, TossMoves,
                BooksMove, rows
<1>4. CASE ConfirmRecord(q) \/ ConfirmLog(q)
  <2>1. PICK r \in Res : r = call[q].res
      BY <1>4, BusyType DEF TypeOK, ConfirmRecord, ConfirmLog, Pc
  <2>2. call[q].key \in Keys /\ OrderOf[call[q].key] = r
      BY <1>4, <2>1 DEF MoneyInv, ConfirmRecord, ConfirmLog, At
  <2>3. ASSUME NEW state \in {"success", "failed"}
        PROVE  [state |-> state, key |-> call[q].key] \in PaymentRow
      BY <2>2 DEF PaymentRow
  <2>4. UNCHANGED toss
      BY <1>4 DEF ConfirmRecord, ConfirmLog
  <2>5. CASE ConfirmRecord(q)
    <3>1. toss[call[q].key] # "ready"
        BY <2>5 DEF MoneyInv, ConfirmRecord
    <3>2. PICK row \in PaymentRow : row = [state |-> "success", key |-> call[q].key]
        BY <2>3
    <3>3. /\ payment[r].state = "none"
          /\ payment' = [payment EXCEPT ![r] = row]
        BY <2>1, <2>5, <3>2 DEF ConfirmRecord, Recordable, NoPayment
    <3>4. /\ row.state = "success" /\ row.key \in Keys
          /\ OrderOf[row.key] = r /\ toss[row.key] # "ready"
        BY <2>2, <3>1, <3>2
    <3> QED
        BY <2>4, <3>3, <3>4 DEF Moves, TossMoves, BooksMove
  <2>6. CASE ConfirmLog(q)
      BY <2>1, <2>2, <2>3, <2>4, <2>6 DEF ConfirmLog, NoPayment, Moves, TossMoves, BooksMove
  <2> QED
      BY <1>4, <2>5, <2>6
<1> QED
    BY <1>1, <1>2, <1>3, <1>4 DEF Confirm

LEMMA RefundMoves == ASSUME TypeOK, MoneyInv, NEW q \in Req, Refund(q) PROVE Moves
<1>1. CASE RefundCancel(q)
  <2>1. call[q].key \in Keys
      BY <1>1, MoneyKeys DEF RefundCancel, At
  <2> QED
      BY <1>1, <2>1 DEF RefundCancel, TossCancel, Cancelable, Moves, TossMoves,
                        BooksMove, rows
<1> QED
    BY <1>1 DEF Refund, RefundCheck, RefundCancelFails, TossCancelFails, RefundSettle,
                Moves, TossMoves, BooksMove, rows

LEMMA RejectMoves == ASSUME TypeOK, MoneyInv, NEW q \in Req, Reject(q) PROVE Moves
<1>1. CASE RejectCancel(q)
  <2>1. call[q].key \in Keys
      BY <1>1, MoneyKeys DEF RejectCancel, At
  <2> QED
      BY <1>1, <2>1 DEF RejectCancel, TossCancel, Cancelable, Moves, TossMoves,
                        BooksMove, rows
<1>2. CASE RejectSettle(q)
  <2>1. PICK r \in Res : r = call[q].res
      BY <1>2, BusyType DEF TypeOK, RejectSettle, Pc
  <2>2. /\ payment[r].state # "none"
        /\ call[q].key \in Keys /\ OrderOf[call[q].key] = r
        /\ toss[call[q].key] = "canceled"
      BY <1>2, <2>1 DEF MoneyInv, RejectSettle, At
  <2> QED
      BY <1>2, <2>1, <2>2 DEF RejectSettle, Moves, TossMoves, BooksMove
<1> QED
    BY <1>1, <1>2 DEF Reject, RejectCheck, RejectCancelFails, TossCancelFails,
                      RejectRollback, Moves, TossMoves, BooksMove, rows

LEMMA NextMoves == TypeOK /\ MoneyInv /\ [Next]_vars => Moves
<1> SUFFICES ASSUME TypeOK, MoneyInv, [Next]_vars PROVE Moves
    OBVIOUS
<1> USE DEF Moves, TossMoves, BooksMove, rows
<1>1. ASSUME NEW q \in Req, Create(q) \/ Listen(q) \/ Override(q) PROVE Moves
    BY <1>1 DEF Create, CreateCheck, CreateInsert, CreateFails, Listen, ListenerLoad,
       ListenerThrows, CreateRoom, AttachRoom, RoomFails, Override, OverrideLoad,
       OverrideSave, OverrideFails
<1>2. CASE Cron
    BY <1>2 DEF Cron, ExpireTask, CompleteTask, ProgressTask, ExpireSelect,
       CompleteSelect, ProgressSelect, Select, ExpireOne, CompleteOne, ProgressOne,
       CronFails
<1>3. CASE Withdraw \/ Tick \/ Restart
    BY <1>3 DEF Withdraw, WithdrawCheck, WithdrawCommit, WithdrawFails, Tick, Lapse,
       Pass, Restart
<1>4. CASE UNCHANGED vars
    BY <1>4 DEF vars
<1> QED
    BY <1>1, <1>2, <1>3, <1>4, ConfirmMoves, RefundMoves, RejectMoves DEF Next

-----------------------------------------------------------------------------
(* The mapping                                                              *)

Money == [r \in Res |-> MoneyOf(r)]
Book == [r \in Res |-> payment[r].state]

\* Toss's moves, as the ledger sees them.
LEMMA MoneyMoves ==
    ASSUME TypeOK, ChargeInv, TossMoves
    PROVE  \/ UNCHANGED Money
           \/ \E r \in Res : Money[r] = "unpaid" /\ Money' = [Money EXCEPT ![r] = "held"]
           \/ \E r \in Res : Money[r] = "held" /\ Money' = [Money EXCEPT ![r] = "returned"]
<1>1. CASE UNCHANGED toss
    BY <1>1 DEF Money, MoneyOf
<1>2. ASSUME NEW k \in Keys,
             \A o \in Keys : OrderOf[o] = OrderOf[k] => toss[o] = "ready",
             toss' = [toss EXCEPT ![k] = "done"]
      PROVE  \E r \in Res : Money[r] = "unpaid" /\ Money' = [Money EXCEPT ![r] = "held"]
  <2>1. PICK r \in Res : r = OrderOf[k]
      BY ConstantTypes
  <2>2. Money[r] = "unpaid"
      BY <1>2, <2>1 DEF Money, MoneyOf
  <2>3. toss'[k] = "done" /\ \A o \in Keys : o # k => toss'[o] = toss[o]
      BY <1>2 DEF TypeOK
  <2>4. MoneyOf(r)' = "held"
      BY <1>2, <2>1, <2>3 DEF MoneyOf
  <2>5. \A s \in Res : s # r => MoneyOf(s)' = MoneyOf(s)
      BY <2>1, <2>3 DEF MoneyOf
  <2>6. Money' = [Money EXCEPT ![r] = "held"]
      BY <2>4, <2>5 DEF Money
  <2> QED
      BY <2>2, <2>6
<1>3. ASSUME NEW k \in Keys, toss[k] = "done", toss' = [toss EXCEPT ![k] = "canceled"]
      PROVE  \E r \in Res : Money[r] = "held" /\ Money' = [Money EXCEPT ![r] = "returned"]
  <2>1. PICK r \in Res : r = OrderOf[k]
      BY ConstantTypes
  <2>2. Money[r] = "held"
      BY <1>3, <2>1 DEF ChargeInv, Money, MoneyOf
  <2>3. toss'[k] = "canceled" /\ \A o \in Keys : o # k => toss'[o] = toss[o]
      BY <1>3 DEF TypeOK
  <2>4. MoneyOf(r)' = "returned"
      BY <2>1, <2>3 DEF MoneyOf
  <2>5. \A s \in Res : s # r => MoneyOf(s)' = MoneyOf(s)
      BY <2>1, <2>3 DEF MoneyOf
  <2>6. Money' = [Money EXCEPT ![r] = "returned"]
      BY <2>4, <2>5 DEF Money
  <2> QED
      BY <2>2, <2>6
<1> QED
    BY <1>1, <1>2, <1>3 DEF TossMoves

\* The books' moves, as the ledger sees them.
LEMMA BookMoves ==
    ASSUME TypeOK, MoneyInv, BooksMove
    PROVE  \/ UNCHANGED Book
           \/ \E r \in Res : /\ Book[r] = "none" /\ Money[r] # "unpaid"
                             /\ Book' = [Book EXCEPT ![r] = "success"]
           \/ \E r \in Res : Book[r] = "none" /\ Book' = [Book EXCEPT ![r] = "failed"]
           \/ \E r \in Res : /\ Book[r] \in {"success", "failed"} /\ Money[r] = "returned"
                             /\ Book' = [Book EXCEPT ![r] = "refunded"]
<1>1. CASE UNCHANGED payment
    BY <1>1 DEF Book
<1>2. ASSUME NEW r \in Res, NEW row \in PaymentRow, payment[r].state = "none",
             row.state = "failed" \/ (/\ row.state = "success"
                                      /\ row.key \in Keys
                                      /\ OrderOf[row.key] = r
                                      /\ toss[row.key] # "ready"),
             payment' = [payment EXCEPT ![r] = row]
      PROVE  \/ /\ Book[r] = "none" /\ Money[r] # "unpaid"
                /\ Book' = [Book EXCEPT ![r] = "success"]
             \/ Book[r] = "none" /\ Book' = [Book EXCEPT ![r] = "failed"]
  <2>1. Book[r] = "none" /\ Book' = [Book EXCEPT ![r] = row.state]
      BY <1>2 DEF TypeOK, Book
  <2>2. row.state = "success" => Money[r] # "unpaid"
      BY <1>2 DEF TypeOK, TossState, Money, MoneyOf
  <2> QED
      BY <1>2, <2>1, <2>2
<1>3. ASSUME NEW r \in Res, payment[r].state # "none",
             \E k \in Keys : OrderOf[k] = r /\ toss[k] = "canceled",
             payment' = [payment EXCEPT ![r].state = "refunded"]
      PROVE  \/ UNCHANGED Book
             \/ /\ Book[r] \in {"success", "failed"} /\ Money[r] = "returned"
                /\ Book' = [Book EXCEPT ![r] = "refunded"]
  <2>1. Money[r] = "returned"
      BY <1>3 DEF Money, MoneyOf
  <2>2. payment[r] \in PaymentRow
      BY DEF TypeOK
  <2>3. /\ payment'[r].state = "refunded"
        /\ \A o \in Res : o # r => payment'[o] = payment[o]
      BY <1>3, <2>2 DEF TypeOK, PaymentRow
  <2>4. Book' = [Book EXCEPT ![r] = "refunded"]
      BY <2>3 DEF Book
  <2>5. Book[r] \in {"success", "failed", "refunded"}
      BY <1>3, <2>2 DEF Book, PaymentRow
  <2>6. Book[r] = "refunded" => Book' = Book
      BY <2>4 DEF Book
  <2> QED
      BY <2>1, <2>4, <2>5, <2>6
<1> QED
    BY <1>1, <1>2, <1>3 DEF BooksMove

LEMMA LedgerInit == Init => L!Init
<1> QED
    BY DEF Init, L!Init, MoneyOf, NoPayment

LEMMA LedgerStep ==
    TypeOK /\ MoneyInv /\ ChargeInv /\ [Next]_vars => [L!Next]_<<Money, Book>>
<1> SUFFICES ASSUME TypeOK, MoneyInv, ChargeInv, [Next]_vars
             PROVE  [L!Next]_<<Money, Book>>
    OBVIOUS
<1>1. Moves
    BY NextMoves
<1>2. UNCHANGED toss => UNCHANGED Money
    BY DEF Money, MoneyOf
<1>3. UNCHANGED payment => UNCHANGED Book
    BY DEF Book
<1>4. CASE UNCHANGED payment
    BY <1>1, <1>3, <1>4, MoneyMoves DEF Moves, L!Next, L!Charge, L!PayBack, Money, Book
<1>5. CASE UNCHANGED toss
    BY <1>1, <1>2, <1>5, BookMoves
    DEF Moves, L!Next, L!EnterSuccess, L!EnterFailure, L!EnterRefund, Money, Book
<1> QED
    BY <1>1, <1>4, <1>5 DEF Moves

\* Whatever the handlers do, the books follow the money as the ledger allows:
\* no charge after a charge, no entry of a payment nobody made or of a refund
\* nobody paid, and no entry taken back.
THEOREM LedgerImplemented == Spec => ImplementsLedger
<1>1. Init => TypeOK /\ MoneyInv /\ ChargeInv
    BY TypeInit, MoneyInit, ChargeInit
<1>2. TypeOK /\ MoneyInv /\ ChargeInv /\ [Next]_vars => (TypeOK /\ MoneyInv /\ ChargeInv)'
    BY TypeStep, MoneyStep, NextMoves, ChargeStep DEF Moves
<1> QED
    BY <1>1, <1>2, LedgerInit, LedgerStep, PTL
    DEF Spec, ImplementsLedger, L!Spec, Money, Book

-----------------------------------------------------------------------------
(* ChargeLeavesRow, where the process and the database stay up              *)

\* Who is between a charge and its row.
Recording(q, r) == call[q].res = r /\ call[q].pc \in {"record", "log"}

\* A reservation keeps its row, and a request recording its charge goes on
\* doing so until there is one.
LEMMA RowKept ==
    ASSUME TypeOK, BooksMove, NEW r \in Res, payment[r] # NoPayment
    PROVE  payment'[r] # NoPayment
<1> QED
    BY DEF TypeOK, PaymentRow, NoPayment, BooksMove

LEMMA RecordingGoesOn ==
    ASSUME TypeOK, Next, Faults \cap {"crash", "database"} = {},
           NEW q \in Req, NEW r \in Res, Recording(q, r)
    PROVE  Recording(q, r)' \/ payment'[r] # NoPayment
<1>1. call[q].pc \in {"record", "log"} /\ call[q] # Idle
    BY DEF Recording, Idle
<1>2. ASSUME NEW p \in Req,
             Create(p) \/ Refund(p) \/ Reject(p) \/ Listen(p) \/ Override(p)
      PROVE  call'[q] = call[q]
  <2>1. p # q \/ call'[q] = call[q]
      BY <1>1, <1>2 DEF Create, CreateCheck, CreateInsert, CreateFails, Refund, RefundCheck,
         RefundCancel, RefundCancelFails, RefundSettle, Reject, RejectCheck, RejectCancel,
         RejectCancelFails, RejectSettle, RejectRollback, Listen, ListenerLoad,
         ListenerThrows, CreateRoom, AttachRoom, RoomFails, Override, OverrideLoad,
         OverrideSave, OverrideFails, Start, At
  <2>2. \A pc : p # q /\ GoTo(p, pc) => call'[q] = call[q]
      BY DEF TypeOK, GoTo
  <2>3. \A pc, s : p # q /\ GoOnWith(p, pc, s) => call'[q] = call[q]
      BY DEF TypeOK, GoOnWith
  <2>4. \A pc, o, k, s : p # q /\ Start(p, pc, o, k, s) => call'[q] = call[q]
      BY DEF TypeOK, Start
  <2>5. p # q /\ Finish(p) => call'[q] = call[q]
      BY DEF TypeOK, Finish
  <2> QED
      BY <1>2, <2>1, <2>2, <2>3, <2>4, <2>5 DEF Create, CreateCheck, CreateInsert,
         CreateFails, Refund, RefundCheck, RefundCancel, RefundCancelFails, RefundSettle,
         TossCancel, TossCancelFails, Reject, RejectCheck, RejectCancel,
         RejectCancelFails, RejectSettle, RejectRollback, Listen, ListenerLoad,
         ListenerThrows, CreateRoom, AttachRoom, RoomFails, Override, OverrideLoad,
         OverrideSave, OverrideFails
<1>3. ASSUME NEW p \in Req, Confirm(p)
      PROVE  Recording(q, r)' \/ payment'[r] # NoPayment
  <2>1. CASE p # q
    <3>1. call'[q] = call[q]
        BY <1>3, <2>1 DEF TypeOK, Confirm, ConfirmCheck, ConfirmMispriced, ConfirmApprove,
           TossApprove, ConfirmRefused, ConfirmRecord, ConfirmRollback, ConfirmLog,
           ConfirmLogFails, Start, GoTo, Finish
    <3> QED
        BY <3>1 DEF Recording
  <2>2. CASE p = q /\ ConfirmRollback(q)
      BY <2>2, GoToCall DEF TypeOK, ConfirmRollback, Recording, Pc
  <2>3. CASE p = q /\ (ConfirmRecord(q) \/ ConfirmLog(q))
      BY <2>3 DEF TypeOK, ConfirmRecord, ConfirmLog, NoPayment, Recording
  <2> QED
      BY <1>1, <1>3, <2>1, <2>2, <2>3 DEF Confirm, ConfirmCheck, ConfirmMispriced,
         ConfirmApprove, ConfirmRefused, ConfirmLogFails, May, Start, At
<1>4. CASE Cron \/ Withdraw \/ Tick
  <2>1. UNCHANGED call
      BY <1>4 DEF Cron, ExpireTask, CompleteTask, ProgressTask, ExpireSelect,
         CompleteSelect, ProgressSelect, Select, ExpireOne, CompleteOne, ProgressOne,
         CronFails, Withdraw, WithdrawCheck, WithdrawCommit, WithdrawFails, Tick, Lapse, Pass
  <2> QED
      BY <2>1 DEF Recording
<1>5. ~Restart
    BY DEF Restart, May
<1> QED
    BY <1>2, <1>3, <1>4, <1>5 DEF Next, Recording

\* The only step that charges puts its request between the charge and the row.
LEMMA ChargeIsRecording ==
    ASSUME TypeOK, MoneyInv, Next, NEW k \in Keys, toss[k] = "ready", toss'[k] # "ready"
    PROVE  \E q \in Req : Recording(q, OrderOf[k])'
<1>1. ASSUME NEW q \in Req, Confirm(q) PROVE Recording(q, OrderOf[k])'
  <2>1. ConfirmApprove(q) /\ call[q].key = k
      BY <1>1 DEF TypeOK, Confirm, ConfirmCheck, ConfirmMispriced, ConfirmApprove,
         TossApprove, ConfirmRefused, ConfirmRecord, ConfirmRollback, ConfirmLog,
         ConfirmLogFails
  <2>2. OrderOf[k] = call[q].res
      BY <2>1 DEF MoneyInv, ConfirmApprove, At
  <2> QED
      BY <2>1, <2>2, GoToCall DEF TypeOK, ConfirmApprove, TossApprove, Recording, Pc
<1>2. ASSUME NEW q \in Req, RefundCancel(q) \/ RejectCancel(q) PROVE FALSE
    BY <1>2 DEF TypeOK, RefundCancel, RejectCancel, TossCancel, Cancelable
<1>3. ASSUME NEW q \in Req, Create(q) \/ Refund(q) \/ Reject(q) \/ Listen(q) \/ Override(q)
      PROVE  FALSE
    BY <1>2, <1>3 DEF Create, CreateCheck, CreateInsert, CreateFails, Refund, RefundCheck,
       RefundCancelFails, TossCancelFails, RefundSettle, Reject, RejectCheck,
       RejectCancelFails, RejectSettle, RejectRollback, Listen, ListenerLoad,
       ListenerThrows, CreateRoom, AttachRoom, RoomFails, Override, OverrideLoad,
       OverrideSave, OverrideFails
<1>4. CASE Cron \/ Withdraw \/ Tick \/ Restart
    BY <1>4 DEF Cron, ExpireTask, CompleteTask, ProgressTask, ExpireSelect,
       CompleteSelect, ProgressSelect, Select, ExpireOne, CompleteOne, ProgressOne,
       CronFails, Withdraw, WithdrawCheck, WithdrawCommit, WithdrawFails, Tick, Lapse,
       Pass, Restart
<1> QED
    BY <1>1, <1>3, <1>4 DEF Next

\* While the process and the database stay up, a charged order always has a
\* payment row or a request about to write one, whatever answers are lost and
\* whichever check refuses the transaction.
THEOREM ChargeTraced ==
    ASSUME Faults \cap {"crash", "database"} = {}
    PROVE  Spec => []ChargeLeavesRow
<1>1. Init => TypeOK /\ MoneyInv /\ ChargeLeavesRow
    BY TypeInit, MoneyInit DEF Init, ChargeLeavesRow
<1>2. TypeOK /\ MoneyInv /\ ChargeLeavesRow /\ [Next]_vars => ChargeLeavesRow'
  <2> SUFFICES ASSUME TypeOK, MoneyInv, ChargeLeavesRow, Next, NEW k \in Keys,
                      toss'[k] # "ready"
               PROVE  \/ payment'[OrderOf[k]] # NoPayment
                      \/ \E q \in Req : Recording(q, OrderOf[k])'
      BY DEF ChargeLeavesRow, Recording, vars
  <2>1. OrderOf[k] \in Res /\ BooksMove
      BY ConstantTypes, NextMoves DEF Moves
  <2>2. CASE toss[k] = "ready"
      BY <2>2, ChargeIsRecording
  <2>3. CASE toss[k] # "ready"
      BY <2>1, <2>3, RowKept, RecordingGoesOn DEF ChargeLeavesRow, Recording
  <2> QED
      BY <2>2, <2>3
<1>3. TypeOK /\ MoneyInv /\ [Next]_vars => (TypeOK /\ MoneyInv)'
    BY TypeStep, MoneyStep
<1> QED
    BY <1>1, <1>2, <1>3, PTL DEF Spec
=============================================================================
