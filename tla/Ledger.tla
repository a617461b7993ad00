------------------------------- MODULE Ledger -------------------------------
(***************************************************************************)
(* What the payment side promises, with no handler, no row and no Toss:    *)
(* for each reservation, where the customer's money is and what the books  *)
(* say of it.  The books may lag behind the money, and may call a payment  *)
(* failed that was not, but they never claim a payment nobody made nor a   *)
(* refund nobody paid, and what they once said they do not unsay.          *)
(***************************************************************************)
CONSTANT Res

VARIABLES money, book

Money == {"unpaid", "held", "returned"}
Entry == {"none", "success", "failed", "refunded"}

Init ==
    /\ money = [r \in Res |-> "unpaid"]
    /\ book = [r \in Res |-> "none"]

Charge(r) ==
    /\ money[r] = "unpaid"
    /\ money' = [money EXCEPT ![r] = "held"]
    /\ UNCHANGED book

PayBack(r) ==
    /\ money[r] = "held"
    /\ money' = [money EXCEPT ![r] = "returned"]
    /\ UNCHANGED book

EnterSuccess(r) ==
    /\ book[r] = "none"
    /\ money[r] # "unpaid"
    /\ book' = [book EXCEPT ![r] = "success"]
    /\ UNCHANGED money

EnterFailure(r) ==
    /\ book[r] = "none"
    /\ book' = [book EXCEPT ![r] = "failed"]
    /\ UNCHANGED money

EnterRefund(r) ==
    /\ book[r] \in {"success", "failed"}
    /\ money[r] = "returned"
    /\ book' = [book EXCEPT ![r] = "refunded"]
    /\ UNCHANGED money

Next == \E r \in Res :
    \/ Charge(r)
    \/ PayBack(r)
    \/ EnterSuccess(r)
    \/ EnterFailure(r)
    \/ EnterRefund(r)

Spec == Init /\ [][Next]_<<money, book>>
=============================================================================
