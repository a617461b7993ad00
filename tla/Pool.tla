-------------------------------- MODULE Pool --------------------------------
(***************************************************************************)
(* The pool of MySQL connections (app.module.ts 64-68), and how long the   *)
(* handlers keep one.  A transaction keeps its connection to its end; three *)
(* handlers call a repository, which takes a connection of its own, while  *)
(* theirs is open.  Nothing gives up waiting: the pool has no timeout.     *)
(***************************************************************************)
EXTENDS Integers, FiniteSets

CONSTANTS
    Connections,   \* connectionLimit of them
    Requests,      \* handlers that may be running at once
    NoOne          \* no request

ASSUME PoolAssumption ==
    IsFiniteSet(Connections) /\ IsFiniteSet(Requests) /\ NoOne \notin Requests

VARIABLES
    lent,       \* connection -> the request that has it
    queued,     \* requests waiting for a connection
    handler,    \* request -> the handler it runs, or "none"
    outside     \* request -> repository calls it may still make meanwhile

poolVars == <<lent, queued, handler, outside>>

\* Calls outside its own transaction that each handler makes inside it:
\* sendFcm reads the user and deletes a dead token.
Outside ==
    [query |-> 0,                    \* any repository call by itself
     confirmPayment |-> 0, createReservation |-> 0, createComment |-> 0,
     apply |-> 0, createReview |-> 0, createSchedule |-> 0, updateSchedule |-> 0,
     deleteAccount |-> 0,
     refundPayment |-> 1, approveMentor |-> 2, updateReservationStatus |-> 2]
Handlers == DOMAIN Outside

PoolInit ==
    /\ lent = [c \in Connections |-> NoOne]
    /\ queued = {}
    /\ handler = [r \in Requests |-> "none"]
    /\ outside = [r \in Requests |-> 0]

HeldBy(r) == {c \in Connections : lent[c] = r}
HoldsOne(r) == \E c \in Connections : HeldBy(r) = {c}

\* A connection that is free, or a place among those who wait.
Obtain(r) ==
    \/ \E c \in HeldBy(NoOne) : lent' = [lent EXCEPT ![c] = r] /\ UNCHANGED queued
    \/ HeldBy(NoOne) = {} /\ queued' = queued \cup {r} /\ UNCHANGED lent

\* It goes to someone who waits, if anyone does.
GiveBack(c) ==
    \/ queued = {} /\ lent' = [lent EXCEPT ![c] = NoOne] /\ UNCHANGED queued
    \/ \E w \in queued : lent' = [lent EXCEPT ![c] = w] /\ queued' = queued \ {w}

StartHandler(r, h) ==
    /\ handler[r] = "none"
    /\ handler' = [handler EXCEPT ![r] = h]
    /\ outside' = [outside EXCEPT ![r] = Outside[h]]
    /\ Obtain(r)

\* Mutant of CallOutside: any transaction may call a repository.
CallAnyway(r) ==
    /\ r \notin queued /\ HoldsOne(r)
    /\ Obtain(r)
    /\ UNCHANGED <<handler, outside>>

CallOutside(r) ==
    /\ r \notin queued /\ HoldsOne(r)
    /\ outside[r] > 0
    /\ outside' = [outside EXCEPT ![r] = @ - 1]
    /\ Obtain(r)
    /\ UNCHANGED handler

\* The repository call is over, its transaction goes on.
CallEnds(r) ==
    /\ r \notin queued
    /\ \E c, d \in HeldBy(r) : c # d /\ GiveBack(c)
    /\ UNCHANGED <<handler, outside>>

\* Committed or rolled back: with or without the calls it could have made.
EndHandler(r) ==
    /\ r \notin queued /\ HoldsOne(r)
    /\ \E c \in HeldBy(r) : GiveBack(c)
    /\ handler' = [handler EXCEPT ![r] = "none"]
    /\ outside' = [outside EXCEPT ![r] = 0]

PoolNext ==
    \E r \in Requests :
        \/ \E h \in Handlers : StartHandler(r, h)
        \/ CallOutside(r) \/ CallEnds(r) \/ EndHandler(r)
-----------------------------------------------------------------------------
Nested ==
    {r \in Requests : handler[r] \in {"refundPayment", "approveMentor",
                                      "updateReservationStatus"}}

(* While fewer of the three nested handlers run than there are connections, *)
(* nobody waits for ever: some connection is with a request that does not   *)
(* wait itself and will give it back.  Five of them at once, each holding   *)
(* its transaction and waiting for a repository's connection, stop the     *)
(* program's every query (payment.service.ts 249-250, admin.service.ts 245, *)
(* schedule.service.ts 359, app.module.ts 65).                             *)
SomeoneReturns ==
    queued # {} /\ Cardinality(Nested) < Cardinality(Connections)
        => \E c \in Connections : lent[c] \in Requests \ queued
=============================================================================
