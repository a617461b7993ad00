------------------------------ MODULE Accounts ------------------------------
(***************************************************************************)
(* Two handlers that touch bookings from outside the booking flow:         *)
(* UsersService.deleteAccount and AdminService.updateReservationStatus.    *)
(***************************************************************************)
EXTENDS BookingState

\* deleteAccount looks for CONFIRMED reservations the user made.  For the
\* first one it reads session.mentor.user.id, a relation it did not load,
\* which throws and rolls everything back; so only a mentee without one gets
\* further.  The search for a mentor's bookings compares the mentor profile's
\* id with the user's id and finds none.
WithdrawCheck(u) ==
    /\ "withdraw" \in Handlers
    /\ u \notin gone \cup leaving
    /\ \A r \in Res : MenteeOf[r] = u => status[r] # "confirmed"
    /\ leaving' = leaving \cup {u}
    /\ UNCHANGED <<rows, rooms, toss, gone, clock, call, job>>

WithdrawCommit(u) ==
    /\ u \in leaving
    /\ gone' = gone \cup {u}
    /\ leaving' = leaving \ {u}
    /\ UNCHANGED <<rows, rooms, toss, clock, call, job>>

WithdrawFails(u) ==
    /\ u \in leaving
    /\ May("database")
    /\ leaving' = leaving \ {u}
    /\ UNCHANGED <<rows, rooms, toss, gone, clock, call, job>>

Withdraw == \E u \in Users : WithdrawCheck(u) \/ WithdrawCommit(u) \/ WithdrawFails(u)

-----------------------------------------------------------------------------
(* The administrator sets a reservation CONFIRMED or CANCELLED, whatever it *)
(* was, and without a look at its payment.                                  *)

OverrideLoad(q, r) ==
    /\ "override" \in Handlers
    /\ Exists(r)
    /\ Start(q, "override", r, NoKey, Load(r))
    /\ UNCHANGED <<rows, rooms, toss, gone, leaving, clock, job>>

\* Mutant of OverrideSave: another column is edited, and the status of the
\* loaded entity goes back with it.
SaveUntouched(q) ==
    LET r == call[q].res IN
    /\ At(q, "override")
    /\ status' = [status EXCEPT ![r] = call[q].snap.status]
    /\ roomId' = [roomId EXCEPT ![r] = call[q].snap.roomId]
    /\ Finish(q)
    /\ UNCHANGED <<payment, rooms, toss, gone, leaving, clock, job>>

OverrideSave(q) ==
    LET r == call[q].res IN
    /\ At(q, "override")
    /\ \E chosen \in {"confirmed", "cancelled"} :
          status' = [status EXCEPT ![r] = chosen]
    /\ roomId' = [roomId EXCEPT ![r] = call[q].snap.roomId]
    /\ Finish(q)
    /\ UNCHANGED <<payment, rooms, toss, gone, leaving, clock, job>>

OverrideFails(q) ==
    /\ At(q, "override")
    /\ May("database")
    /\ Finish(q)
    /\ UNCHANGED <<rows, rooms, toss, gone, leaving, clock, job>>

Override(q) ==
    \/ \E r \in Res : OverrideLoad(q, r)
    \/ OverrideSave(q)
    \/ OverrideFails(q)
=============================================================================
