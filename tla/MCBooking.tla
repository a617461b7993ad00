----------------------------- MODULE MCBooking ------------------------------
(* Instances of Booking for TLC. *)
EXTENDS Booking, TLC

CONSTANTS r1, r2, k1, k2, mentee, mentor, slot1, q1, q2

\* One reservation whose customer opens the checkout twice, or two
\* reservations with one checkout each.
TwoCheckouts == (k1 :> r1) @@ (k2 :> r1)
OneCheckout == (k1 :> r1)
OneEach == (k1 :> r1) @@ (k2 :> r2)

\* The reservations of one mentee with one mentor, all for one slot.
Mentees == [r \in Res |-> mentee]
Mentors == [r \in Res |-> mentor]
Slots == [r \in Res |-> slot1]

\* Requests are interchangeable, and so are the checkouts of one reservation.
Symmetry == Permutations({q1, q2}) \cup Permutations({k1, k2})
=============================================================================
