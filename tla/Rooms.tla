------------------------------- MODULE Rooms --------------------------------
(***************************************************************************)
(* ChatListener.handleRoomCreation, started by the event confirmPayment    *)
(* emits after its commit: load the reservation, create a chat room in     *)
(* MongoDB, save the loaded reservation with the room's id.  The listener  *)
(* goes on in the slot of the request whose event started it.              *)
(***************************************************************************)
EXTENDS BookingState

\* The emit calls the listener in the same turn; its first await is the find.
\* Participants are read from the loaded accounts: a missing one throws.
\* Mutant of ListenerLoad: the event carries the entity confirmPayment loaded
\* before the charge, and the listener uses it as it is.
TrustEvent(q) ==
    /\ At(q, "announce")
    /\ GoTo(q, "open")
    /\ UNCHANGED <<rows, rooms, toss, gone, leaving, clock, job>>

ListenerLoad(q) ==
    LET r == call[q].res IN
    /\ At(q, "announce")
    /\ Load(r).missing = {}
    /\ GoOnWith(q, "open", Load(r))
    /\ UNCHANGED <<rows, rooms, toss, gone, leaving, clock, job>>

ListenerThrows(q) ==
    /\ At(q, "announce")
    /\ Load(call[q].res).missing # {} \/ May("database")
    /\ Finish(q)
    /\ UNCHANGED <<rows, rooms, toss, gone, leaving, clock, job>>

\* ChatService.createRoom: roomId is unique, reservationId is not.
CreateRoom(q) ==
    /\ At(q, "open")
    /\ rooms' = [rooms EXCEPT ![call[q].res] = @ + 1]
    /\ GoTo(q, "attach")
    /\ UNCHANGED <<rows, toss, gone, leaving, clock, job>>

\* save(reservation) writes every column that differs from the row, so the
\* status read before the room was created is written back as well.
AttachRoom(q) ==
    LET r == call[q].res IN
    /\ At(q, "attach")
    /\ status' = [status EXCEPT ![r] = call[q].snap.status]
    /\ roomId' = [roomId EXCEPT ![r] = TRUE]
    /\ Finish(q)
    /\ UNCHANGED <<payment, rooms, toss, gone, leaving, clock, job>>

\* Mutant of RoomFails: the listener is retried from the creation of the room.
RetryRoom(q) ==
    /\ At(q, "open") \/ At(q, "attach")
    /\ May("database")
    /\ GoTo(q, "open")
    /\ UNCHANGED <<rows, rooms, toss, gone, leaving, clock, job>>

RoomFails(q) ==
    /\ At(q, "open") \/ At(q, "attach")
    /\ May("database")
    /\ Finish(q)
    /\ UNCHANGED <<rows, rooms, toss, gone, leaving, clock, job>>

Listen(q) ==
    \/ ListenerLoad(q)
    \/ ListenerThrows(q)
    \/ CreateRoom(q)
    \/ AttachRoom(q)
    \/ RoomFails(q)
=============================================================================
