---------------------------- MODULE SocketRooms -----------------------------
(***************************************************************************)
(* What the two realtime gateways share: sockets that come and go, the     *)
(* Socket.IO rooms the server broadcasts to, and the Maps in which a       *)
(* gateway keeps its own record of who is where.  A Map is a function on   *)
(* the keys it holds.                                                      *)
(***************************************************************************)
EXTENDS FiniteSets, Naturals, Sequences

CONSTANTS
    Users,      \* accounts, as their tokens or payloads name them
    RoomIds,    \* room ids clients ask for
    NoRoom      \* "no room" in what a client displays

ASSUME NoRoomAssumption == NoRoom \notin RoomIds

-----------------------------------------------------------------------------
(* Maps *)

Put(f, x, v) == [y \in DOMAIN f \cup {x} |-> IF y = x THEN v ELSE f[y]]
Without(f, S) == [y \in DOMAIN f \ S |-> f[y]]
IsMap(f, S, T) == DOMAIN f \subseteq S /\ \A x \in DOMAIN f : f[x] \in T

\* rooms.get(r) ?? new Set()
Members(rooms, r) == IF r \in DOMAIN rooms THEN rooms[r] ELSE {}

\* Mutant of RemoveMember: a room left empty is kept.
RemoveOnly(rooms, r, s) == Put(rooms, r, Members(rooms, r) \ {s})

\* "Clean up room membership": a room left empty is deleted.
RemoveMember(rooms, r, s) ==
    IF Members(rooms, r) \ {s} = {}
    THEN Without(rooms, {r})
    ELSE Put(rooms, r, rooms[r] \ {s})

(* A socket is "new" until the client connects and "closed" for good once  *)
(* it has disconnected: a client that reconnects gets a new socket id.     *)
SocketState == {"new", "open", "closed"}

\* socket.io: a closed socket has left every room, and cannot join one.
LeaveAll(sio, s) == [r \in RoomIds |-> sio[r] \ {s}]
Enter(sio, s, r, conn) ==
    IF conn[s] = "open" THEN [sio EXCEPT ![r] = @ \cup {s}] ELSE sio
=============================================================================
