--------------------------- MODULE WebRTCGateway ----------------------------
(***************************************************************************)
(* The /webrtc namespace (realtime/webrtc/webrtc.gateway.ts): who is in    *)
(* which call, whose stream is ready, and what each client has been told,  *)
(* the relayed events included: signals, screens shared, tracks switched   *)
(* off.  No handler awaits, so each is one step.                           *)
(***************************************************************************)
EXTENDS SocketRooms

CONSTANTS
    CallSockets,    \* sockets of /webrtc
    CallOwner       \* the userId each socket's client sends

ASSUME CallAssumption == CallOwner \in [CallSockets -> Users]

VARIABLES
    callConn,   \* state of each socket
    peers,      \* Map socketId -> WebRTCUser: room and isStreamReady
    calls,      \* Map roomId -> Set of socketIds
    callSio,    \* the sockets in each Socket.IO room
    tile,       \* what each client displays: users present, streams ready
    media       \* what it holds of them: signals, shared screens, muted tracks

callVars == <<callConn, peers, calls, callSio, tile, media>>

NoTile == [present |-> {}, ready |-> {}]
NoMedia == [signal |-> {}, screen |-> {}, muted |-> {}]

CallInit ==
    /\ callConn = [s \in CallSockets |-> "new"]
    /\ peers = <<>>
    /\ calls = <<>>
    /\ callSio = [r \in RoomIds |-> {}]
    /\ tile = [s \in CallSockets |-> NoTile]
    /\ media = [s \in CallSockets |-> NoMedia]

InCall(s, r) == s \in DOMAIN peers /\ peers[s].room = r

\* user_left, to everyone in the room but the one who left.
TellLeft(r, s) ==
    [t \in CallSockets |->
        IF t \in callSio[r] \ {s}
        THEN [present |-> tile[t].present \ {CallOwner[s]},
              ready |-> tile[t].ready \ {CallOwner[s]}]
        ELSE tile[t]]

\* With it go the connection and what was shown over it.
DropMedia(r, s) ==
    [t \in CallSockets |->
        IF t \in callSio[r] \ {s}
        THEN [signal |-> media[t].signal \ {CallOwner[s]},
              screen |-> media[t].screen \ {CallOwner[s]},
              muted |-> media[t].muted \ {CallOwner[s]}]
        ELSE media[t]]

-----------------------------------------------------------------------------

CallConnect(s) ==
    /\ callConn[s] = "new"
    /\ callConn' = [callConn EXCEPT ![s] = "open"]
    /\ UNCHANGED <<peers, calls, callSio, tile, media>>

Hangup(s) ==
    /\ peers' = Without(peers, {s})
    /\ calls' = RemoveMember(calls, peers[s].room, s)
    /\ tile' = [TellLeft(peers[s].room, s) EXCEPT ![s] = NoTile]
    /\ media' = [DropMedia(peers[s].room, s) EXCEPT ![s] = NoMedia]

CallDisconnect(s) ==
    /\ callConn[s] = "open"
    /\ callConn' = [callConn EXCEPT ![s] = "closed"]
    /\ callSio' = LeaveAll(callSio, s)
    /\ IF s \in DOMAIN peers
       THEN Hangup(s)
       ELSE /\ tile' = [tile EXCEPT ![s] = NoTile]
            /\ media' = [media EXCEPT ![s] = NoMedia]
            /\ UNCHANGED <<peers, calls>>

HandleUserLeft(s, r) ==
    /\ callConn[s] = "open"
    /\ InCall(s, r)
    /\ Hangup(s)
    /\ callSio' = [callSio EXCEPT ![r] = @ \ {s}]
    /\ UNCHANGED callConn

\* Mutant of HandleUserJoined: isStreamReady survives joining again.
JoinedStillReady(s, r) ==
    /\ callConn[s] = "open"
    /\ peers' = Put(peers, s, [room |-> r,
                                ready |-> s \in DOMAIN peers /\ peers[s].ready])
    /\ calls' = Put(calls, r, Members(calls, r) \cup {s})
    /\ callSio' = Enter(callSio, s, r, callConn)
    /\ LET here == {t \in DOMAIN peers' : peers'[t].room = r}
           streaming == {t \in here : peers'[t].ready}
       IN tile' =
            [t \in CallSockets |->
                CASE t = s ->
                        [present |-> {CallOwner[x] : x \in here},
                         ready |-> {CallOwner[x] : x \in streaming}]
                  [] t \in callSio[r] \ {s} ->
                        [present |-> tile[t].present \cup {CallOwner[s]},
                         ready |-> tile[t].ready \ {CallOwner[s]}]
                  [] OTHER -> tile[t]]
    /\ media' = [media EXCEPT ![s] = NoMedia]
    /\ UNCHANGED callConn

\* Joining again starts over with the stream not ready; nothing is cleaned
\* up in a room the socket was in before.
HandleUserJoined(s, r) ==
    /\ callConn[s] = "open"
    /\ peers' = Put(peers, s, [room |-> r, ready |-> FALSE])
    /\ calls' = Put(calls, r, Members(calls, r) \cup {s})
    /\ callSio' = Enter(callSio, s, r, callConn)
    /\ LET here == {t \in DOMAIN peers' : peers'[t].room = r}
           streaming == {t \in here : peers'[t].ready}
       IN tile' =
            [t \in CallSockets |->
                CASE t = s ->
                        [present |-> {CallOwner[x] : x \in here},
                         ready |-> {CallOwner[x] : x \in streaming}]
                  [] t \in callSio[r] \ {s} ->
                        [present |-> tile[t].present \cup {CallOwner[s]},
                         ready |-> tile[t].ready \ {CallOwner[s]}]
                  [] OTHER -> tile[t]]
    /\ media' = [media EXCEPT ![s] = NoMedia]
    /\ UNCHANGED callConn

\* Mutant of HandleStreamReady: the guard is gone, and {...user} of nobody has
\* no room.
ReadyUnguarded(s, r) ==
    /\ callConn[s] = "open"
    /\ peers' = IF InCall(s, r) THEN [peers EXCEPT ![s].ready = TRUE]
                ELSE Put(peers, s, [room |-> NoRoom, ready |-> TRUE])
    /\ UNCHANGED <<callConn, calls, callSio, tile, media>>

HandleStreamReady(s, r) ==
    /\ callConn[s] = "open"
    /\ InCall(s, r)
    /\ peers' = [peers EXCEPT ![s].ready = TRUE]
    /\ tile' = [t \in CallSockets |->
                    IF t \in callSio[r]
                    THEN [tile[t] EXCEPT !.ready = @ \cup {CallOwner[s]}]
                    ELSE tile[t]]
    /\ UNCHANGED <<callConn, calls, callSio, media>>

-----------------------------------------------------------------------------
(* Events passed on *)

connections == <<callConn, peers, calls, callSio, tile>>

\* Mutant of HandleWebRTCSignal: the addressee is looked up in any room.
SignalAnyRoom(s, r, u) ==
    /\ callConn[s] = "open" /\ InCall(s, r)
    /\ \E t \in DOMAIN peers :
        /\ CallOwner[t] = u
        /\ media' = [media EXCEPT ![t].signal = @ \cup {CallOwner[s]}]
    /\ UNCHANGED connections

\* An offer, an answer or a candidate for user u: the first socket of u that
\* the Map lists in the room gets it, whichever that is.
HandleWebRTCSignal(s, r, u) ==
    /\ callConn[s] = "open" /\ InCall(s, r)
    /\ \E t \in DOMAIN peers :
        /\ CallOwner[t] = u /\ InCall(t, r)
        /\ media' = [media EXCEPT ![t].signal = @ \cup {CallOwner[s]}]
    /\ UNCHANGED connections

HandleScreenShareStarted(s, r) ==
    /\ callConn[s] = "open" /\ InCall(s, r)
    /\ media' = [t \in CallSockets |->
                    IF t \in callSio[r]
                    THEN [media[t] EXCEPT !.screen = @ \cup {CallOwner[s]}] ELSE media[t]]
    /\ UNCHANGED connections

HandleScreenShareStopped(s, r) ==
    /\ callConn[s] = "open" /\ InCall(s, r)
    /\ media' = [t \in CallSockets |->
                    IF t \in callSio[r]
                    THEN [media[t] EXCEPT !.screen = @ \ {CallOwner[s]}] ELSE media[t]]
    /\ UNCHANGED connections

\* To all but the one who switched a track off, or on again.
HandleTrackStateChanged(s, r, off) ==
    /\ callConn[s] = "open" /\ InCall(s, r)
    /\ media' = [t \in CallSockets |->
                    IF t \in callSio[r] \ {s}
                    THEN [media[t] EXCEPT !.muted = IF off THEN @ \cup {CallOwner[s]}
                                                           ELSE @ \ {CallOwner[s]}]
                    ELSE media[t]]
    /\ UNCHANGED connections

CallNext ==
    \E s \in CallSockets :
        \/ CallConnect(s)
        \/ CallDisconnect(s)
        \/ \E r \in RoomIds :
            \/ HandleUserJoined(s, r)
            \/ HandleUserLeft(s, r)
            \/ HandleStreamReady(s, r)
            \/ HandleScreenShareStarted(s, r) \/ HandleScreenShareStopped(s, r)
            \/ \E off \in BOOLEAN : HandleTrackStateChanged(s, r, off)
            \/ \E u \in Users : HandleWebRTCSignal(s, r, u)
=============================================================================
