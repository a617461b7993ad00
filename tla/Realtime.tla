------------------------------ MODULE Realtime ------------------------------
(***************************************************************************)
(* The two realtime gateways of one process, and what their rooms promise. *)
(* They share no state: each has its own sockets and its own Maps.         *)
(***************************************************************************)
EXTENDS ChatGateway, WebRTCGateway

realtimeVars == <<chatVars, callVars>>

Init == ChatInit /\ CallInit

Next ==
    \/ ChatNext /\ UNCHANGED callVars
    \/ CallNext /\ UNCHANGED chatVars

Spec == Init /\ [][Next]_realtimeVars

-----------------------------------------------------------------------------
(* Every variable always holds a value of its type: the gateways' Maps     *)
(* (chat.gateway.ts, webrtc.gateway.ts) only hold known sockets and rooms. *)
TypeOK ==
    /\ chatConn \in [ChatSockets -> SocketState]
    /\ IsMap(users, ChatSockets, RoomIds)
    /\ IsMap(rooms, RoomIds, SUBSET ChatSockets)
    /\ IsMap(messages, RoomIds, Seq(Users))
    /\ chatSio \in [RoomIds -> SUBSET ChatSockets]
    /\ events \in [ChatSockets -> SUBSET Event]
    /\ \A s \in ChatSockets :
        /\ page[s].room \in RoomIds \cup {NoRoom}
        /\ page[s].roster \subseteq Users
        /\ page[s].log \in Seq(Users)
    /\ callConn \in [CallSockets -> SocketState]
    /\ IsMap(peers, CallSockets, [room : RoomIds, ready : BOOLEAN])
    /\ IsMap(calls, RoomIds, SUBSET CallSockets)
    /\ callSio \in [RoomIds -> SUBSET CallSockets]
    /\ tile \in [CallSockets -> [present : SUBSET Users, ready : SUBSET Users]]
    /\ media \in [CallSockets -> [signal : SUBSET Users, screen : SUBSET Users,
                                 muted : SUBSET Users]]

-----------------------------------------------------------------------------
(* The Maps agree: a socket the gateway tracks in a room is a member of    *)
(* that room, a room has a history exactly while it has members, and no    *)
(* room without members is kept (chat.gateway.ts 72-97, 183-193, 246-256;  *)
(* webrtc.gateway.ts 62-71, 97-102).  So no history is thrown away under   *)
(* someone who is still in the room.                                       *)
MapsAgree ==
    /\ \A s \in DOMAIN users : s \in Members(rooms, users[s])
    /\ DOMAIN rooms = DOMAIN messages
    /\ \A r \in DOMAIN rooms : rooms[r] # {}
    /\ \A s \in DOMAIN peers : s \in Members(calls, peers[s].room)
    /\ \A r \in DOMAIN calls : calls[r] # {}

(* However many tabs or reconnections of one user ask for a room at once,  *)
(* the gateway tracks one socket of a user in a room: the check for        *)
(* duplicates runs after the await, with the write (chat.gateway.ts        *)
(* 152-183).                                                               *)
OneSocketPerUser ==
    \A s, t \in DOMAIN users :
        ChatOwner[s] = ChatOwner[t] /\ users[s] = users[t] => s = t

(* Someone in a room sees the whole conversation: the history sent on      *)
(* entering and the messages broadcast since add up to what the gateway    *)
(* keeps, whatever joins, leaves and disconnections happened in between    *)
(* (chat.gateway.ts 171-221, 308-314, 365-371).                            *)
SeesConversation ==
    \A s \in DOMAIN users :
        chatConn[s] = "open" =>
            /\ page[s].room = users[s]
            /\ page[s].log = messages[users[s]]

(* Nobody in the room is missing from the user list of someone who is in   *)
(* that room and no other: a second tab or a late disconnection of an old  *)
(* socket does not strike a user who is there (chat.gateway.ts 75-82,      *)
(* 152-169, 207-216).  The events carry no room, so a client in two rooms  *)
(* can be misled.                                                          *)
RosterComplete ==
    \A s, t \in DOMAIN users :
        /\ chatConn[s] = "open"
        /\ users[s] = users[t]
        /\ \A r \in RoomIds : s \in chatSio[r] => r = users[s]
        => ChatOwner[t] \in page[s].roster

(* The peers of a call know who is there and whose stream is ready, in     *)
(* whatever order people join, get ready, change rooms, leave or           *)
(* disconnect: the list sent on joining and the later events agree with    *)
(* the gateway (webrtc.gateway.ts 88-125, 180-196), for every user with a  *)
(* single socket.                                                          *)
PeersKnown ==
    \A s, t \in DOMAIN peers :
        /\ s # t
        /\ peers[s].room = peers[t].room
        /\ \A x \in CallSockets : CallOwner[x] = CallOwner[t] => x = t
        => /\ CallOwner[t] \in tile[s].present
           /\ CallOwner[t] \in tile[s].ready <=> peers[t].ready

(* What a client holds of a user of the call, a connection, a shared       *)
(* screen or a muted track, is of a user it displays: no signal or event   *)
(* reaches it ahead of user_joined, and none outlives user_left, in        *)
(* whatever order people join, leave, share and signal (webrtc.gateway.ts  *)
(* 229-241, 260-263, 307-311); for users with a single socket, as above,   *)
(* and clients that hear of no room but their own.                         *)
MediaOfPeers ==
    \A s \in DOMAIN peers, t \in CallSockets :
        /\ \A r \in RoomIds : s \in callSio[r] => r = peers[s].room
        /\ \A x \in CallSockets : CallOwner[x] = CallOwner[t] => x = t
        /\ CallOwner[t] \in media[s].signal \cup media[s].screen \cup media[s].muted
        => CallOwner[t] \in tile[s].present

(* A conversation only grows while somebody is in the room: what was said  *)
(* is never lost or rewritten, except all at once when the last member     *)
(* leaves (chat.gateway.ts 85-92, 246-253, 308-311).                       *)
ConversationGrows ==
    [][\A r \in DOMAIN messages :
        \/ /\ r \in DOMAIN messages'
           /\ Len(messages[r]) <= Len(messages'[r])
           /\ SubSeq(messages'[r], 1, Len(messages[r])) = messages[r]
        \/ /\ r \notin DOMAIN messages'
           /\ \A s \in DOMAIN users' : users'[s] # r]_chatVars

-----------------------------------------------------------------------------
(* What the gateway says of itself and does not do: once everyone has      *)
(* disconnected from a room, the room and its messages are gone            *)
(* (chat.gateway.ts 84 "Clean up room membership", 152).                   *)
Deserted(r) == \A s \in ChatSockets : chatConn[s] = "open" => s \notin chatSio[r]
RoomForgotten ==
    \A r \in DOMAIN rooms :
        Deserted(r) => \E s \in ChatSockets : events[s] # {}
=============================================================================
