---------------------------- MODULE ChatGateway -----------------------------
(***************************************************************************)
(* The /chat namespace (realtime/chat/chat.gateway.ts): the gateway's      *)
(* three Maps, the handlers waiting for the token's user to be read from   *)
(* the database, and what each client has been told.                       *)
(*                                                                         *)
(* A handler that verifies the token runs in two steps: the event arrives  *)
(* (and waits for the database), then the rest of the handler runs.  In    *)
(* between the same client, or another, may do anything, disconnect        *)
(* included.  The other handlers do not await and are one step.            *)
(***************************************************************************)
EXTENDS SocketRooms

CONSTANTS
    ChatSockets,    \* sockets of /chat
    ChatOwner,      \* the user each socket's token names
    MaxMessages,    \* bound: messages kept at once, in all rooms
    MaxEvents       \* bound: events waiting for the database at once

ASSUME ChatAssumption ==
    /\ ChatOwner \in [ChatSockets -> Users]
    /\ MaxMessages \in Nat
    /\ MaxEvents \in Nat

VARIABLES
    chatConn,   \* state of each socket
    users,      \* Map socketId -> ChatUser: the room each tracked socket is in
    rooms,      \* Map roomId -> Set of socketIds
    messages,   \* Map roomId -> ChatMessage[], a message being its sender
    chatSio,    \* the sockets in each Socket.IO room
    events,     \* events of each socket whose handler awaits the database
    page        \* what each client displays: room, user list, messages

chatVars == <<chatConn, users, rooms, messages, chatSio, events, page>>

\* new_message and broadcast_message wait alike: which of the two a "message"
\* was matters only when it settles.
Event == [op : {"user_connected", "message"}, room : RoomIds]
NoPage == [room |-> NoRoom, roster |-> {}, log |-> <<>>]

ChatInit ==
    /\ chatConn = [s \in ChatSockets |-> "new"]
    /\ users = <<>>
    /\ rooms = <<>>
    /\ messages = <<>>
    /\ chatSio = [r \in RoomIds |-> {}]
    /\ events = [s \in ChatSockets |-> {}]
    /\ page = [s \in ChatSockets |-> NoPage]

-----------------------------------------------------------------------------
(* What the clients do with what they are told: the user list and the      *)
(* messages of the room they display. *)

TellConnected(r, u, pages) ==
    [t \in ChatSockets |->
        IF t \in chatSio[r] THEN [pages[t] EXCEPT !.roster = @ \cup {u}]
        ELSE pages[t]]

TellDisconnected(r, s) ==
    [t \in ChatSockets |->
        IF t \in chatSio[r] \ {s}
        THEN [page[t] EXCEPT !.roster = @ \ {ChatOwner[s]}]
        ELSE page[t]]

TellMessage(audience, r, m) ==
    [t \in ChatSockets |->
        IF t \in audience /\ page[t].room = r
        THEN [page[t] EXCEPT !.log = Append(@, m)]
        ELSE page[t]]

-----------------------------------------------------------------------------
(* Connections *)

ChatConnect(s) ==
    /\ chatConn[s] = "new"
    /\ chatConn' = [chatConn EXCEPT ![s] = "open"]
    /\ UNCHANGED <<users, rooms, messages, chatSio, events, page>>

\* What both ways out of a room clean up.
Untrack(s) ==
    LET r == users[s] IN
    /\ users' = Without(users, {s})
    /\ rooms' = RemoveMember(rooms, r, s)
    /\ messages' = IF Members(rooms, r) \ {s} = {}
                   THEN Without(messages, {r}) ELSE messages

\* The socket closes, from either side, and handleDisconnect runs.
Close(s) ==
    /\ chatConn' = [chatConn EXCEPT ![s] = "closed"]
    /\ chatSio' = LeaveAll(chatSio, s)
    /\ IF s \in DOMAIN users
       THEN /\ Untrack(s)
            /\ page' = [TellDisconnected(users[s], s) EXCEPT ![s] = NoPage]
       ELSE /\ page' = [page EXCEPT ![s] = NoPage]
            /\ UNCHANGED <<users, rooms, messages>>

ChatDisconnect(s) ==
    /\ chatConn[s] = "open"
    /\ Close(s)
    /\ UNCHANGED events

-----------------------------------------------------------------------------
(* Events that wait for verifyTokenAndGetUser *)

Waiting == {p \in ChatSockets \X Event : p[2] \in events[p[1]]}

Receive(s, e) ==
    /\ chatConn[s] = "open"
    /\ e \notin events[s]
    /\ Cardinality(Waiting) < MaxEvents
    /\ events' = [events EXCEPT ![s] = @ \cup {e}]
    /\ UNCHANGED <<chatConn, users, rooms, messages, chatSio, page>>

Settles(s, op, r) ==
    LET e == [op |-> op, room |-> r] IN
    /\ e \in events[s]
    /\ events' = [events EXCEPT ![s] = @ \ {e}]

\* No user behind the token, or the query failed: join_denied and disconnect.
JoinDenied(s, r) ==
    /\ Settles(s, "user_connected", r)
    /\ IF chatConn[s] = "open"
       THEN Close(s)
       ELSE UNCHANGED <<chatConn, users, rooms, messages, chatSio, page>>

\* Mutant of Duplicates: the gateway does not look for them.
NoDuplicates(s, r) == {}

\* The same user's sockets already tracked in the room.  They are dropped
\* from users only: this.server is a Namespace, which has no of(), so the
\* code that would make the old socket leave throws and is caught.
Duplicates(s, r) ==
    {t \in DOMAIN users : ChatOwner[t] = ChatOwner[s] /\ users[t] = r}

\* Mutant of HandleUserConnected: the user list is read before the new socket
\* is tracked.
ListedTooEarly(s, r) ==
    /\ Settles(s, "user_connected", r)
    /\ users' = Put(Without(users, Duplicates(s, r)), s, r)
    /\ rooms' = Put(rooms, r, Members(rooms, r) \cup {s})
    /\ messages' = IF r \in DOMAIN messages THEN messages
                   ELSE Put(messages, r, <<>>)
    /\ chatSio' = Enter(chatSio, s, r, chatConn)
    /\ LET list == {ChatOwner[t] : t \in {x \in DOMAIN users : users[x] = r}}
           told == TellConnected(r, ChatOwner[s], page)
       IN page' = IF chatConn[s] = "open"
                  THEN [told EXCEPT ![s] = [room |-> r, roster |-> list,
                                            log |-> messages'[r]]]
                  ELSE told
    /\ UNCHANGED chatConn

\* Mutant of HandleUserConnected: the room's messages are initialised whether
\* or not it has some.
MessagesReset(s, r) ==
    /\ Settles(s, "user_connected", r)
    /\ users' = Put(Without(users, Duplicates(s, r)), s, r)
    /\ rooms' = Put(rooms, r, Members(rooms, r) \cup {s})
    /\ messages' = Put(messages, r, <<>>)
    /\ chatSio' = Enter(chatSio, s, r, chatConn)
    /\ page' = TellConnected(r, ChatOwner[s], page)
    /\ UNCHANGED chatConn

HandleUserConnected(s, r) ==
    /\ Settles(s, "user_connected", r)
    /\ users' = Put(Without(users, Duplicates(s, r)), s, r)
    /\ rooms' = Put(rooms, r, Members(rooms, r) \cup {s})
    /\ messages' = IF r \in DOMAIN messages THEN messages
                   ELSE Put(messages, r, <<>>)
    /\ chatSio' = Enter(chatSio, s, r, chatConn)
    /\ LET list == {ChatOwner[t] : t \in {x \in DOMAIN users' : users'[x] = r}}
           told == TellConnected(r, ChatOwner[s], page)
       IN page' = IF chatConn[s] = "open"
                  THEN [told EXCEPT ![s] = [room |-> r, roster |-> list,
                                            log |-> messages'[r]]]
                  ELSE told
    /\ UNCHANGED chatConn

\* A message is kept and sent only if its sender is still tracked in the
\* room when the query returns.
Kept == UNION {{r} \X DOMAIN messages[r] : r \in DOMAIN messages}

HandleMessage(s, r, audience) ==
    /\ Settles(s, "message", r)
    /\ IF s \in DOMAIN users /\ users[s] = r
       THEN /\ Cardinality(Kept) < MaxMessages
            /\ messages' = Put(messages, r, Append(messages[r], ChatOwner[s]))
            /\ page' = TellMessage(audience, r, ChatOwner[s])
       ELSE UNCHANGED <<messages, page>>
    /\ UNCHANGED <<chatConn, users, rooms, chatSio>>

\* Mutant of HandleNewMessage: client.to instead of server.to leaves out the
\* sender.
SentToOthers(s, r) == HandleMessage(s, r, chatSio[r] \ {s})

HandleNewMessage(s, r) == HandleMessage(s, r, chatSio[r])
HandleBroadcastMessage(s, r) ==
    HandleMessage(s, r, {t \in ChatSockets : chatConn[t] = "open"})

\* The message's author could not be verified: it is dropped.
MessageDropped(s, r) ==
    /\ Settles(s, "message", r)
    /\ UNCHANGED <<chatConn, users, rooms, messages, chatSio, page>>

-----------------------------------------------------------------------------
(* user_disconnected does not await *)

HandleUserDisconnected(s, r) ==
    /\ chatConn[s] = "open"
    /\ s \in DOMAIN users
    /\ users[s] = r
    /\ Untrack(s)
    /\ chatSio' = [chatSio EXCEPT ![r] = @ \ {s}]
    /\ page' = [TellDisconnected(r, s) EXCEPT ![s] = NoPage]
    /\ UNCHANGED <<chatConn, events>>

ChatNext ==
    \E s \in ChatSockets :
        \/ ChatConnect(s)
        \/ ChatDisconnect(s)
        \/ \E e \in Event : Receive(s, e)
        \/ \E r \in RoomIds :
            \/ JoinDenied(s, r)
            \/ HandleUserConnected(s, r)
            \/ HandleNewMessage(s, r)
            \/ HandleBroadcastMessage(s, r)
            \/ MessageDropped(s, r)
            \/ HandleUserDisconnected(s, r)
=============================================================================
