--------------------------- MODULE RealtimeProofs ---------------------------
(***************************************************************************)
(* What the chat gateway keeps and what its clients display agree, for any *)
(* sockets, users and rooms.                                               *)
(***************************************************************************)
EXTENDS Realtime, SequenceTheorems, TLAPS

Page == [room : RoomIds \cup {NoRoom}, roster : SUBSET Users, log : Seq(Users)]

ChatTypes ==
    /\ chatConn \in [ChatSockets -> SocketState]
    /\ IsMap(users, ChatSockets, RoomIds)
    /\ IsMap(rooms, RoomIds, SUBSET ChatSockets)
    /\ IsMap(messages, RoomIds, Seq(Users))
    /\ chatSio \in [RoomIds -> SUBSET ChatSockets]
    /\ events \in [ChatSockets -> SUBSET Event]
    /\ page \in [ChatSockets -> Page]

ChatMapsAgree ==
    /\ \A s \in DOMAIN users : s \in Members(rooms, users[s])
    /\ DOMAIN rooms = DOMAIN messages
    /\ \A r \in DOMAIN rooms : rooms[r] # {}

\* Whoever is tracked and still connected hears what is said in the room.
Listening == \A s \in DOMAIN users : chatConn[s] = "open" => s \in chatSio[users[s]]

ChatInv ==
    /\ ChatTypes
    /\ ChatMapsAgree
    /\ Listening
    /\ OneSocketPerUser
    /\ SeesConversation
    /\ RosterComplete

USE ChatAssumption, CallAssumption, NoRoomAssumption

LEMMA EmptyPage == NoPage \in Page
<1>1. <<>> \in Seq(Users)
  OBVIOUS
<1> QED BY <1>1 DEF Page, NoPage

LEMMA PageParts ==
    ASSUME NEW p \in Page
    PROVE  p.room \in RoomIds \cup {NoRoom} /\ p.roster \in SUBSET Users /\ p.log \in Seq(Users)
BY DEF Page

LEMMA ChatInvInit == ChatInit => ChatInv
<1> SUFFICES ASSUME ChatInit PROVE ChatInv
  OBVIOUS
<1>1. DOMAIN users = {} /\ DOMAIN rooms = {} /\ DOMAIN messages = {}
  BY DEF ChatInit
<1>3. ChatTypes
  BY <1>1, EmptyPage DEF ChatInit, ChatTypes, IsMap, SocketState
<1> QED BY <1>1, <1>3 DEF ChatInv, ChatMapsAgree, Listening, OneSocketPerUser,
                          SeesConversation, RosterComplete

-----------------------------------------------------------------------------
(* Leaving a room: by user_disconnected, by disconnecting or by being denied *)

\* The tracking of s ends; nobody else's place in a Socket.IO room changes.
LEMMA UntrackKeeps ==
    ASSUME ChatInv, NEW s \in DOMAIN users, Untrack(s),
           chatConn' \in [ChatSockets -> SocketState],
           \A t \in ChatSockets \ {s} : chatConn'[t] = chatConn[t],
           chatSio' \in [RoomIds -> SUBSET ChatSockets],
           \A q \in RoomIds : chatSio'[q] \ {s} = chatSio[q] \ {s},
           events' \in [ChatSockets -> SUBSET Event],
           page' = [TellDisconnected(users[s], s) EXCEPT ![s] = NoPage]
    PROVE  ChatInv'
<1> DEFINE r == users[s]
<1>1. s \in ChatSockets /\ r \in RoomIds
  BY DEF ChatInv, ChatTypes, IsMap
<1>2. /\ DOMAIN users' = DOMAIN users \ {s}
      /\ \A t \in DOMAIN users' : users'[t] = users[t] /\ users[t] \in RoomIds
      /\ DOMAIN users' \subseteq ChatSockets \ {s}
  BY DEF Untrack, Without, ChatInv, ChatTypes, IsMap
<1>3. r \in DOMAIN rooms /\ s \in rooms[r] /\ DOMAIN rooms = DOMAIN messages
  BY DEF ChatInv, ChatMapsAgree, Members
<1>4. /\ DOMAIN rooms' = DOMAIN messages' /\ DOMAIN rooms' \subseteq DOMAIN rooms
      /\ \A q \in DOMAIN rooms' : /\ rooms'[q] # {} /\ rooms'[q] \subseteq ChatSockets
                                  /\ rooms[q] \ {s} \subseteq rooms'[q]
                                  /\ messages'[q] = messages[q]
      /\ \A t \in DOMAIN users' : users[t] \in DOMAIN rooms'
  <2>1. CASE rooms[r] \ {s} = {}
    <3>1. /\ DOMAIN rooms' = DOMAIN rooms \ {r} /\ DOMAIN messages' = DOMAIN messages \ {r}
          /\ \A q \in DOMAIN rooms' : rooms'[q] = rooms[q] /\ messages'[q] = messages[q]
      BY <1>3, <2>1 DEF Untrack, RemoveMember, Members, Without
    <3>2. \A t \in DOMAIN users' : users[t] # r /\ users[t] \in DOMAIN rooms
      BY <1>2, <1>3, <2>1 DEF ChatInv, ChatMapsAgree, Members
    <3> QED BY <1>2, <1>3, <3>1, <3>2 DEF ChatInv, ChatTypes, ChatMapsAgree, IsMap
  <2>2. CASE rooms[r] \ {s} # {}
    <3>1. /\ DOMAIN rooms' = DOMAIN rooms /\ messages' = messages
          /\ rooms'[r] = rooms[r] \ {s}
          /\ \A q \in DOMAIN rooms \ {r} : rooms'[q] = rooms[q]
      BY <1>3, <2>2 DEF Untrack, RemoveMember, Members, Put
    <3>2. \A t \in DOMAIN users' : users[t] \in DOMAIN rooms
      BY <1>2 DEF ChatInv, ChatMapsAgree, Members
    <3> QED BY <1>3, <2>2, <3>1, <3>2 DEF ChatInv, ChatTypes, ChatMapsAgree, IsMap
  <2> QED BY <2>1, <2>2
<1>5. /\ page' \in [ChatSockets -> Page]
      /\ \A t \in ChatSockets \ {s} :
            /\ page'[t].room = page[t].room /\ page'[t].log = page[t].log
            /\ page'[t].roster = IF t \in chatSio[r] THEN page[t].roster \ {ChatOwner[s]}
                                                     ELSE page[t].roster
  <2>1. ASSUME NEW t \in ChatSockets \ {s}
        PROVE  /\ page'[t] \in Page
               /\ page'[t].room = page[t].room /\ page'[t].log = page[t].log
               /\ page'[t].roster = IF t \in chatSio[r] THEN page[t].roster \ {ChatOwner[s]}
                                                        ELSE page[t].roster
    <3>1. page[t] \in Page /\ page[t].roster \ {ChatOwner[s]} \in SUBSET Users
      BY PageParts DEF ChatInv, ChatTypes
    <3>2. page'[t] = IF t \in chatSio[r]
                     THEN [page[t] EXCEPT !.roster = page[t].roster \ {ChatOwner[s]}]
                     ELSE page[t]
      BY <1>1 DEF TellDisconnected
    <3>3. CASE t \in chatSio[r]
      <4>1. page'[t] = [page[t] EXCEPT !.roster = page[t].roster \ {ChatOwner[s]}]
        BY <3>2, <3>3
      <4>2. /\ page'[t] \in Page
            /\ page'[t].room = page[t].room /\ page'[t].log = page[t].log
            /\ page'[t].roster = page[t].roster \ {ChatOwner[s]}
        BY <3>1, <4>1 DEF Page
      <4> QED BY <3>3, <4>2
    <3>4. CASE t \notin chatSio[r]
      BY <3>1, <3>2, <3>4
    <3> QED BY <3>3, <3>4
  <2>2. page' = [t \in ChatSockets |-> page'[t]] /\ page'[s] = NoPage
    BY <1>1 DEF TellDisconnected
  <2>3. \A t \in ChatSockets : page'[t] \in Page
    BY <2>1, <2>2, EmptyPage
  <2> QED BY <2>1, <2>2, <2>3
<1>6. ChatTypes'
  <2>1. IsMap(users', ChatSockets, RoomIds) /\ IsMap(rooms', RoomIds, SUBSET ChatSockets)
    BY <1>2, <1>4 DEF ChatTypes, ChatInv, IsMap
  <2>2. IsMap(messages', RoomIds, Seq(Users))
    BY <1>3, <1>4 DEF ChatTypes, ChatInv, IsMap
  <2> QED BY <1>5, <2>1, <2>2 DEF ChatTypes
<1>7. ChatMapsAgree'
  BY <1>2, <1>4 DEF ChatMapsAgree, ChatInv, Members
<1>8. Listening' /\ OneSocketPerUser'
  BY <1>2 DEF Listening, OneSocketPerUser, ChatInv
<1>9. SeesConversation'
  <2> SUFFICES ASSUME NEW t \in DOMAIN users', chatConn'[t] = "open"
               PROVE  page'[t].room = users'[t] /\ page'[t].log = messages'[users'[t]]
    BY DEF SeesConversation
  <2>1. /\ t \in DOMAIN users /\ t \in ChatSockets \ {s} /\ chatConn[t] = "open"
        /\ users'[t] = users[t] /\ users[t] \in DOMAIN rooms'
    BY <1>2, <1>4
  <2>2. page[t].room = users[t] /\ page[t].log = messages[users[t]]
    BY <2>1 DEF SeesConversation, ChatInv
  <2>3. messages'[users[t]] = messages[users[t]]
    BY <1>4, <2>1
  <2>4. page'[t].room = page[t].room /\ page'[t].log = page[t].log
    BY <1>5, <2>1
  <2> QED BY <2>1, <2>2, <2>3, <2>4
<1>10. RosterComplete'
  <2> SUFFICES ASSUME NEW t \in DOMAIN users', NEW u \in DOMAIN users',
                      chatConn'[t] = "open", users'[t] = users'[u],
                      \A q \in RoomIds : t \in chatSio'[q] => q = users'[t]
               PROVE  ChatOwner[u] \in page'[t].roster
    BY DEF RosterComplete
  <2>1. \A q \in RoomIds : t \in chatSio[q] => q = users[t]
    BY <1>2
  <2>2. ChatOwner[u] \in page[t].roster
    BY <1>2, <2>1 DEF RosterComplete, ChatInv
  <2>3. t \in chatSio[r] => ChatOwner[u] # ChatOwner[s]
    BY <1>1, <1>2, <2>1 DEF OneSocketPerUser, ChatInv
  <2> QED BY <1>2, <1>5, <2>2, <2>3
<1> QED BY <1>6, <1>7, <1>8, <1>9, <1>10 DEF ChatInv

LEMMA CloseKeeps ==
    ASSUME ChatInv, NEW s \in ChatSockets, Close(s), events' \in [ChatSockets -> SUBSET Event]
    PROVE  ChatInv'
<1>1. /\ chatConn' \in [ChatSockets -> SocketState] /\ chatConn'[s] = "closed"
      /\ \A t \in ChatSockets \ {s} : chatConn'[t] = chatConn[t]
      /\ chatSio' \in [RoomIds -> SUBSET ChatSockets]
      /\ \A q \in RoomIds : chatSio'[q] = chatSio[q] \ {s}
  BY DEF Close, LeaveAll, SocketState, ChatInv, ChatTypes
<1>2. CASE s \in DOMAIN users
  BY <1>1, <1>2, UntrackKeeps DEF Close
<1>3. CASE s \notin DOMAIN users
  <2>1. /\ page' \in [ChatSockets -> Page]
        /\ \A t \in ChatSockets \ {s} : page'[t] = page[t]
        /\ UNCHANGED <<users, rooms, messages>>
    BY <1>3, EmptyPage DEF Close, ChatInv, ChatTypes
  <2>2. DOMAIN users \subseteq ChatSockets \ {s} /\ \A t \in DOMAIN users : users[t] \in RoomIds
    BY <1>3 DEF ChatInv, ChatTypes, IsMap
  <2>3. ChatTypes' /\ ChatMapsAgree'
    BY <1>1, <2>1 DEF ChatInv, ChatTypes, ChatMapsAgree, IsMap, Members
  <2>4. Listening' /\ OneSocketPerUser'
    BY <1>1, <2>1, <2>2 DEF ChatInv, Listening, OneSocketPerUser
  <2>5. SeesConversation' /\ RosterComplete'
    BY <1>1, <2>1, <2>2 DEF ChatInv, SeesConversation, RosterComplete
  <2> QED BY <2>3, <2>4, <2>5 DEF ChatInv
<1> QED BY <1>2, <1>3

LEMMA HandleUserDisconnectedKeeps ==
    ASSUME ChatInv, NEW s \in ChatSockets, NEW r \in RoomIds, HandleUserDisconnected(s, r)
    PROVE  ChatInv'
<1>1. /\ chatSio' \in [RoomIds -> SUBSET ChatSockets]
      /\ \A q \in RoomIds : chatSio'[q] \ {s} = chatSio[q] \ {s}
  BY DEF HandleUserDisconnected, ChatInv, ChatTypes
<1> QED BY <1>1, UntrackKeeps DEF HandleUserDisconnected, ChatInv, ChatTypes

-----------------------------------------------------------------------------
(* Events that are received and settle *)

LEMMA SettlesType ==
    ASSUME ChatTypes, NEW s \in ChatSockets, NEW op, NEW r, Settles(s, op, r)
    PROVE  events' \in [ChatSockets -> SUBSET Event]
BY DEF Settles, ChatTypes

LEMMA NothingElse ==
    ASSUME ChatInv, UNCHANGED <<users, rooms, messages, chatSio, page>>,
           events' \in [ChatSockets -> SUBSET Event],
           chatConn' \in [ChatSockets -> SocketState],
           \A s \in DOMAIN users : chatConn'[s] = "open" => chatConn[s] = "open"
    PROVE  ChatInv'
<1>1. ChatTypes' /\ ChatMapsAgree' /\ OneSocketPerUser'
  BY DEF ChatInv, ChatTypes, ChatMapsAgree, OneSocketPerUser, Members
<1>2. Listening' /\ SeesConversation' /\ RosterComplete'
  BY DEF ChatInv, Listening, SeesConversation, RosterComplete
<1> QED BY <1>1, <1>2 DEF ChatInv

LEMMA HandleMessageKeeps ==
    ASSUME ChatInv, NEW s \in ChatSockets, NEW r \in RoomIds, NEW audience,
           HandleMessage(s, r, audience),
           \A t \in DOMAIN users : chatConn[t] = "open" /\ users[t] = r => t \in audience
    PROVE  ChatInv'
<1>1. events' \in [ChatSockets -> SUBSET Event]
  BY SettlesType DEF HandleMessage, ChatInv
<1>2. CASE ~(s \in DOMAIN users /\ users[s] = r)
  BY <1>1, <1>2, NothingElse DEF HandleMessage, ChatInv, ChatTypes
<1>3. CASE s \in DOMAIN users /\ users[s] = r
  <2>1. r \in DOMAIN messages /\ messages[r] \in Seq(Users) /\ ChatOwner[s] \in Users
    BY <1>3 DEF ChatInv, ChatMapsAgree, Members, ChatTypes, IsMap
  <2>2. /\ DOMAIN messages' = DOMAIN messages
        /\ messages'[r] = Append(messages[r], ChatOwner[s])
        /\ \A q \in DOMAIN messages \ {r} : messages'[q] = messages[q]
        /\ UNCHANGED <<chatConn, users, rooms, chatSio>>
    BY <1>3, <2>1 DEF HandleMessage, Put
  <2>3. /\ page' \in [ChatSockets -> Page]
        /\ \A t \in ChatSockets :
              /\ page'[t].room = page[t].room /\ page'[t].roster = page[t].roster
              /\ page'[t].log = IF t \in audience /\ page[t].room = r
                                THEN Append(page[t].log, ChatOwner[s]) ELSE page[t].log
    <3>1. ASSUME NEW t \in ChatSockets
          PROVE  /\ page'[t] \in Page
                 /\ page'[t].room = page[t].room /\ page'[t].roster = page[t].roster
                 /\ page'[t].log = IF t \in audience /\ page[t].room = r
                                   THEN Append(page[t].log, ChatOwner[s]) ELSE page[t].log
      <4>1. page[t] \in Page /\ page[t].log \in Seq(Users)
        BY PageParts DEF ChatInv, ChatTypes
      <4>2. Append(page[t].log, ChatOwner[s]) \in Seq(Users)
        BY <2>1, <4>1
      <4>3. page'[t] = IF t \in audience /\ page[t].room = r
                       THEN [page[t] EXCEPT !.log = Append(page[t].log, ChatOwner[s])]
                       ELSE page[t]
        BY <1>3 DEF HandleMessage, TellMessage
      <4>4. CASE t \in audience /\ page[t].room = r
        <5>1. page'[t] = [page[t] EXCEPT !.log = Append(page[t].log, ChatOwner[s])]
          BY <4>3, <4>4
        <5>2. /\ page'[t] \in Page
              /\ page'[t].room = page[t].room /\ page'[t].roster = page[t].roster
              /\ page'[t].log = Append(page[t].log, ChatOwner[s])
          BY <4>1, <4>2, <5>1 DEF Page
        <5> QED BY <4>4, <5>2
      <4>5. CASE ~(t \in audience /\ page[t].room = r)
        BY <4>1, <4>3, <4>5
      <4> QED BY <4>4, <4>5
    <3>2. page' = [t \in ChatSockets |-> page'[t]]
      BY <1>3 DEF HandleMessage, TellMessage
    <3> QED BY <3>1, <3>2
  <2>4. \A t \in DOMAIN users : t \in ChatSockets /\ users[t] \in DOMAIN messages
    BY DEF ChatInv, ChatMapsAgree, Members, ChatTypes, IsMap
  <2>5. ChatTypes'
    <3>1. Append(messages[r], ChatOwner[s]) \in Seq(Users)
      BY <2>1
    <3>2. IsMap(messages', RoomIds, Seq(Users))
      BY <2>2, <3>1 DEF ChatInv, ChatTypes, IsMap
    <3> QED BY <1>1, <2>2, <2>3, <3>2 DEF ChatInv, ChatTypes
  <2>6. ChatMapsAgree' /\ OneSocketPerUser' /\ Listening'
    BY <2>2 DEF ChatInv, ChatMapsAgree, OneSocketPerUser, Listening, Members
  <2>7. SeesConversation'
    <3> SUFFICES ASSUME NEW t \in DOMAIN users, chatConn[t] = "open"
                 PROVE  page'[t].room = users[t] /\ page'[t].log = messages'[users[t]]
      BY <2>2 DEF SeesConversation
    <3>1. page[t].room = users[t] /\ page[t].log = messages[users[t]]
      BY DEF SeesConversation, ChatInv
    <3>2. CASE users[t] = r
      BY <2>2, <2>3, <2>4, <3>1, <3>2
    <3>3. CASE users[t] # r
      BY <2>2, <2>3, <2>4, <3>1, <3>3
    <3> QED BY <3>2, <3>3
  <2>8. RosterComplete'
    BY <2>2, <2>3, <2>4 DEF ChatInv, RosterComplete
  <2> QED BY <2>5, <2>6, <2>7, <2>8 DEF ChatInv
<1> QED BY <1>2, <1>3

-----------------------------------------------------------------------------
(* user_connected: the socket is tracked, the duplicates are dropped, and   *)
(* the room's list and history go out.                                      *)

LEMMA HandleUserConnectedKeeps ==
    ASSUME ChatInv, NEW s \in ChatSockets, NEW r \in RoomIds, HandleUserConnected(s, r)
    PROVE  ChatInv'
<1> DEFINE D == Duplicates(s, r)
<1> DEFINE list == {ChatOwner[t] : t \in {x \in DOMAIN users' : users'[x] = r}}
<1>0. ChatOwner[s] \in Users
  OBVIOUS
<1>1. /\ DOMAIN users \subseteq ChatSockets
      /\ \A t \in DOMAIN users : users[t] \in RoomIds /\ users[t] \in DOMAIN rooms
                                 /\ t \in rooms[users[t]]
      /\ DOMAIN rooms = DOMAIN messages
  BY DEF ChatInv, ChatTypes, ChatMapsAgree, IsMap, Members
<1>2. /\ DOMAIN users' = (DOMAIN users \ D) \cup {s}
      /\ users'[s] = r
      /\ \A t \in DOMAIN users' \ {s} : t \in DOMAIN users /\ t \notin D /\ users'[t] = users[t]
  BY DEF HandleUserConnected, Put, Without
<1>3. /\ DOMAIN rooms' = DOMAIN rooms \cup {r}
      /\ rooms'[r] = Members(rooms, r) \cup {s}
      /\ \A q \in DOMAIN rooms \ {r} : rooms'[q] = rooms[q]
  BY DEF HandleUserConnected, Put
<1>4. /\ DOMAIN messages' = DOMAIN messages \cup {r}
      /\ \A q \in DOMAIN messages : messages'[q] = messages[q]
      /\ messages'[r] \in Seq(Users)
  <2>1. CASE r \in DOMAIN messages
    BY <2>1 DEF HandleUserConnected, ChatInv, ChatTypes, IsMap
  <2>2. CASE r \notin DOMAIN messages
    <3>1. messages' = Put(messages, r, <<>>)
      BY <2>2 DEF HandleUserConnected
    <3>2. <<>> \in Seq(Users)
      OBVIOUS
    <3> QED BY <2>2, <3>1, <3>2 DEF Put
  <2> QED BY <2>1, <2>2
<1>5. /\ chatSio' \in [RoomIds -> SUBSET ChatSockets]
      /\ \A q \in RoomIds : chatSio[q] \subseteq chatSio'[q]
      /\ chatConn[s] = "open" => s \in chatSio'[r]
  BY DEF HandleUserConnected, Enter, ChatInv, ChatTypes
<1>6. chatConn' = chatConn /\ events' \in [ChatSockets -> SUBSET Event]
  BY SettlesType DEF HandleUserConnected, ChatInv
<1>7. list \subseteq Users
  BY <1>1, <1>2
<1>8. /\ page' \in [ChatSockets -> Page]
      /\ chatConn[s] = "open" => /\ page'[s].room = r /\ page'[s].roster = list
                                 /\ page'[s].log = messages'[r]
      /\ \A t \in ChatSockets \ {s} :
            /\ page'[t].room = page[t].room /\ page'[t].log = page[t].log
            /\ page[t].roster \subseteq page'[t].roster
            /\ t \in chatSio[r] => ChatOwner[s] \in page'[t].roster
  <2> DEFINE told == TellConnected(r, ChatOwner[s], page)
  <2> DEFINE new == [room |-> r, roster |-> list, log |-> messages'[r]]
  <2>1. /\ told = [t \in ChatSockets |-> told[t]]
        /\ page' = IF chatConn[s] = "open" THEN [told EXCEPT ![s] = new] ELSE told
    BY DEF TellConnected, HandleUserConnected
  <2>2. ASSUME NEW t \in ChatSockets
        PROVE  /\ told[t] \in Page
               /\ told[t].room = page[t].room /\ told[t].log = page[t].log
               /\ page[t].roster \subseteq told[t].roster
               /\ t \in chatSio[r] => ChatOwner[s] \in told[t].roster
    <3>1. page[t] \in Page /\ page[t].roster \cup {ChatOwner[s]} \in SUBSET Users
      BY <1>0, PageParts DEF ChatInv, ChatTypes
    <3>2. told[t] = IF t \in chatSio[r]
                    THEN [page[t] EXCEPT !.roster = page[t].roster \cup {ChatOwner[s]}]
                    ELSE page[t]
      BY DEF TellConnected
    <3> HIDE DEF told
    <3> QED BY <3>1, <3>2 DEF Page
  <2>3. new \in Page /\ new.room = r /\ new.roster = list /\ new.log = messages'[r]
    BY <1>4, <1>7 DEF Page
  <2> HIDE DEF told, new
  <2>4. /\ \A t \in ChatSockets \ {s} : page'[t] = told[t]
        /\ chatConn[s] = "open" => page'[s] = new
        /\ chatConn[s] # "open" => page'[s] = told[s]
        /\ page' = [t \in ChatSockets |-> page'[t]]
    BY <2>1
  <2>5. \A t \in ChatSockets : page'[t] \in Page
    BY <2>2, <2>3, <2>4
  <2>6. page' \in [ChatSockets -> Page]
    BY <2>4, <2>5
  <2> QED BY <2>2, <2>3, <2>4, <2>6
<1> HIDE DEF D, list
<1>9. ChatTypes'
  <2>1. IsMap(users', ChatSockets, RoomIds)
    BY <1>1, <1>2 DEF IsMap
  <2>2. IsMap(rooms', RoomIds, SUBSET ChatSockets)
    BY <1>3 DEF IsMap, ChatInv, ChatTypes, Members
  <2>3. IsMap(messages', RoomIds, Seq(Users))
    BY <1>4 DEF IsMap, ChatInv, ChatTypes
  <2> QED BY <1>5, <1>6, <1>8, <2>1, <2>2, <2>3 DEF ChatTypes, ChatInv
<1>10. ChatMapsAgree'
  BY <1>1, <1>2, <1>3, <1>4 DEF ChatMapsAgree, ChatInv, Members
<1>11. Listening'
  BY <1>1, <1>2, <1>5, <1>6 DEF Listening, ChatInv
<1>12. OneSocketPerUser'
  BY <1>1, <1>2 DEF OneSocketPerUser, ChatInv, D, Duplicates
<1>13. SeesConversation'
  <2> SUFFICES ASSUME NEW t \in DOMAIN users', chatConn[t] = "open"
               PROVE  page'[t].room = users'[t] /\ page'[t].log = messages'[users'[t]]
    BY <1>6 DEF SeesConversation
  <2>1. CASE t = s
    BY <1>2, <1>8, <2>1
  <2>2. CASE t # s
    <3>1. t \in DOMAIN users /\ users'[t] = users[t] /\ t \in ChatSockets \ {s}
          /\ users[t] \in DOMAIN messages
      BY <1>1, <1>2, <2>2
    <3>2. page[t].room = users[t] /\ page[t].log = messages[users[t]]
      BY <3>1 DEF SeesConversation, ChatInv
    <3> QED BY <1>4, <1>8, <3>1, <3>2
  <2> QED BY <2>1, <2>2
<1>14. RosterComplete'
  <2> SUFFICES ASSUME NEW t \in DOMAIN users', NEW u \in DOMAIN users',
                      chatConn[t] = "open", users'[t] = users'[u],
                      \A q \in RoomIds : t \in chatSio'[q] => q = users'[t]
               PROVE  ChatOwner[u] \in page'[t].roster
    BY <1>6 DEF RosterComplete
  <2>1. CASE t = s
    BY <1>2, <1>8, <2>1 DEF list
  <2>2. CASE t # s
    <3>1. t \in DOMAIN users /\ users'[t] = users[t] /\ t \in ChatSockets \ {s}
      BY <1>1, <1>2, <2>2
    <3>2. CASE u = s
      <4>1. t \in chatSio[r]
        BY <1>2, <3>1, <3>2 DEF Listening, ChatInv
      <4> QED BY <1>8, <3>1, <3>2, <4>1
    <3>3. CASE u # s
      <4>1. u \in DOMAIN users /\ users[u] = users[t]
        BY <1>2, <3>1, <3>3
      <4>2. \A q \in RoomIds : t \in chatSio[q] => q = users[t]
        BY <1>5, <3>1
      <4>3. ChatOwner[u] \in page[t].roster
        BY <3>1, <4>1, <4>2 DEF RosterComplete, ChatInv
      <4> QED BY <1>8, <3>1, <4>3
    <3> QED BY <3>2, <3>3
  <2> QED BY <2>1, <2>2
<1> QED BY <1>9, <1>10, <1>11, <1>12, <1>13, <1>14 DEF ChatInv

-----------------------------------------------------------------------------
(* Every step of the gateway *)

\* A socket that has not connected is not tracked and has sent nothing.
Fresh == \A s \in ChatSockets : chatConn[s] = "new" => s \notin DOMAIN users /\ events[s] = {}

LEMMA FreshStep == ChatTypes /\ Fresh /\ ChatNext => Fresh'
<1> SUFFICES ASSUME ChatTypes, Fresh, ChatNext PROVE Fresh'
  OBVIOUS
<1> USE DEF Fresh, ChatTypes, IsMap
<1> PICK s \in ChatSockets :
       \/ ChatConnect(s)
       \/ ChatDisconnect(s)
       \/ \E e \in Event : Receive(s, e)
       \/ \E r \in RoomIds :
           \/ JoinDenied(s, r)
           \/ HandleUserConnected(s, r)
           \/ HandleNewMessage(s, r)
           \/ HandleBroadcastMessage(s, r)
           \/ MessageDropped(s, r)
           \/ HandleUserDisconnected(s, r)
  BY DEF ChatNext
<1>1. CASE ChatConnect(s)
  BY <1>1 DEF ChatConnect
<1>2. ASSUME Close(s), events' = events \/ events' = [events EXCEPT ![s] = events'[s]]
      PROVE  Fresh'
  <2>1. chatConn'[s] = "closed" /\ \A t \in ChatSockets \ {s} : chatConn'[t] = chatConn[t]
    BY <1>2 DEF Close
  <2>2. DOMAIN users' \subseteq DOMAIN users
    BY <1>2 DEF Close, Untrack, Without
  <2> QED BY <1>2, <2>1, <2>2
<1>3. CASE ChatDisconnect(s)
  BY <1>2, <1>3 DEF ChatDisconnect
<1>4. ASSUME NEW e \in Event, Receive(s, e) PROVE Fresh'
  BY <1>4 DEF Receive
<1>5. ASSUME NEW r \in RoomIds, JoinDenied(s, r) PROVE Fresh'
  <2>1. events' = [events EXCEPT ![s] = events'[s]] /\ events'[s] \subseteq events[s]
    BY <1>5 DEF JoinDenied, Settles
  <2>2. CASE chatConn[s] = "open"
    BY <1>2, <1>5, <2>1, <2>2 DEF JoinDenied
  <2>3. CASE chatConn[s] # "open"
    BY <1>5, <2>1, <2>3 DEF JoinDenied
  <2> QED BY <2>2, <2>3
<1>6. ASSUME NEW r \in RoomIds, HandleUserConnected(s, r) PROVE Fresh'
  <2>1. events[s] # {} /\ \A t \in ChatSockets \ {s} : events'[t] = events[t]
    BY <1>6 DEF HandleUserConnected, Settles
  <2>2. chatConn[s] # "new" /\ chatConn' = chatConn
    BY <1>6, <2>1 DEF HandleUserConnected
  <2>3. DOMAIN users' \subseteq DOMAIN users \cup {s}
    BY <1>6 DEF HandleUserConnected, Put, Without
  <2> QED BY <2>1, <2>2, <2>3
<1>7. ASSUME NEW r \in RoomIds, NEW audience, HandleMessage(s, r, audience) PROVE Fresh'
  BY <1>7 DEF HandleMessage, Settles
<1>8. ASSUME NEW r \in RoomIds, MessageDropped(s, r) PROVE Fresh'
  BY <1>8 DEF MessageDropped, Settles
<1>9. ASSUME NEW r \in RoomIds, HandleUserDisconnected(s, r) PROVE Fresh'
  BY <1>9 DEF HandleUserDisconnected, Untrack, Without
<1> QED BY <1>1, <1>3, <1>4, <1>5, <1>6, <1>7, <1>8, <1>9
        DEF HandleNewMessage, HandleBroadcastMessage

LEMMA ChatStep == ChatInv /\ Fresh /\ ChatNext => ChatInv'
<1> SUFFICES ASSUME ChatInv, Fresh, ChatNext PROVE ChatInv'
  OBVIOUS
<1>0. PICK s \in ChatSockets :
       \/ ChatConnect(s)
       \/ ChatDisconnect(s)
       \/ \E e \in Event : Receive(s, e)
       \/ \E r \in RoomIds :
           \/ JoinDenied(s, r)
           \/ HandleUserConnected(s, r)
           \/ HandleNewMessage(s, r)
           \/ HandleBroadcastMessage(s, r)
           \/ MessageDropped(s, r)
           \/ HandleUserDisconnected(s, r)
  BY DEF ChatNext
<1>1. CASE ChatConnect(s)
  <2>1. /\ chatConn' \in [ChatSockets -> SocketState]
        /\ s \notin DOMAIN users
        /\ \A t \in ChatSockets \ {s} : chatConn'[t] = chatConn[t]
        /\ events' \in [ChatSockets -> SUBSET Event]
    BY <1>1 DEF ChatConnect, ChatInv, ChatTypes, SocketState, Fresh
  <2>2. DOMAIN users \subseteq ChatSockets
    BY DEF ChatInv, ChatTypes, IsMap
  <2> QED BY <1>1, <2>1, <2>2, NothingElse DEF ChatConnect
<1>2. CASE ChatDisconnect(s)
  <2>1. events' \in [ChatSockets -> SUBSET Event]
    BY <1>2 DEF ChatDisconnect, ChatInv, ChatTypes
  <2> QED BY <1>2, <2>1, CloseKeeps DEF ChatDisconnect
<1>3. ASSUME NEW e \in Event, Receive(s, e) PROVE ChatInv'
  <2>1. events' \in [ChatSockets -> SUBSET Event] /\ chatConn' = chatConn
        /\ chatConn' \in [ChatSockets -> SocketState]
    BY <1>3 DEF Receive, ChatInv, ChatTypes
  <2> QED BY <1>3, <2>1, NothingElse DEF Receive
<1>4. ASSUME NEW r \in RoomIds, JoinDenied(s, r) PROVE ChatInv'
  <2>1. events' \in [ChatSockets -> SUBSET Event]
    BY <1>4, SettlesType DEF JoinDenied, ChatInv
  <2>2. CASE chatConn[s] = "open"
    BY <1>4, <2>1, <2>2, CloseKeeps DEF JoinDenied
  <2>3. CASE chatConn[s] # "open"
    <3>1. chatConn' \in [ChatSockets -> SocketState]
      BY <1>4, <2>3 DEF JoinDenied, ChatInv, ChatTypes
    <3> QED BY <1>4, <2>1, <2>3, <3>1, NothingElse DEF JoinDenied
  <2> QED BY <2>2, <2>3
<1>5. ASSUME NEW r \in RoomIds, HandleNewMessage(s, r) PROVE ChatInv'
  <2>1. \A t \in DOMAIN users : chatConn[t] = "open" /\ users[t] = r => t \in chatSio[r]
    BY DEF ChatInv, Listening
  <2> QED BY <1>5, <2>1, HandleMessageKeeps DEF HandleNewMessage
<1>6. ASSUME NEW r \in RoomIds, HandleBroadcastMessage(s, r) PROVE ChatInv'
  <2> DEFINE A == {t \in ChatSockets : chatConn[t] = "open"}
  <2>1. \A t \in DOMAIN users : chatConn[t] = "open" /\ users[t] = r => t \in A
    BY DEF ChatInv, ChatTypes, IsMap
  <2>2. HandleMessage(s, r, A)
    BY <1>6 DEF HandleBroadcastMessage
  <2> HIDE DEF A
  <2> QED BY <2>1, <2>2, HandleMessageKeeps
<1>7. ASSUME NEW r \in RoomIds, MessageDropped(s, r) PROVE ChatInv'
  <2>1. events' \in [ChatSockets -> SUBSET Event] /\ chatConn' \in [ChatSockets -> SocketState]
    BY <1>7, SettlesType DEF MessageDropped, ChatInv, ChatTypes
  <2> QED BY <1>7, <2>1, NothingElse DEF MessageDropped
<1> QED BY <1>0, <1>1, <1>2, <1>3, <1>4, <1>5, <1>6, <1>7,
           HandleUserConnectedKeeps, HandleUserDisconnectedKeeps

-----------------------------------------------------------------------------
(* Conversations grow *)

\* What one step may do to the messages of a room that keeps some.
Extends(m, n) == n = m \/ \E x \in Users : n = Append(m, x)

LEMMA ChatExtends ==
    ASSUME ChatInv, ChatNext, NEW r \in DOMAIN messages, r \in DOMAIN messages'
    PROVE  Extends(messages[r], messages'[r])
<1> USE DEF Extends
<1>0. PICK s \in ChatSockets :
       \/ ChatConnect(s)
       \/ ChatDisconnect(s)
       \/ \E e \in Event : Receive(s, e)
       \/ \E q \in RoomIds :
           \/ JoinDenied(s, q)
           \/ HandleUserConnected(s, q)
           \/ HandleNewMessage(s, q)
           \/ HandleBroadcastMessage(s, q)
           \/ MessageDropped(s, q)
           \/ HandleUserDisconnected(s, q)
  BY DEF ChatNext
<1>1. ASSUME messages' = messages PROVE Extends(messages[r], messages'[r])
  BY <1>1
<1>2. ASSUME Untrack(s) PROVE Extends(messages[r], messages'[r])
  BY <1>2 DEF Untrack, Without
<1>3. ASSUME Close(s) PROVE Extends(messages[r], messages'[r])
  BY <1>1, <1>2, <1>3 DEF Close
<1>4. ASSUME NEW q \in RoomIds, NEW audience, HandleMessage(s, q, audience)
      PROVE  Extends(messages[r], messages'[r])
  <2>1. CASE s \in DOMAIN users /\ users[s] = q
    <3>1. q \in DOMAIN messages /\ ChatOwner[s] \in Users
      BY <2>1 DEF ChatInv, ChatMapsAgree, Members
    <3>2. messages'[r] = IF r = q THEN Append(messages[q], ChatOwner[s]) ELSE messages[r]
      BY <1>4, <2>1, <3>1 DEF HandleMessage, Put
    <3> QED BY <3>1, <3>2
  <2> QED BY <1>1, <1>4, <2>1 DEF HandleMessage
<1>5. ASSUME NEW q \in RoomIds, HandleUserConnected(s, q)
      PROVE  Extends(messages[r], messages'[r])
  BY <1>5 DEF HandleUserConnected, Put
<1> QED BY <1>0, <1>1, <1>2, <1>3, <1>4, <1>5
        DEF ChatConnect, ChatDisconnect, Receive, JoinDenied, HandleNewMessage,
            HandleBroadcastMessage, MessageDropped, HandleUserDisconnected

LEMMA ExtendsGrows ==
    ASSUME NEW m \in Seq(Users), NEW n, Extends(m, n)
    PROVE  Len(m) <= Len(n) /\ SubSeq(n, 1, Len(m)) = m
<1>1. CASE n = m
  BY <1>1, SubSeqFull
<1>2. ASSUME NEW x \in Users, n = Append(m, x)
      PROVE  Len(m) <= Len(n) /\ SubSeq(n, 1, Len(m)) = m
  <2>1. Len(n) = Len(m) + 1 /\ Len(m) \in Nat /\ n \in Seq(Users)
    BY <1>2
  <2>2. \A i \in 1 .. Len(m) : n[i] = m[i]
    BY <1>2
  <2>3. \A i \in 1 .. Len(m) : n[i] \in Users
    BY <2>2
  <2>4. /\ SubSeq(n, 1, Len(m)) \in Seq(Users)
        /\ Len(SubSeq(n, 1, Len(m))) = Len(m)
        /\ \A i \in 1 .. Len(m) : SubSeq(n, 1, Len(m))[i] = n[i]
    BY <2>1, <2>3, SubSeqProperties
  <2>5. SubSeq(n, 1, Len(m)) = m
    BY <2>2, <2>4, SeqEqual
  <2> QED BY <2>1, <2>5
<1> QED BY <1>1, <1>2 DEF Extends

-----------------------------------------------------------------------------
(* The calls *)

CallTypes ==
    /\ callConn \in [CallSockets -> SocketState]
    /\ IsMap(peers, CallSockets, [room : RoomIds, ready : BOOLEAN])
    /\ IsMap(calls, RoomIds, SUBSET CallSockets)
    /\ callSio \in [RoomIds -> SUBSET CallSockets]
    /\ tile \in [CallSockets -> [present : SUBSET Users, ready : SUBSET Users]]

CallMapsAgree ==
    /\ \A s \in DOMAIN peers : s \in Members(calls, peers[s].room)
    /\ \A r \in DOMAIN calls : calls[r] # {}

\* Whoever is tracked in a call is connected and hears what is said of it.
Reachable == \A s \in DOMAIN peers : callConn[s] = "open" /\ s \in callSio[peers[s].room]

CallInv ==
    /\ CallTypes
    /\ CallMapsAgree
    /\ Reachable
    /\ PeersKnown

LEMMA CallInvInit == CallInit => CallInv
<1> SUFFICES ASSUME CallInit PROVE CallInv
  OBVIOUS
<1>1. DOMAIN peers = {} /\ DOMAIN calls = {}
  BY DEF CallInit
<1> QED BY <1>1 DEF CallInit, CallInv, CallTypes, CallMapsAgree, Reachable, PeersKnown,
                    IsMap, SocketState, NoTile

\* A room that loses s keeps its other members, and goes when it has none.
LEMMA RemovedMember ==
    ASSUME CallTypes, CallMapsAgree, NEW s \in CallSockets, NEW r \in DOMAIN calls,
           calls' = RemoveMember(calls, r, s)
    PROVE  /\ IsMap(calls', RoomIds, SUBSET CallSockets)
           /\ \A q \in DOMAIN calls' : calls'[q] # {}
           /\ \A q : Members(calls, q) \ {s} \subseteq Members(calls', q)
<1>1. CASE Members(calls, r) \ {s} = {}
  BY <1>1 DEF RemoveMember, Without, Members, CallTypes, CallMapsAgree, IsMap
<1>2. CASE Members(calls, r) \ {s} # {}
  BY <1>2 DEF RemoveMember, Put, Members, CallTypes, CallMapsAgree, IsMap
<1> QED BY <1>1, <1>2

\* Leaving a call: by user_left or by disconnecting.
LEMMA HangupKeeps ==
    ASSUME CallInv, NEW s \in DOMAIN peers, Hangup(s),
           callConn' \in [CallSockets -> SocketState],
           \A t \in CallSockets \ {s} : callConn'[t] = callConn[t],
           callSio' \in [RoomIds -> SUBSET CallSockets],
           \A q \in RoomIds : callSio'[q] \ {s} = callSio[q] \ {s}
    PROVE  CallInv'
<1> DEFINE r == peers[s].room
<1>1. /\ s \in CallSockets /\ r \in RoomIds /\ r \in DOMAIN calls
      /\ DOMAIN peers \subseteq CallSockets
      /\ \A t \in DOMAIN peers : peers[t] \in [room : RoomIds, ready : BOOLEAN]
  BY DEF CallInv, CallTypes, CallMapsAgree, IsMap, Members
<1>2. /\ DOMAIN peers' = DOMAIN peers \ {s}
      /\ \A t \in DOMAIN peers' : peers'[t] = peers[t]
  BY DEF Hangup, Without
<1>3. /\ IsMap(calls', RoomIds, SUBSET CallSockets)
      /\ \A q \in DOMAIN calls' : calls'[q] # {}
      /\ \A q : Members(calls, q) \ {s} \subseteq Members(calls', q)
  BY <1>1, RemovedMember DEF Hangup, CallInv
<1>4. /\ tile' \in [CallSockets -> [present : SUBSET Users, ready : SUBSET Users]]
      /\ \A t \in CallSockets \ {s} :
            \/ tile'[t] = tile[t]
            \/ /\ tile'[t].present = tile[t].present \ {CallOwner[s]}
               /\ tile'[t].ready = tile[t].ready \ {CallOwner[s]}
  <2>1. NoTile \in [present : SUBSET Users, ready : SUBSET Users]
    BY DEF NoTile
  <2>2. ASSUME NEW t \in CallSockets
        PROVE  TellLeft(r, s)[t] \in [present : SUBSET Users, ready : SUBSET Users]
    BY <1>1 DEF TellLeft, CallInv, CallTypes
  <2>3. /\ \A t \in CallSockets \ {s} : tile'[t] = TellLeft(r, s)[t]
        /\ tile'[s] = NoTile
        /\ tile' = [t \in CallSockets |-> tile'[t]]
    BY <1>1 DEF Hangup, TellLeft
  <2>4. tile' \in [CallSockets -> [present : SUBSET Users, ready : SUBSET Users]]
    BY <2>1, <2>2, <2>3
  <2>5. \A t \in CallSockets \ {s} :
            \/ tile'[t] = tile[t]
            \/ tile'[t] = [present |-> tile[t].present \ {CallOwner[s]},
                           ready |-> tile[t].ready \ {CallOwner[s]}]
    BY <2>3 DEF TellLeft
  <2> QED BY <2>4, <2>5
<1>5. CallTypes'
  BY <1>1, <1>2, <1>3, <1>4 DEF CallTypes, IsMap
<1>6. CallMapsAgree'
  BY <1>2, <1>3 DEF CallMapsAgree, CallInv
<1>7. Reachable'
  BY <1>1, <1>2 DEF Reachable, CallInv
<1>8. PeersKnown'
  <2> SUFFICES ASSUME NEW t \in DOMAIN peers', NEW u \in DOMAIN peers', t # u,
                      peers'[t].room = peers'[u].room,
                      \A x \in CallSockets : CallOwner[x] = CallOwner[u] => x = u
               PROVE  /\ CallOwner[u] \in tile'[t].present
                      /\ CallOwner[u] \in tile'[t].ready <=> peers'[u].ready
    BY DEF PeersKnown
  <2>1. /\ t \in DOMAIN peers /\ u \in DOMAIN peers /\ t \in CallSockets \ {s}
        /\ peers'[t] = peers[t] /\ peers'[u] = peers[u] /\ CallOwner[s] # CallOwner[u]
    BY <1>1, <1>2
  <2>2. /\ CallOwner[u] \in tile[t].present
        /\ CallOwner[u] \in tile[t].ready <=> peers[u].ready
    BY <2>1 DEF PeersKnown, CallInv
  <2> QED BY <1>4, <2>1, <2>2
<1> QED BY <1>5, <1>6, <1>7, <1>8 DEF CallInv

LEMMA CallDisconnectKeeps ==
    ASSUME CallInv, NEW s \in CallSockets, CallDisconnect(s)
    PROVE  CallInv'
<1>1. /\ callConn' \in [CallSockets -> SocketState]
      /\ \A t \in CallSockets \ {s} : callConn'[t] = callConn[t]
      /\ callSio' \in [RoomIds -> SUBSET CallSockets]
      /\ \A q \in RoomIds : callSio'[q] = callSio[q] \ {s}
  BY DEF CallDisconnect, LeaveAll, SocketState, CallInv, CallTypes
<1>2. CASE s \in DOMAIN peers
  BY <1>1, <1>2, HangupKeeps DEF CallDisconnect
<1>3. CASE s \notin DOMAIN peers
  <2>1. /\ UNCHANGED <<peers, calls>>
        /\ DOMAIN peers \subseteq CallSockets \ {s}
        /\ \A t \in DOMAIN peers : peers[t].room \in RoomIds
    BY <1>3 DEF CallDisconnect, CallInv, CallTypes, IsMap
  <2>2. /\ tile' \in [CallSockets -> [present : SUBSET Users, ready : SUBSET Users]]
        /\ \A t \in CallSockets \ {s} : tile'[t] = tile[t]
    BY <1>3 DEF CallDisconnect, CallInv, CallTypes, NoTile
  <2>3. CallTypes' /\ CallMapsAgree'
    BY <1>1, <2>1, <2>2 DEF CallInv, CallTypes, CallMapsAgree, IsMap, Members
  <2>4. Reachable'
    BY <1>1, <2>1 DEF CallInv, Reachable
  <2>5. PeersKnown'
    BY <2>1, <2>2 DEF CallInv, PeersKnown
  <2> QED BY <2>3, <2>4, <2>5 DEF CallInv
<1> QED BY <1>2, <1>3

LEMMA HandleUserLeftKeeps ==
    ASSUME CallInv, NEW s \in CallSockets, NEW r \in RoomIds, HandleUserLeft(s, r)
    PROVE  CallInv'
<1>1. /\ callSio' \in [RoomIds -> SUBSET CallSockets]
      /\ \A q \in RoomIds : callSio'[q] \ {s} = callSio[q] \ {s}
  BY DEF HandleUserLeft, CallInv, CallTypes
<1> QED BY <1>1, HangupKeeps DEF HandleUserLeft, InCall, CallInv, CallTypes

\* What the clients in a call are told when somebody joins it.
LEMMA HandleUserJoinedKeeps ==
    ASSUME CallInv, NEW s \in CallSockets, NEW r \in RoomIds, HandleUserJoined(s, r)
    PROVE  CallInv'
<1> DEFINE here == {t \in DOMAIN peers' : peers'[t].room = r}
<1> DEFINE streaming == {t \in here : peers'[t].ready}
<1>1. /\ DOMAIN peers \subseteq CallSockets
      /\ \A t \in DOMAIN peers : peers[t] \in [room : RoomIds, ready : BOOLEAN]
      /\ callConn' = callConn /\ callConn[s] = "open"
      /\ \A t \in CallSockets : CallOwner[t] \in Users
  BY DEF HandleUserJoined, CallInv, CallTypes, IsMap
<1>2. /\ DOMAIN peers' = DOMAIN peers \cup {s}
      /\ peers'[s] = [room |-> r, ready |-> FALSE]
      /\ \A t \in DOMAIN peers' \ {s} : t \in DOMAIN peers /\ peers'[t] = peers[t]
  BY DEF HandleUserJoined, Put
<1>3. /\ DOMAIN calls' = DOMAIN calls \cup {r}
      /\ calls'[r] = Members(calls, r) \cup {s}
      /\ \A q \in DOMAIN calls \ {r} : calls'[q] = calls[q]
  BY DEF HandleUserJoined, Put
<1>4. /\ callSio' \in [RoomIds -> SUBSET CallSockets]
      /\ \A q \in RoomIds : callSio[q] \subseteq callSio'[q]
      /\ s \in callSio'[r]
  BY <1>1 DEF HandleUserJoined, Enter, CallInv, CallTypes
<1>5. here \subseteq CallSockets /\ streaming \subseteq here
  BY <1>1, <1>2
<1>6. /\ \A t \in CallSockets : tile'[t] =
            CASE t = s -> [present |-> {CallOwner[x] : x \in here},
                           ready |-> {CallOwner[x] : x \in streaming}]
              [] t \in callSio[r] \ {s} -> [present |-> tile[t].present \cup {CallOwner[s]},
                                            ready |-> tile[t].ready \ {CallOwner[s]}]
              [] OTHER -> tile[t]
      /\ tile' = [t \in CallSockets |-> tile'[t]]
  BY DEF HandleUserJoined
<1> HIDE DEF here, streaming
<1>7. /\ tile'[s] = [present |-> {CallOwner[x] : x \in here},
                     ready |-> {CallOwner[x] : x \in streaming}]
      /\ \A t \in CallSockets \ {s} :
            tile'[t] = IF t \in callSio[r]
                       THEN [present |-> tile[t].present \cup {CallOwner[s]},
                             ready |-> tile[t].ready \ {CallOwner[s]}]
                       ELSE tile[t]
  BY <1>6
<1>8. \A t \in CallSockets \ {s} :
        /\ t \in callSio[r] => /\ tile'[t].present = tile[t].present \cup {CallOwner[s]}
                               /\ tile'[t].ready = tile[t].ready \ {CallOwner[s]}
                               /\ tile'[t] \in [present : SUBSET Users, ready : SUBSET Users]
        /\ t \notin callSio[r] => tile'[t] = tile[t]
  <2> SUFFICES ASSUME NEW t \in CallSockets \ {s}, t \in callSio[r]
               PROVE  /\ tile'[t].present = tile[t].present \cup {CallOwner[s]}
                      /\ tile'[t].ready = tile[t].ready \ {CallOwner[s]}
                      /\ tile'[t] \in [present : SUBSET Users, ready : SUBSET Users]
    BY <1>7
  <2>1. tile'[t] = [present |-> tile[t].present \cup {CallOwner[s]},
                    ready |-> tile[t].ready \ {CallOwner[s]}]
    BY <1>7
  <2>2. tile[t] \in [present : SUBSET Users, ready : SUBSET Users]
    BY DEF CallInv, CallTypes
  <2> QED BY <1>1, <2>1, <2>2
<1>9. CallTypes'
  <2>1. IsMap(peers', CallSockets, [room : RoomIds, ready : BOOLEAN])
    <3>1. peers'[s] \in [room : RoomIds, ready : BOOLEAN]
      BY <1>2
    <3>2. \A t \in DOMAIN peers' \ {s} : peers'[t] \in [room : RoomIds, ready : BOOLEAN]
      BY <1>1, <1>2
    <3> QED BY <1>1, <1>2, <3>1, <3>2 DEF IsMap
  <2>2. IsMap(calls', RoomIds, SUBSET CallSockets)
    BY <1>3 DEF IsMap, CallInv, CallTypes, Members
  <2>3. tile'[s] \in [present : SUBSET Users, ready : SUBSET Users]
    BY <1>1, <1>5, <1>7
  <2>4. \A t \in CallSockets \ {s} : tile'[t] \in [present : SUBSET Users, ready : SUBSET Users]
    <3>1. \A t \in CallSockets : tile[t] \in [present : SUBSET Users, ready : SUBSET Users]
      BY DEF CallInv, CallTypes
    <3> QED BY <1>8, <3>1
  <2>5. tile' \in [CallSockets -> [present : SUBSET Users, ready : SUBSET Users]]
    BY <1>6, <2>3, <2>4
  <2> QED BY <1>1, <1>4, <2>1, <2>2, <2>5 DEF CallTypes, CallInv
<1>10. CallMapsAgree'
  <2>1. \A q : Members(calls, q) \subseteq Members(calls', q)
    BY <1>3 DEF Members
  <2>2. s \in Members(calls', r) /\ \A q \in DOMAIN calls' : calls'[q] # {}
    BY <1>3 DEF CallInv, CallMapsAgree, Members
  <2> QED BY <1>2, <2>1, <2>2 DEF CallMapsAgree, CallInv
<1>11. Reachable'
  BY <1>1, <1>2, <1>4 DEF Reachable, CallInv
<1>12. PeersKnown'
  <2> SUFFICES ASSUME NEW t \in DOMAIN peers', NEW u \in DOMAIN peers', t # u,
                      peers'[t].room = peers'[u].room,
                      \A x \in CallSockets : CallOwner[x] = CallOwner[u] => x = u
               PROVE  /\ CallOwner[u] \in tile'[t].present
                      /\ CallOwner[u] \in tile'[t].ready <=> peers'[u].ready
    BY DEF PeersKnown
  <2>1. CASE t = s
    <3>1. u \in here /\ (u \in streaming <=> peers'[u].ready)
      BY <1>2, <2>1 DEF here, streaming
    <3>2. CallOwner[u] \in {CallOwner[x] : x \in streaming} <=> u \in streaming
      BY <1>5
    <3> QED BY <1>7, <2>1, <3>1, <3>2
  <2>2. CASE t # s
    <3>1. t \in DOMAIN peers /\ t \in CallSockets \ {s} /\ peers'[t] = peers[t]
      BY <1>1, <1>2, <2>2
    <3>2. CASE u = s
      <4>1. t \in callSio[r] /\ ~peers'[u].ready
        BY <1>2, <3>1, <3>2 DEF Reachable, CallInv
      <4> QED BY <1>8, <3>1, <3>2, <4>1
    <3>3. CASE u # s
      <4>1. u \in DOMAIN peers /\ peers'[u] = peers[u] /\ CallOwner[u] # CallOwner[s]
        BY <1>2, <3>3
      <4>2. /\ CallOwner[u] \in tile[t].present
            /\ CallOwner[u] \in tile[t].ready <=> peers[u].ready
        BY <3>1, <4>1 DEF PeersKnown, CallInv
      <4>3. CASE t \in callSio[r]
        BY <1>8, <3>1, <4>1, <4>2, <4>3
      <4>4. CASE t \notin callSio[r]
        BY <1>8, <3>1, <4>1, <4>2, <4>4
      <4> QED BY <4>3, <4>4
    <3> QED BY <3>2, <3>3
  <2> QED BY <2>1, <2>2
<1> QED BY <1>9, <1>10, <1>11, <1>12 DEF CallInv

LEMMA HandleStreamReadyKeeps ==
    ASSUME CallInv, NEW s \in CallSockets, NEW r \in RoomIds, HandleStreamReady(s, r)
    PROVE  CallInv'
<1>1. /\ DOMAIN peers \subseteq CallSockets
      /\ \A t \in DOMAIN peers : peers[t] \in [room : RoomIds, ready : BOOLEAN]
      /\ s \in DOMAIN peers /\ peers[s].room = r /\ CallOwner[s] \in Users
      /\ UNCHANGED <<callConn, calls, callSio>>
  BY DEF HandleStreamReady, InCall, CallInv, CallTypes, IsMap
<1>2. /\ DOMAIN peers' = DOMAIN peers
      /\ peers'[s] \in [room : RoomIds, ready : BOOLEAN]
      /\ peers'[s].room = r /\ peers'[s].ready
      /\ \A t \in DOMAIN peers \ {s} : peers'[t] = peers[t]
  BY <1>1 DEF HandleStreamReady
<1>3. /\ tile' \in [CallSockets -> [present : SUBSET Users, ready : SUBSET Users]]
      /\ \A t \in CallSockets :
            /\ tile'[t].present = tile[t].present
            /\ tile'[t].ready = IF t \in callSio[r] THEN tile[t].ready \cup {CallOwner[s]}
                                                    ELSE tile[t].ready
  <2>1. /\ tile' = [t \in CallSockets |-> tile'[t]]
        /\ \A t \in CallSockets :
              tile'[t] = IF t \in callSio[r]
                         THEN [tile[t] EXCEPT !.ready = @ \cup {CallOwner[s]}] ELSE tile[t]
    BY DEF HandleStreamReady
  <2>2. \A t \in CallSockets : tile[t] \in [present : SUBSET Users, ready : SUBSET Users]
    BY DEF CallInv, CallTypes
  <2>3. \A t \in CallSockets :
            /\ tile'[t] \in [present : SUBSET Users, ready : SUBSET Users]
            /\ tile'[t].present = tile[t].present
            /\ tile'[t].ready = IF t \in callSio[r] THEN tile[t].ready \cup {CallOwner[s]}
                                                    ELSE tile[t].ready
    <3> SUFFICES ASSUME NEW t \in CallSockets
                 PROVE  /\ tile'[t] \in [present : SUBSET Users, ready : SUBSET Users]
                        /\ tile'[t].present = tile[t].present
                        /\ tile'[t].ready = IF t \in callSio[r]
                                            THEN tile[t].ready \cup {CallOwner[s]} ELSE tile[t].ready
      OBVIOUS
    <3>1. CASE t \in callSio[r]
      <4>1. tile'[t] = [tile[t] EXCEPT !.ready = @ \cup {CallOwner[s]}]
        BY <2>1, <3>1
      <4> QED BY <1>1, <2>2, <3>1, <4>1
    <3>2. CASE t \notin callSio[r]
      BY <2>1, <2>2, <3>2
    <3> QED BY <3>1, <3>2
  <2> QED BY <2>1, <2>3
<1>4. CallTypes'
  BY <1>1, <1>2, <1>3 DEF CallTypes, CallInv, IsMap
<1>5. CallMapsAgree' /\ Reachable'
  BY <1>1, <1>2 DEF CallMapsAgree, Reachable, CallInv
<1>6. PeersKnown'
  <2> SUFFICES ASSUME NEW t \in DOMAIN peers', NEW u \in DOMAIN peers', t # u,
                      peers'[t].room = peers'[u].room,
                      \A x \in CallSockets : CallOwner[x] = CallOwner[u] => x = u
               PROVE  /\ CallOwner[u] \in tile'[t].present
                      /\ CallOwner[u] \in tile'[t].ready <=> peers'[u].ready
    BY DEF PeersKnown
  <2>1. t \in DOMAIN peers /\ u \in DOMAIN peers /\ peers[t].room = peers[u].room
        /\ peers[t].room = peers'[t].room
    BY <1>1, <1>2
  <2>2. /\ CallOwner[u] \in tile[t].present
        /\ CallOwner[u] \in tile[t].ready <=> peers[u].ready
    BY <2>1 DEF PeersKnown, CallInv
  <2>3. CASE u = s
    <3>1. t \in callSio[r] /\ t \in CallSockets
      BY <1>1, <2>1, <2>3 DEF Reachable, CallInv
    <3> QED BY <1>2, <1>3, <2>2, <2>3, <3>1
  <2>4. CASE u # s
    <3>1. CallOwner[u] # CallOwner[s] /\ peers'[u] = peers[u] /\ t \in CallSockets
      BY <1>1, <1>2, <2>1, <2>4
    <3>2. CallOwner[u] \in tile'[t].ready <=> CallOwner[u] \in tile[t].ready
      BY <1>3, <3>1
    <3> QED BY <1>3, <2>2, <3>1, <3>2
  <2> QED BY <2>3, <2>4
<1> QED BY <1>4, <1>5, <1>6 DEF CallInv

LEMMA CallStep == CallInv /\ CallNext => CallInv'
<1> SUFFICES ASSUME CallInv, CallNext PROVE CallInv'
  OBVIOUS
<1>1. ASSUME NEW s \in CallSockets, CallConnect(s) PROVE CallInv'
  <2>1. /\ s \notin DOMAIN peers
        /\ callConn' \in [CallSockets -> SocketState]
        /\ \A t \in CallSockets \ {s} : callConn'[t] = callConn[t]
        /\ DOMAIN peers \subseteq CallSockets
        /\ UNCHANGED <<peers, calls, callSio, tile>>
    BY <1>1 DEF CallConnect, CallInv, CallTypes, Reachable, SocketState, IsMap
  <2> QED BY <2>1 DEF CallInv, CallTypes, CallMapsAgree, Reachable, PeersKnown, IsMap, Members
<1>2. ASSUME UNCHANGED connections PROVE CallInv'
  BY <1>2 DEF connections, CallInv, CallTypes, CallMapsAgree, Reachable, PeersKnown, IsMap, Members
<1>3. \A s \in CallSockets, r \in RoomIds :
        /\ HandleScreenShareStarted(s, r) \/ HandleScreenShareStopped(s, r) => UNCHANGED connections
        /\ \A off \in BOOLEAN : HandleTrackStateChanged(s, r, off) => UNCHANGED connections
        /\ \A u \in Users : HandleWebRTCSignal(s, r, u) => UNCHANGED connections
  BY DEF HandleScreenShareStarted, HandleScreenShareStopped, HandleTrackStateChanged,
         HandleWebRTCSignal
<1> QED BY <1>1, <1>2, <1>3, CallDisconnectKeeps, HandleUserJoinedKeeps, HandleUserLeftKeeps,
           HandleStreamReadyKeeps DEF CallNext

-----------------------------------------------------------------------------
(* What is passed on in a call *)

MediaRow == [signal : SUBSET Users, screen : SUBSET Users, muted : SUBSET Users]

\* The users of whom s holds anything.
Held(s) == media[s].signal \cup media[s].screen \cup media[s].muted

OnlyOwner(t) == \A x \in CallSockets : CallOwner[x] = CallOwner[t] => x = t

\* A user with one socket is on its own list.
SelfShown == \A s \in DOMAIN peers : OnlyOwner(s) => CallOwner[s] \in tile[s].present

MediaInv ==
    /\ media \in [CallSockets -> MediaRow]
    /\ SelfShown
    /\ MediaOfPeers

LEMMA MediaInvInit == CallInit => MediaInv
<1> SUFFICES ASSUME CallInit PROVE MediaInv
  OBVIOUS
<1>1. DOMAIN peers = {}
  BY DEF CallInit
<1> QED BY <1>1 DEF CallInit, MediaInv, MediaRow, NoMedia, SelfShown, MediaOfPeers

\* A socket joins, leaves or is cut off: the others' lists change with what
\* they hold.
LEMMA MediaFollows ==
    ASSUME CallInv, MediaInv, NEW s \in CallSockets,
           media' \in [CallSockets -> MediaRow],
           \A t \in DOMAIN peers' \ {s} :
               t \in DOMAIN peers /\ peers'[t].room = peers[t].room,
           \A t \in CallSockets \ {s}, q \in RoomIds : t \in callSio[q] => t \in callSio'[q],
           DOMAIN peers' \subseteq CallSockets,
           \A t \in CallSockets \ {s} :
               \/ tile[t].present \subseteq tile'[t].present /\ Held(t)' \subseteq Held(t)
               \/ /\ tile[t].present \ {CallOwner[s]} \subseteq tile'[t].present
                  /\ Held(t)' \subseteq Held(t) \ {CallOwner[s]},
           s \in DOMAIN peers' => Held(s)' = {} /\ CallOwner[s] \in tile'[s].present
    PROVE  MediaInv'
<1>1. SelfShown'
  <2> SUFFICES ASSUME NEW t \in DOMAIN peers', OnlyOwner(t)
               PROVE  CallOwner[t] \in tile'[t].present
    BY DEF SelfShown, OnlyOwner
  <2>1. CASE t = s
    BY <2>1
  <2>2. CASE t # s
    <3>1. t \in DOMAIN peers /\ t \in CallSockets \ {s} /\ CallOwner[t] # CallOwner[s]
      BY <2>2 DEF OnlyOwner
    <3>2. CallOwner[t] \in tile[t].present
      BY <3>1 DEF MediaInv, SelfShown
    <3> QED BY <3>1, <3>2
  <2> QED BY <2>1, <2>2
<1>2. MediaOfPeers'
  <2> SUFFICES ASSUME NEW t \in DOMAIN peers', NEW u \in CallSockets,
                      \A q \in RoomIds : t \in callSio'[q] => q = peers'[t].room,
                      OnlyOwner(u), CallOwner[u] \in Held(t)'
               PROVE  CallOwner[u] \in tile'[t].present
    BY DEF MediaOfPeers, OnlyOwner, Held
  <2>1. t \in CallSockets \ {s} /\ t \in DOMAIN peers /\ peers'[t].room = peers[t].room
    OBVIOUS
  <2>2. CallOwner[u] \in Held(t) => CallOwner[u] \in tile[t].present
    BY <2>1 DEF MediaInv, MediaOfPeers, OnlyOwner, Held
  <2> QED BY <2>1, <2>2
<1> QED BY <1>1, <1>2 DEF MediaInv

\* s, who is in a call, is heard by some of those who hear its room.
LEMMA MediaPassedOn ==
    ASSUME CallInv, MediaInv, NEW s \in DOMAIN peers, UNCHANGED connections,
           media' \in [CallSockets -> MediaRow],
           \A t \in CallSockets :
               \/ Held(t)' \subseteq Held(t)
               \/ t \in callSio[peers[s].room] /\ Held(t)' \subseteq Held(t) \cup {CallOwner[s]}
    PROVE  MediaInv'
<1>1. /\ UNCHANGED <<peers, callSio, tile>>
      /\ DOMAIN peers \subseteq CallSockets /\ peers[s].room \in RoomIds
  BY DEF connections, CallInv, CallTypes, IsMap
<1>2. SelfShown'
  BY <1>1 DEF MediaInv, SelfShown, OnlyOwner
<1>3. MediaOfPeers'
  <2> SUFFICES ASSUME NEW t \in DOMAIN peers, NEW u \in CallSockets,
                      \A q \in RoomIds : t \in callSio[q] => q = peers[t].room,
                      OnlyOwner(u), CallOwner[u] \in Held(t)'
               PROVE  CallOwner[u] \in tile[t].present
    BY <1>1 DEF MediaOfPeers, OnlyOwner, Held
  <2>1. CASE CallOwner[u] \in Held(t)
    BY <2>1 DEF MediaInv, MediaOfPeers, OnlyOwner, Held
  <2>2. CASE CallOwner[u] \notin Held(t)
    <3>1. t \in callSio[peers[s].room] /\ CallOwner[u] = CallOwner[s]
      BY <1>1, <2>2
    <3>2. u = s /\ peers[t].room = peers[s].room
      BY <1>1, <3>1 DEF OnlyOwner
    <3>3. CASE t = s
      BY <3>2, <3>3 DEF MediaInv, SelfShown
    <3>4. CASE t # s
      BY <3>2, <3>4 DEF CallInv, PeersKnown, OnlyOwner
    <3> QED BY <3>3, <3>4
  <2> QED BY <2>1, <2>2
<1> QED BY <1>2, <1>3 DEF MediaInv

LEMMA HangupDrops ==
    ASSUME CallInv, MediaInv, NEW s \in DOMAIN peers, Hangup(s),
           \A q \in RoomIds : callSio'[q] \ {s} = callSio[q] \ {s}
    PROVE  MediaInv'
<1> DEFINE r == peers[s].room
<1>1. s \in CallSockets /\ r \in RoomIds /\ DOMAIN peers \subseteq CallSockets
  BY DEF CallInv, CallTypes, IsMap
<1>2. /\ DOMAIN peers' = DOMAIN peers \ {s}
      /\ \A t \in DOMAIN peers' : peers'[t] = peers[t]
  BY DEF Hangup, Without
<1>3. \A t \in CallSockets : media[t] \in MediaRow
  BY DEF MediaInv
<1>4. NoMedia \in MediaRow
  BY DEF NoMedia, MediaRow
<1>5. \A t \in CallSockets : DropMedia(r, s)[t] \in MediaRow
  BY <1>3 DEF DropMedia, MediaRow
<1>6. /\ media' = [t \in CallSockets |-> media'[t]]
      /\ media'[s] = NoMedia
      /\ \A t \in CallSockets \ {s} : media'[t] = DropMedia(r, s)[t]
  BY <1>1 DEF Hangup, DropMedia
<1>7. media' \in [CallSockets -> MediaRow]
  BY <1>4, <1>5, <1>6
<1>8. \A t \in CallSockets \ {s} : tile'[t] = TellLeft(r, s)[t]
  BY <1>1 DEF Hangup, TellLeft
<1>9. ASSUME NEW t \in CallSockets \ {s}
      PROVE  \/ tile[t].present \subseteq tile'[t].present /\ Held(t)' \subseteq Held(t)
             \/ /\ tile[t].present \ {CallOwner[s]} \subseteq tile'[t].present
                /\ Held(t)' \subseteq Held(t) \ {CallOwner[s]}
  <2>1. CASE t \in callSio[r]
    <3>1. tile'[t] = [present |-> tile[t].present \ {CallOwner[s]},
                      ready |-> tile[t].ready \ {CallOwner[s]}]
      BY <1>8, <2>1 DEF TellLeft
    <3>2. media'[t] = [signal |-> media[t].signal \ {CallOwner[s]},
                       screen |-> media[t].screen \ {CallOwner[s]},
                       muted |-> media[t].muted \ {CallOwner[s]}]
      BY <1>6, <2>1 DEF DropMedia
    <3>3. tile'[t].present = tile[t].present \ {CallOwner[s]}
      BY <3>1
    <3>4. Held(t)' = Held(t) \ {CallOwner[s]}
      BY <3>2 DEF Held
    <3> QED BY <3>3, <3>4
  <2>2. CASE t \notin callSio[r]
    <3>1. tile'[t] = tile[t] /\ media'[t] = media[t]
      BY <1>6, <1>8, <2>2 DEF TellLeft, DropMedia
    <3> QED BY <3>1 DEF Held
  <2> QED BY <2>1, <2>2
<1>10. \A t \in CallSockets \ {s}, q \in RoomIds : t \in callSio[q] => t \in callSio'[q]
  OBVIOUS
<1> HIDE DEF r
<1> QED BY <1>1, <1>2, <1>7, <1>9, <1>10, MediaFollows

LEMMA MediaStep == CallInv /\ MediaInv /\ CallNext => MediaInv'
<1> SUFFICES ASSUME CallInv, MediaInv, CallNext PROVE MediaInv'
  OBVIOUS
<1>1. /\ DOMAIN peers \subseteq CallSockets
      /\ \A t \in DOMAIN peers : peers[t].room \in RoomIds
      /\ \A t \in CallSockets : media[t] \in MediaRow /\ CallOwner[t] \in Users
      /\ NoMedia \in MediaRow
  BY DEF CallInv, CallTypes, IsMap, MediaInv, NoMedia, MediaRow
<1>2. ASSUME NEW s \in CallSockets, CallConnect(s) PROVE MediaInv'
  BY <1>2 DEF CallConnect, MediaInv, SelfShown, OnlyOwner, MediaOfPeers
<1>3. ASSUME NEW s \in CallSockets, CallDisconnect(s) PROVE MediaInv'
  <2>1. \A q \in RoomIds : callSio'[q] = callSio[q] \ {s}
    BY <1>3 DEF CallDisconnect, LeaveAll
  <2>2. CASE s \in DOMAIN peers
    BY <1>3, <2>1, <2>2, HangupDrops DEF CallDisconnect
  <2>3. CASE s \notin DOMAIN peers
    <3>1. /\ UNCHANGED peers
          /\ tile' = [tile EXCEPT ![s] = NoTile]
          /\ media' = [media EXCEPT ![s] = NoMedia]
      BY <1>3, <2>3 DEF CallDisconnect
    <3>2. media' \in [CallSockets -> MediaRow]
      BY <1>1, <3>1 DEF MediaInv
    <3>3. \A t \in CallSockets \ {s} : tile'[t] = tile[t] /\ media'[t] = media[t]
      BY <3>1 DEF CallInv, CallTypes, MediaInv
    <3>4. \A t \in CallSockets \ {s} : Held(t)' = Held(t)
      BY <3>3 DEF Held
    <3> QED BY <1>1, <2>1, <2>3, <3>1, <3>2, <3>3, <3>4, MediaFollows
  <2> QED BY <2>2, <2>3
<1>4. ASSUME NEW s \in CallSockets, NEW r \in RoomIds, HandleUserLeft(s, r) PROVE MediaInv'
  <2>1. \A q \in RoomIds : callSio'[q] \ {s} = callSio[q] \ {s}
    BY <1>4 DEF HandleUserLeft, CallInv, CallTypes
  <2> QED BY <1>4, <2>1, HangupDrops DEF HandleUserLeft, InCall
<1>5. ASSUME NEW s \in CallSockets, NEW r \in RoomIds, HandleUserJoined(s, r) PROVE MediaInv'
  <2> DEFINE here == {t \in DOMAIN peers' : peers'[t].room = r}
  <2>1. /\ DOMAIN peers' = DOMAIN peers \cup {s}
        /\ peers'[s].room = r
        /\ \A t \in DOMAIN peers' \ {s} : t \in DOMAIN peers /\ peers'[t] = peers[t]
    BY <1>5 DEF HandleUserJoined, Put
  <2>2. /\ media' \in [CallSockets -> MediaRow]
        /\ media'[s] = NoMedia
        /\ \A t \in CallSockets \ {s} : media'[t] = media[t]
    BY <1>1, <1>5 DEF HandleUserJoined, MediaInv
  <2>3. Held(s)' = {} /\ \A t \in CallSockets \ {s} : Held(t)' = Held(t)
    BY <2>2 DEF Held, NoMedia
  <2>4. \A t \in CallSockets, q \in RoomIds : t \in callSio[q] => t \in callSio'[q]
    BY <1>5 DEF HandleUserJoined, Enter, CallInv, CallTypes
  <2>5. \A t \in CallSockets : tile'[t].present =
            IF t = s THEN {CallOwner[x] : x \in here}
            ELSE IF t \in callSio[r] THEN tile[t].present \cup {CallOwner[s]}
            ELSE tile[t].present
    BY <1>5 DEF HandleUserJoined
  <2>6. s \in here
    BY <2>1
  <2> HIDE DEF here
  <2>7. CallOwner[s] \in tile'[s].present
    BY <2>5, <2>6
  <2>8. \A t \in CallSockets \ {s} : tile[t].present \subseteq tile'[t].present
    BY <2>5
  <2> QED BY <1>1, <2>1, <2>2, <2>3, <2>4, <2>7, <2>8, MediaFollows
<1>6. ASSUME NEW s \in CallSockets, NEW r \in RoomIds, HandleStreamReady(s, r) PROVE MediaInv'
  <2>1. /\ DOMAIN peers' = DOMAIN peers
        /\ \A t \in DOMAIN peers : peers'[t].room = peers[t].room
        /\ UNCHANGED <<media, callSio>>
    BY <1>6 DEF HandleStreamReady, CallInv, CallTypes, IsMap
  <2>2. \A t \in CallSockets : tile'[t].present = tile[t].present
    BY <1>6 DEF HandleStreamReady, CallInv, CallTypes
  <2> QED BY <1>1, <2>1, <2>2 DEF MediaInv, SelfShown, OnlyOwner, MediaOfPeers
<1>7. ASSUME NEW s \in CallSockets, NEW r \in RoomIds, NEW u \in Users,
             HandleWebRTCSignal(s, r, u)
      PROVE  MediaInv'
  <2>1. /\ UNCHANGED connections
        /\ s \in DOMAIN peers /\ peers[s].room = r
    BY <1>7 DEF HandleWebRTCSignal, InCall
  <2>2. PICK t \in DOMAIN peers :
            /\ peers[t].room = r
            /\ media' = [media EXCEPT ![t].signal = @ \cup {CallOwner[s]}]
    BY <1>7 DEF HandleWebRTCSignal, InCall
  <2>3. t \in CallSockets /\ t \in callSio[r]
    BY <1>1, <2>2 DEF CallInv, Reachable
  <2>4. /\ media' \in [CallSockets -> MediaRow]
        /\ \A x \in CallSockets \ {t} : media'[x] = media[x]
        /\ media'[t].signal = media[t].signal \cup {CallOwner[s]}
        /\ media'[t].screen = media[t].screen /\ media'[t].muted = media[t].muted
    BY <1>1, <2>2, <2>3 DEF MediaInv, MediaRow
  <2>5. /\ Held(t)' \subseteq Held(t) \cup {CallOwner[s]}
        /\ \A x \in CallSockets \ {t} : Held(x)' \subseteq Held(x)
    BY <2>4 DEF Held
  <2> QED BY <2>1, <2>3, <2>4, <2>5, MediaPassedOn
<1>8. ASSUME NEW s \in CallSockets, NEW r \in RoomIds,
             \/ HandleScreenShareStarted(s, r)
             \/ HandleScreenShareStopped(s, r)
             \/ \E off \in BOOLEAN : HandleTrackStateChanged(s, r, off)
      PROVE  MediaInv'
  <2>1. /\ UNCHANGED connections
        /\ s \in DOMAIN peers /\ peers[s].room = r
    BY <1>8 DEF HandleScreenShareStarted, HandleScreenShareStopped, HandleTrackStateChanged, InCall
  <2>2. /\ media' \in [CallSockets -> MediaRow]
        /\ \A t \in CallSockets : t \in callSio[r] \/ media'[t] = media[t]
        /\ \A t \in CallSockets :
              /\ media'[t].signal = media[t].signal
              /\ media'[t].screen \subseteq media[t].screen \cup {CallOwner[s]}
              /\ media'[t].muted \subseteq media[t].muted \cup {CallOwner[s]}
    <3>1. CASE HandleScreenShareStarted(s, r)
      BY <1>1, <3>1 DEF HandleScreenShareStarted, MediaInv, MediaRow
    <3>2. CASE HandleScreenShareStopped(s, r)
      BY <1>1, <3>2 DEF HandleScreenShareStopped, MediaInv, MediaRow
    <3>3. ASSUME NEW off \in BOOLEAN, HandleTrackStateChanged(s, r, off)
          PROVE  <2>2!1 /\ <2>2!2 /\ <2>2!3
      BY <1>1, <3>3 DEF HandleTrackStateChanged, MediaInv, MediaRow
    <3> QED BY <1>8, <3>1, <3>2, <3>3
  <2>3. \A t \in CallSockets :
            \/ Held(t)' \subseteq Held(t)
            \/ t \in callSio[r] /\ Held(t)' \subseteq Held(t) \cup {CallOwner[s]}
    BY <2>2 DEF Held
  <2> QED BY <2>1, <2>2, <2>3, MediaPassedOn
<1> QED BY <1>2, <1>3, <1>4, <1>5, <1>6, <1>7, <1>8 DEF CallNext

-----------------------------------------------------------------------------
(* The theorems *)

IInv == ChatInv /\ Fresh /\ CallInv /\ MediaInv

LEMMA IInvInvariant == Spec => []IInv
<1>1. Init => IInv
  BY ChatInvInit, CallInvInit, MediaInvInit DEF Init, IInv, Fresh, ChatInit
<1>2. IInv /\ [Next]_realtimeVars => IInv'
  <2> SUFFICES ASSUME IInv, [Next]_realtimeVars PROVE IInv'
    OBVIOUS
  <2>1. ASSUME UNCHANGED chatVars PROVE ChatInv' /\ Fresh'
    BY <2>1 DEF chatVars, IInv, ChatInv, ChatTypes, ChatMapsAgree, Listening, OneSocketPerUser,
                SeesConversation, RosterComplete, Fresh, Members
  <2>2. ASSUME UNCHANGED callVars PROVE CallInv' /\ MediaInv'
    BY <2>2 DEF callVars, IInv, CallInv, CallTypes, CallMapsAgree, Reachable, PeersKnown, Members,
                MediaInv, SelfShown, OnlyOwner, MediaOfPeers
  <2>3. ASSUME ChatNext PROVE ChatInv' /\ Fresh'
    BY <2>3, ChatStep, FreshStep DEF IInv, ChatInv
  <2>4. ASSUME CallNext PROVE CallInv' /\ MediaInv'
    BY <2>4, CallStep, MediaStep DEF IInv
  <2>5. ChatNext \/ UNCHANGED chatVars
    BY DEF Next, realtimeVars
  <2>6. CallNext \/ UNCHANGED callVars
    BY DEF Next, realtimeVars
  <2> QED BY <2>1, <2>2, <2>3, <2>4, <2>5, <2>6 DEF IInv
<1> QED BY <1>1, <1>2, PTL DEF Spec

(* Whatever the clients send, in whatever order the tokens' users are read *)
(* from the database, the Maps of both gateways hold known sockets and     *)
(* rooms only (chat.gateway.ts 42-43, webrtc.gateway.ts 38-39).            *)
THEOREM RealtimeTypes == Spec => []TypeOK
<1>1. IInv => TypeOK
  <2> SUFFICES ASSUME IInv PROVE TypeOK
    OBVIOUS
  <2>1. \A s \in ChatSockets : /\ page[s].room \in RoomIds \cup {NoRoom}
                               /\ page[s].roster \subseteq Users
                               /\ page[s].log \in Seq(Users)
    BY PageParts DEF IInv, ChatInv, ChatTypes
  <2> QED BY <2>1 DEF TypeOK, IInv, ChatInv, ChatTypes, CallInv, CallTypes, MediaInv, MediaRow
<1> QED BY <1>1, IInvInvariant, PTL

(* Who is tracked in a room is a member of it, no empty room is kept and a *)
(* chat room has a history exactly while it has members, across every way  *)
(* of joining, leaving and disconnecting (chat.gateway.ts 72-97, 183-193,  *)
(* 246-256; webrtc.gateway.ts 62-71, 97-102).                              *)
THEOREM MapsAlwaysAgree == Spec => []MapsAgree
<1>1. IInv => MapsAgree
  BY DEF MapsAgree, IInv, ChatInv, ChatMapsAgree, CallInv, CallMapsAgree
<1> QED BY <1>1, IInvInvariant, PTL

(* Joins of one user that wait for the database together still leave one   *)
(* tracked socket of that user in the room (chat.gateway.ts 152-183).      *)
THEOREM OneSocketStays == Spec => []OneSocketPerUser
<1>1. IInv => OneSocketPerUser
  BY DEF IInv, ChatInv
<1> QED BY <1>1, IInvInvariant, PTL

(* The history sent on entering and the broadcasts since then add up to    *)
(* the messages the gateway keeps, for everyone tracked in a room          *)
(* (chat.gateway.ts 171-221, 308-314, 365-371).                            *)
THEOREM ConversationIsSeen == Spec => []SeesConversation
<1>1. IInv => SeesConversation
  BY DEF IInv, ChatInv
<1> QED BY <1>1, IInvInvariant, PTL

(* A late disconnection of a user's old socket or tab never strikes out    *)
(* the user's live one from another member's list (chat.gateway.ts 75-82,  *)
(* 152-169, 207-216).                                                      *)
THEOREM RosterIsComplete == Spec => []RosterComplete
<1>1. IInv => RosterComplete
  BY DEF IInv, ChatInv
<1> QED BY <1>1, IInvInvariant, PTL

(* Peers of a call agree with the gateway on who is there and whose stream *)
(* is ready (webrtc.gateway.ts 88-125, 180-196).                           *)
THEOREM PeersStayKnown == Spec => []PeersKnown
<1>1. IInv => PeersKnown
  BY DEF IInv, CallInv
<1> QED BY <1>1, IInvInvariant, PTL

(* A client holds connections, screens and tracks only of users it         *)
(* displays, however signals cross with joining and leaving                *)
(* (webrtc.gateway.ts 54-59, 229-241, 260-263, 307-311).                   *)
THEOREM MediaIsOfPeers == Spec => []MediaOfPeers
<1>1. IInv => MediaOfPeers
  BY DEF IInv, MediaInv
<1> QED BY <1>1, IInvInvariant, PTL

(* What was said in a room is only ever added to, until its last member    *)
(* leaves (chat.gateway.ts 85-92, 246-253, 308-311).                       *)
THEOREM ConversationOnlyGrows == Spec => ConversationGrows
<1> DEFINE Grows ==
        \A r \in DOMAIN messages :
            \/ /\ r \in DOMAIN messages'
               /\ Len(messages[r]) <= Len(messages'[r])
               /\ SubSeq(messages'[r], 1, Len(messages[r])) = messages[r]
            \/ /\ r \notin DOMAIN messages'
               /\ \A s \in DOMAIN users' : users'[s] # r
<1>1. IInv /\ IInv' /\ [Next]_realtimeVars => [Grows]_chatVars
  <2> SUFFICES ASSUME IInv, IInv', ChatNext PROVE Grows
    BY DEF Next, realtimeVars
  <2> TAKE r \in DOMAIN messages
  <2>1. messages[r] \in Seq(Users)
    BY DEF IInv, ChatInv, ChatTypes, IsMap
  <2>2. CASE r \in DOMAIN messages'
    BY <2>1, <2>2, ChatExtends, ExtendsGrows DEF IInv
  <2>3. CASE r \notin DOMAIN messages'
    BY <2>3 DEF IInv, ChatInv, ChatMapsAgree, Members
  <2> QED BY <2>2, <2>3
<1> QED BY <1>1, IInvInvariant, PTL DEF Spec, ConversationGrows
=============================================================================
