---------------------------- MODULE ChatHistory ----------------------------
(***************************************************************************)
(* The messages of a room kept in MongoDB and read page by page, newest    *)
(* first (chat.service.ts 85-213, chat-message.schema.ts).  A message gets *)
(* its id and its createdAt when it is made and can be read when it is     *)
(* kept; pages are sorted by createdAt, the cursor is an id.               *)
(***************************************************************************)
EXTENDS Integers, FiniteSets

CONSTANTS
    MaxSent,    \* bound: messages ever made
    Limit       \* messages on a page

ASSUME ChatHistoryAssumption == MaxSent \in Nat /\ Limit \in Nat \ {0}

VARIABLES
    sent,       \* ids given so far: 1 .. sent
    at,         \* id -> the millisecond of its createdAt
    kept,       \* ids of the messages MongoDB holds
    clock,      \* the current millisecond
    page        \* the reader: [state, cursor, shown, start]

historyVars == <<sent, at, kept, clock, page>>

Ids == 1 .. MaxSent
Top == MaxSent + 1   \* the cursor of a reader who has no page yet

Closed == [state |-> "closed", cursor |-> Top, start |-> {}, shown |-> [m \in Ids |-> 0]]

HistoryInit ==
    /\ sent = 0 /\ clock = 0
    /\ at = [m \in Ids |-> 0]
    /\ kept = {}
    /\ page = Closed

\* sendMessage, in two steps; messages are made in the order of their ids.
SendMessage(later) ==
    /\ sent < MaxSent
    /\ sent' = sent + 1
    /\ clock' = clock + later
    /\ at' = [at EXCEPT ![sent'] = clock']
    /\ UNCHANGED <<kept, page>>

StoreMessage(m) ==
    /\ m \in 1 .. sent /\ m \notin kept
    /\ kept' = kept \cup {m}
    /\ UNCHANGED <<sent, at, clock, page>>

\* The reader opens the room: what is kept now is what he may expect.
OpenRoom ==
    /\ page.state = "closed"
    /\ page' = [Closed EXCEPT !.state = "more", !.start = kept]
    /\ UNCHANGED <<sent, at, kept, clock>>

\* Mutant of Older: $lte instead of $lt.
OlderOrSame == {m \in kept : m <= page.cursor}

Older == {m \in kept : m < page.cursor}

\* The newest of a set, by createdAt: messages of one millisecond in any order.
Newest(d, ms) == d \subseteq ms /\ \A m \in d, n \in ms \ d : at[n] <= at[m]

Oldest(d) == {m \in d : \A n \in d : at[m] <= at[n]}

\* getRoomMessages with a page to follow: the cursor is its oldest message.
FullPage(d, c) ==
    /\ page.state = "more"
    /\ Cardinality(Older) > Limit
    /\ Cardinality(d) = Limit /\ Newest(d, Older)
    /\ c \in Oldest(d)
    /\ page' = [page EXCEPT !.cursor = c,
                            !.shown = [m \in Ids |-> IF m \in d THEN @[m] + 1 ELSE @[m]]]
    /\ UNCHANGED <<sent, at, kept, clock>>

LastPage ==
    /\ page.state = "more"
    /\ Cardinality(Older) <= Limit
    /\ page' = [page EXCEPT !.state = "read",
                            !.shown = [m \in Ids |-> IF m \in Older THEN @[m] + 1 ELSE @[m]]]
    /\ UNCHANGED <<sent, at, kept, clock>>

CloseRoom ==
    /\ page.state # "closed"
    /\ page' = Closed
    /\ UNCHANGED <<sent, at, kept, clock>>

HistoryNext ==
    \/ OpenRoom \/ LastPage \/ CloseRoom
    \/ \E later \in {0, 1} : SendMessage(later)
    \/ \E m \in Ids : StoreMessage(m)
    \/ \E d \in SUBSET Older : \E c \in d : FullPage(d, c)
-----------------------------------------------------------------------------
\* m is the only message of its millisecond.
Alone(m) == \A n \in 1 .. sent : at[n] = at[m] => n = m

(* Turning pages shows every message that was there at the start exactly   *)
(* once, whatever is made and kept meanwhile, as long as no other has      *)
(* its createdAt: a page ends where the next begins, though one is sorted  *)
(* by time and the other found by id (chat.service.ts 105-125).            *)
HistoryComplete ==
    \A m \in page.start :
        Alone(m) => page.shown[m] = IF page.state = "read" \/ m >= page.cursor
                                    THEN 1 ELSE 0
=============================================================================
