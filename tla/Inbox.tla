------------------------------- MODULE Inbox -------------------------------
(***************************************************************************)
(* The rows of notifications (notification.service.ts 29-47, 111-191,      *)
(* 279-300).  A row is told apart by what it is about: the comment or the  *)
(* like its link names.  Every operation is one statement.                 *)
(***************************************************************************)
EXTENDS Members

VARIABLES
    inbox,      \* the rows: [to, about, read]
    dismissed   \* history: <<to, about>> of rows their owner deleted

inboxVars == <<inbox, dismissed>>

InboxInit == inbox = {} /\ dismissed = {}

\* NotificationService.save, as another service calls it.
Notify(u, about) ==
    /\ inbox' = inbox \cup {[to |-> u, about |-> about, read |-> FALSE]}
    /\ UNCHANGED dismissed

Delete(u, rows) ==
    /\ inbox' = inbox \ rows
    /\ dismissed' = dismissed \cup {<<u, r.about>> : r \in {x \in rows : x.to = u}}

Read(rows) ==
    /\ inbox' = (inbox \ rows) \cup {[r EXCEPT !.read = TRUE] : r \in rows}
    /\ UNCHANGED dismissed

Mine(u) == {r \in inbox : r.to = u}

\* By id and owner: 404 for the row of somebody else.
MarkAsRead(u, about) == Read({r \in Mine(u) : r.about = about})
DeleteNotification(u, about) == Delete(u, {r \in Mine(u) : r.about = about})

MarkAllAsRead(u) == Read({r \in Mine(u) : ~r.read})
DeleteAll(u) == Delete(u, Mine(u))

InboxNext ==
    \E u \in Users :
        \/ MarkAllAsRead(u) \/ DeleteAll(u)
        \/ \E r \in inbox : MarkAsRead(u, r.about) \/ DeleteNotification(u, r.about)
=============================================================================
