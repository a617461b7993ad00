------------------------------ MODULE Devices ------------------------------
(***************************************************************************)
(* The push tokens of browsers (notification.service.ts 48-86, 214-277).   *)
(* A browser waits for the answer to one registration before it asks for   *)
(* another; pushes and other browsers' registrations run in between.       *)
(***************************************************************************)
EXTENDS Members

CONSTANTS
    Browsers,     \* each has one token
    Pushes,       \* sendFcm calls that may be running at once
    Nobody,       \* no user
    MaxTokens     \* bound: rows of user_fcm_tokens ever inserted

ASSUME DevicesAssumption == Nobody \notin Users /\ MaxTokens \in Nat

VARIABLES
    tokens,     \* user_fcm_tokens: [id, user, token]
    nextToken,  \* ids given so far
    live,       \* browsers whose token Firebase knows and has refused no message to
    asking,     \* browser -> the registration in flight
    owner,      \* history: browser -> who the last answer says has it
    push        \* push -> the rows it still has to send to

devicesVars == <<tokens, nextToken, live, asking, owner, push>>

Resting == [op |-> "resting"]

DevicesInit ==
    /\ tokens = {} /\ nextToken = 0 /\ live = Browsers
    /\ asking = [b \in Browsers |-> Resting]
    /\ owner = [b \in Browsers |-> Nobody]
    /\ push = [p \in Pushes |-> {}]

RowsOf(b) == {t \in tokens : t.token = b}

\* updateFcmToken: nothing to do if the user has the token ...
Register(u, b) ==
    /\ asking[b] = Resting
    /\ Alive(u)
    /\ IF \E t \in RowsOf(b) : t.user = u
       THEN owner' = [owner EXCEPT ![b] = u] /\ UNCHANGED asking
       ELSE asking' = [asking EXCEPT ![b] = [op |-> "look", user |-> u]] /\ UNCHANGED owner
    /\ UNCHANGED <<tokens, nextToken, live, push>>

\* Mutant of LookOther: the other user's row is left.
KeepOther(b) ==
    /\ asking[b].op = "look"
    /\ asking' = [asking EXCEPT ![b].op = "insert"]
    /\ UNCHANGED <<tokens, nextToken, live, owner, push>>

\* ... otherwise some row of the token is looked up, its user joined: the
\* handler throws when that account is closed (Refuse).
LookOther(b) ==
    /\ asking[b].op = "look"
    /\ \/ /\ RowsOf(b) = {}
          /\ asking' = [asking EXCEPT ![b].op = "insert"]
       \/ \E t \in RowsOf(b) :
            /\ Alive(t.user)
            /\ asking' = [asking EXCEPT ![b].op =
                              IF t.user = asking[b].user THEN "insert" ELSE "delete"]
    /\ UNCHANGED <<tokens, nextToken, live, owner, push>>

DeleteOther(b) ==
    /\ asking[b].op = "delete"
    /\ tokens' = tokens \ RowsOf(b)
    /\ asking' = [asking EXCEPT ![b].op = "insert"]
    /\ UNCHANGED <<nextToken, live, owner, push>>

InsertToken(b) ==
    /\ asking[b].op = "insert"
    /\ nextToken < MaxTokens
    /\ tokens' = tokens \cup {[id |-> nextToken, user |-> asking[b].user, token |-> b]}
    /\ nextToken' = nextToken + 1
    /\ asking' = [asking EXCEPT ![b] = Resting]
    /\ owner' = [owner EXCEPT ![b] = asking[b].user]
    /\ UNCHANGED <<live, push>>

\* An error or a restart: the browser knows it is not registered.
Refuse(b) ==
    /\ asking[b] # Resting
    /\ asking' = [asking EXCEPT ![b] = Resting]
    /\ owner' = [owner EXCEPT ![b] = Nobody]
    /\ UNCHANGED <<tokens, nextToken, live, push>>

\* removeToken, on logging out: one's own row only.
RemoveToken(u, b) ==
    /\ asking[b] = Resting
    /\ tokens' = {t \in tokens : ~(t.token = b /\ t.user = u)}
    /\ tokens' # tokens
    /\ owner' = [owner EXCEPT ![b] = Nobody]
    /\ UNCHANGED <<nextToken, live, asking, push>>

-----------------------------------------------------------------------------
(* sendFcm: the user's rows are read once, then sent to one by one *)

StartPush(p, u) ==
    /\ push[p] = {}
    /\ Alive(u)
    /\ push' = [push EXCEPT ![p] = {t \in tokens : t.user = u}]
    /\ push'[p] # {}
    /\ UNCHANGED <<tokens, nextToken, live, asking, owner>>

\* Delivered, or failed for some passing reason.
Push(p, t) ==
    /\ t \in push[p]
    /\ push' = [push EXCEPT ![p] = @ \ {t}]
    /\ UNCHANGED <<tokens, nextToken, live, asking, owner>>

\* Firebase knows the token no more, or refuses the message to it (either of
\* the two codes): the row, by its id, is deleted.
DropToken(p, t) ==
    /\ t \in push[p] /\ t.token \notin live
    /\ push' = [push EXCEPT ![p] = @ \ {t}]
    /\ tokens' = {x \in tokens : x.id # t.id}
    /\ UNCHANGED <<nextToken, live, asking, owner>>

\* The browser's token is forgotten, or from now on messages may be refused.
Unsubscribe(b) ==
    /\ b \in live
    /\ live' = live \ {b}
    /\ UNCHANGED <<tokens, nextToken, asking, owner, push>>

DevicesNext ==
    \/ \E b \in Browsers :
        \/ LookOther(b) \/ DeleteOther(b) \/ InsertToken(b) \/ Refuse(b) \/ Unsubscribe(b)
        \/ \E u \in Users : Register(u, b) \/ RemoveToken(u, b)
    \/ \E p \in Pushes :
        \/ \E u \in Users : StartPush(p, u)
        \/ \E t \in push[p] : Push(p, t) \/ DropToken(p, t)
-----------------------------------------------------------------------------
(* A browser has at most one row, and while Firebase knows its token, has  *)
(* refused it no message and the browser was told it is registered, that   *)
(* row is the user's it was registered for last: the one before gets no    *)
(* push there, whatever pushes with rows read long ago delete in between   *)
(* (notification.service.ts 220-246, 78-83).                               *)
OneUserPerBrowser ==
    \A b \in Browsers :
        /\ \A s, t \in RowsOf(b) : s = t
        /\ b \in live /\ asking[b] = Resting /\ owner[b] # Nobody
           => \E t \in RowsOf(b) : t.user = owner[b]
=============================================================================
