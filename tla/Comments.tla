------------------------------ MODULE Comments ------------------------------
(***************************************************************************)
(* Comments on articles and their replies, with the notification a comment *)
(* sends (article.service.ts 333-354, 400-467, comment.entity.ts).         *)
(***************************************************************************)
EXTENDS Articles

CONSTANT CommentIds

ASSUME CommentsAssumption == None \notin CommentIds /\ CommentIds \cap LikeIds = {}

VARIABLES
    comments,   \* id -> [by, on, parent], or None
    edits       \* saves of edited comments under way: [by, comment, no]

commentsVars == <<comments, edits>>

CommentsInit ==
    /\ comments = [c \in CommentIds |-> None]
    /\ edits = {}

There == {c \in CommentIds : comments[c] # None}

\* The rows a DELETE takes with it: replies, and replies to replies.
Thread(cs) ==
    {c \in There :
        \A s \in SUBSET There :
            cs \subseteq s /\ (\A d \in There : comments[d].parent \in s => d \in s)
            => c \in s}

Gone(cs) == comments' = [c \in CommentIds |->
                IF c \in Thread(cs) THEN None ELSE comments[c]]

-----------------------------------------------------------------------------
\* createComment is one transaction: the article, its author and the parent,
\* of whatever article, are read ...
BeginComment(u, a, p) ==
    /\ article[a] # None /\ Alive(u)
    /\ p = None \/ p \in There
    /\ Begins(u, [op |-> "comment", on |-> a, parent |-> p, author |-> Author(a)])
    /\ UNCHANGED <<rows, views, toggles, commentsVars, inboxVars>>

\* Mutant of CommitComment: the one who wrote it is told.
CommitTellingWriter(u, c) ==
    LET r == act[u]
    IN  /\ r.op = "comment"
        /\ c \notin used
        /\ article[r.on] # None
        /\ r.parent = None \/ r.parent \in There
        /\ r.author # None
        /\ comments' = [comments EXCEPT ![c] = [by |-> u, on |-> r.on, parent |-> r.parent]]
        /\ used' = used \cup {c}
        /\ IF r.author # u THEN Notify(u, c) ELSE UNCHANGED inboxVars
        /\ Ends(u)
        /\ UNCHANGED <<article, likes, views, toggles, edits>>

\* ... and the comment and the notification stored.  The inner parent hides
\* the outer one: it is always the article's author who is told.  Without an
\* author the handler throws and the transaction is rolled back (Fails).
CommitComment(u, c) ==
    LET r == act[u]
    IN  /\ r.op = "comment"
        /\ c \notin used
        /\ article[r.on] # None
        /\ r.parent = None \/ r.parent \in There
        /\ r.author # None
        /\ comments' = [comments EXCEPT ![c] = [by |-> u, on |-> r.on, parent |-> r.parent]]
        /\ used' = used \cup {c}
        /\ IF r.author # u THEN Notify(r.author, c) ELSE UNCHANGED inboxVars
        /\ Ends(u)
        /\ UNCHANGED <<article, likes, views, toggles, edits>>

DeleteComment(u, c) ==
    /\ c \in There /\ comments[c].by = u /\ Alive(u)
    /\ Begins(u, Quiet)
    /\ Gone({c})
    /\ UNCHANGED <<rows, views, toggles, edits, inboxVars>>

\* updateComment answers before its save, which nobody waits for: ...
UpdateComment(u, c) ==
    /\ c \in There /\ comments[c].by = u /\ Alive(u)
    /\ Begins(u, Quiet)
    /\ edits' = edits \cup {[by |-> u, comment |-> c, no |-> acts']}
    /\ UNCHANGED <<rows, views, toggles, comments, inboxVars>>

\* ... a comment deleted meanwhile is inserted again, with its author and
\* neither article nor parent.
SaveComment(e) ==
    /\ comments' = [comments EXCEPT ![e.comment] =
                        IF @ # None THEN @ ELSE [by |-> e.by, on |-> None, parent |-> None]]
    /\ edits' = edits \ {e}
    /\ UNCHANGED <<articlesVars, inboxVars>>

\* An article that goes takes its comments with it.
Cascade == Gone({c \in There : comments[c].on # None /\ article[comments[c].on] # None
                               /\ article'[comments[c].on] = None})

CommentsNext ==
    \/ ArticlesNext /\ Cascade /\ UNCHANGED edits
    \/ InboxNext /\ UNCHANGED <<articlesVars, commentsVars>>
    \/ \E e \in edits : SaveComment(e)
    \/ \E u \in Users :
        \/ \E a \in ArticleIds, p \in CommentIds \cup {None} : BeginComment(u, a, p)
        \/ \E c \in CommentIds : CommitComment(u, c) \/ DeleteComment(u, c)
                                 \/ UpdateComment(u, c)
-----------------------------------------------------------------------------
\* Who was told of a comment, whether the notification is still there or not.
Told == {n \in {<<r.to, r.about>> : r \in inbox} \cup dismissed : n[2] \in CommentIds}
ToldOf(c) == {u \in Users : <<u, c>> \in Told}

(* A comment on an article, itself no reply, has told the article's author *)
(* and nobody else, or nobody if the author wrote it: however the handler  *)
(* that read the author, edits saved late, deletions, an article inserted  *)
(* again or the authors' withdrawals overlap.  Of no comment more than one *)
(* is told, whatever becomes of it.  Who is told of a reply is not claimed *)
(* here: the code tells the article's author, its comment says the         *)
(* parent's (article.service.ts 428-452, 193-207, 342-353,                 *)
(* notification.service.ts 36-46, 142-154, 279-285).                       *)
CommentsAreTold ==
    /\ \A c \in There, a \in ArticleIds :
        /\ comments[c].on = a /\ comments[c].parent = None
        /\ article[a] # None /\ article[a].author # None
        => ToldOf(c) = {article[a].author} \ {comments[c].by}
    /\ \A c \in CommentIds : \A u, v \in ToldOf(c) : u = v
=============================================================================
