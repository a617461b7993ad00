------------------------------ MODULE Articles ------------------------------
(***************************************************************************)
(* Articles with their view counts and likes (article.service.ts 125-308), *)
(* and the notification a like sends.  A user waits for the answer to one  *)
(* request before making the next; the others' requests run in between, at *)
(* every await.  A save is a select and an update, as in Members.          *)
(***************************************************************************)
EXTENDS Inbox

CONSTANTS
    Authors,      \* users with a mentor's row
    ArticleIds, LikeIds,
    None,         \* NULL, in a column or in place of a row
    MaxExpiries,  \* bound: view marks of a user that expire or are lost
    MaxActs       \* bound: requests begun in a behaviour

ASSUME ArticlesAssumption ==
    /\ Authors \subseteq Users
    /\ None \notin Users \cup ArticleIds \cup [user : Users, on : ArticleIds \cup {None}]
    /\ MaxExpiries \in Nat /\ MaxActs \in Nat

VARIABLES
    article,    \* id -> [author, views], or None
    likes,      \* id -> [user, on], or None; on = None once detached
    used,       \* ids of articles and likes given so far
    marks,      \* Redis: <<user, article>> counted within a day
    act,        \* user -> the request in flight
    acts,       \* requests begun so far
    days,       \* history: user -> marks of hers that expired or were lost
    counted,    \* history: <<user, article, day>> a view was due for
    liked,      \* history: <<user, article>> whose last toggle stored a like
    shaken      \* history: articles whose view was saved around a toggle

rows == <<article, likes, used>>
views == <<marks, days, counted>>
toggles == <<liked, shaken>>
articlesVars == <<rows, views, toggles, act, acts>>

Quiet == [op |-> "quiet"]

ArticlesInit ==
    /\ article = [a \in ArticleIds |-> None]
    /\ likes = [l \in LikeIds |-> None]
    /\ act = [u \in Users |-> Quiet]
    /\ days = [u \in Users |-> 0]
    /\ acts = 0
    /\ used = {} /\ marks = {} /\ counted = {} /\ liked = {} /\ shaken = {}

Begins(u, r) ==
    /\ act[u] = Quiet
    /\ acts < MaxActs
    /\ acts' = acts + 1
    /\ act' = [act EXCEPT ![u] = r]

Goes(u, r) == act' = [act EXCEPT ![u] = r] /\ UNCHANGED acts
Ends(u) == Goes(u, Quiet)

\* relations: ['author'] gives null for an author whose account is closed.
Author(a) ==
    LET u == article[a].author
    IN  IF u # None /\ Alive(u) THEN u ELSE None

LikesOf(a) == {l \in LikeIds : likes[l] # None /\ likes[l].on = a}

-----------------------------------------------------------------------------
(* The article's row *)

CreateArticle(u, a) ==
    /\ Begins(u, Quiet)
    /\ u \in Authors /\ Alive(u)
    /\ a \notin used
    /\ article' = [article EXCEPT ![a] = [author |-> u, views |-> 0]]
    /\ used' = used \cup {a}
    /\ UNCHANGED <<likes, views, toggles>>

\* getArticleDetail loads the article with its author and its likes ...
ReadArticle(u, a) ==
    /\ Exists(u) /\ article[a] # None
    /\ Begins(u, [op |-> "read", on |-> a, likes |-> LikesOf(a),
                  row |-> [article[a] EXCEPT !.author = Author(a)]])
    /\ UNCHANGED <<rows, views, toggles>>

\* ... and counts the view of a reader without a mark.
CountView(u) ==
    /\ act[u].op = "read"
    /\ <<u, act[u].on>> \notin marks
    /\ Goes(u, [act[u] EXCEPT !.op = "select", !.row.views = @ + 1])
    /\ counted' = counted \cup {<<u, act[u].on, days[u]>>}
    /\ UNCHANGED <<rows, marks, days, toggles>>

\* updateArticle loads no likes, and its save leaves them alone.
UpdateArticle(u, a) ==
    /\ article[a] # None /\ Author(a) = u
    /\ Begins(u, [op |-> "select", on |-> a, row |-> article[a]])
    /\ UNCHANGED <<rows, views, toggles>>

Counts(r) == "likes" \in DOMAIN r

\* save: the select ...
SelectArticle(u) ==
    /\ act[u].op = "select"
    /\ LET a == act[u].on
       IN  IF Counts(act[u])
           THEN Goes(u, [op |-> "update", on |-> a, row |-> act[u].row, base |-> article[a],
                         likes |-> act[u].likes, baseLikes |-> LikesOf(a)])
           ELSE Goes(u, [op |-> "update", on |-> a, row |-> act[u].row, base |-> article[a]])
    /\ UNCHANGED <<rows, views, toggles>>

\* The likes a view had loaded become the article's, the others nobody's.
Relinked(r) ==
    [l \in LikeIds |->
        CASE likes[l] # None /\ l \in r.likes \ r.baseLikes -> [likes[l] EXCEPT !.on = r.on]
          [] likes[l] # None /\ l \in r.baseLikes \ r.likes -> [likes[l] EXCEPT !.on = None]
          [] OTHER -> likes[l]]

\* ... and the update, or the insert of a row the select did not find.
SaveArticle(u) ==
    LET r == act[u]
        now == article[r.on]
    IN  /\ r.op = "update"
        /\ r.base = None => now = None
        /\ article' = [article EXCEPT ![r.on] =
               IF r.base = None THEN r.row
               ELSE IF now = None THEN None ELSE Saved(now, r.row, r.base)]
        /\ likes' = IF Counts(r) /\ article'[r.on] # None THEN Relinked(r) ELSE likes
        /\ Goes(u, IF Counts(r) THEN [op |-> "mark", on |-> r.on] ELSE Quiet)
        /\ UNCHANGED <<used, views, toggles>>

\* Mutant of MarkViewed: the key is not saved.
MarkNothing(u) ==
    /\ act[u].op = "mark"
    /\ Ends(u)
    /\ UNCHANGED <<rows, views, toggles>>

\* saveCount, for a day.
MarkViewed(u) ==
    /\ act[u].op = "mark"
    /\ marks' = marks \cup {<<u, act[u].on>>}
    /\ Ends(u)
    /\ UNCHANGED <<rows, days, counted, toggles>>

NewDay(u) == days[u] < MaxExpiries /\ days' = [days EXCEPT ![u] = @ + 1]

ExpireMark(u, a) ==
    /\ <<u, a>> \in marks
    /\ marks' = marks \ {<<u, a>>}
    /\ NewDay(u)
    /\ UNCHANGED <<rows, counted, toggles, act, acts>>

\* A request ends early: an answer, an error or a restart.
Fails(u) ==
    /\ act[u] # Quiet
    /\ IF act[u].op = "mark" THEN NewDay(u) ELSE UNCHANGED days
    /\ Ends(u)
    /\ UNCHANGED <<rows, marks, counted, toggles>>

\* The row's likes go with it; a detached like stays.
DeleteArticle(u, a) ==
    /\ article[a] # None /\ Author(a) = u
    /\ Begins(u, Quiet)
    /\ article' = [article EXCEPT ![a] = None]
    /\ likes' = [l \in LikeIds |-> IF l \in LikesOf(a) THEN None ELSE likes[l]]
    /\ liked' = {p \in liked : p[2] # a}
    /\ UNCHANGED <<used, views, shaken>>

-----------------------------------------------------------------------------
(* likedArticle *)

LikesBy(u, a) == {l \in LikesOf(a) : likes[l].user = u}

\* Mutant of FindLike: the like there is is not looked for.
FindNoLike(u, a) ==
    /\ Alive(u) /\ article[a] # None
    /\ Begins(u, [op |-> "like", on |-> a, author |-> Author(a)])
    /\ UNCHANGED <<rows, views, toggles>>

\* The user, the article and the like there is are read ...
FindLike(u, a) ==
    /\ Alive(u) /\ article[a] # None
    /\ \/ /\ LikesBy(u, a) = {}
          /\ Begins(u, [op |-> "like", on |-> a, author |-> Author(a)])
       \/ \E l \in LikesBy(u, a) : Begins(u, [op |-> "unlike", on |-> a, like |-> l])
    /\ UNCHANGED <<rows, views, toggles>>

Shakes(a) ==
    shaken' = IF \E v \in Users : act[v].op \in {"read", "select", "update"}
                                  /\ act[v].on = a /\ Counts(act[v])
              THEN shaken \cup {a} ELSE shaken

\* ... the like is removed,
RemoveLike(u) ==
    /\ act[u].op = "unlike"
    /\ likes' = [likes EXCEPT ![act[u].like] = None]
    /\ liked' = liked \ {<<u, act[u].on>>}
    /\ Shakes(act[u].on)
    /\ Ends(u)
    /\ UNCHANGED <<article, used, views>>

\* or stored: its article must still be there,
StoreLike(u, l) ==
    /\ act[u].op = "like"
    /\ l \notin used
    /\ article[act[u].on] # None
    /\ likes' = [likes EXCEPT ![l] = [user |-> u, on |-> act[u].on]]
    /\ used' = used \cup {l}
    /\ liked' = liked \cup {<<u, act[u].on>>}
    /\ Shakes(act[u].on)
    /\ Goes(u, [op |-> "tell", to |-> act[u].author, about |-> l])
    /\ UNCHANGED <<article, views>>

\* and the author told, in a statement of its own.
TellLike(u) ==
    /\ act[u].op = "tell"
    /\ act[u].to \notin {None, u}
    /\ Notify(act[u].to, act[u].about)
    /\ Ends(u)
    /\ UNCHANGED <<rows, views, toggles>>

ArticlesNext ==
    \/ /\ UNCHANGED inboxVars
       /\ \E u \in Users :
            \/ CountView(u) \/ SelectArticle(u) \/ SaveArticle(u) \/ MarkViewed(u)
            \/ Fails(u) \/ RemoveLike(u)
            \/ \E l \in LikeIds : StoreLike(u, l)
            \/ \E a \in ArticleIds :
                \/ CreateArticle(u, a) \/ ReadArticle(u, a) \/ UpdateArticle(u, a)
                \/ ExpireMark(u, a) \/ DeleteArticle(u, a) \/ FindLike(u, a)
    \/ \E u \in Users : TellLike(u)
-----------------------------------------------------------------------------
(* An article's views are never more than the readers it had in a day,     *)
(* counted again when their mark expired or was lost, however views,       *)
(* edits, deletions and stale saves overlap: what a save writes is what    *)
(* some handler read plus its own view, and a reader with a mark adds      *)
(* nothing (article.service.ts 193-207).                                   *)
ViewsNotInflated ==
    \A a \in ArticleIds :
        article[a] # None =>
            article[a].views <= Cardinality({k \in counted : k[2] = a})

(* Unless a view's save overlapped a toggle, a reader who waits for her    *)
(* answers has exactly the like her last toggle left: no second like, none *)
(* left behind (article.service.ts 259-279).                               *)
LikeStands ==
    \A a \in ArticleIds \ shaken, u \in Users :
        article[a] # None =>
            Cardinality(LikesBy(u, a)) = (IF <<u, a>> \in liked THEN 1 ELSE 0)
=============================================================================
