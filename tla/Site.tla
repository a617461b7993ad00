-------------------------------- MODULE Site --------------------------------
(***************************************************************************)
(* The site around the bookings: accounts, sign-up codes, articles with    *)
(* likes, comments and notifications, push tokens, chat histories, paged   *)
(* lists and the pool of connections.  Accounts are shared: what Identity  *)
(* does to them the others find when they next look.                       *)
(***************************************************************************)
EXTENDS Identity, EmailCodes, Comments, Devices, ChatHistory, Lists, Pool

people  == identityVars
posts   == <<articlesVars, commentsVars, inboxVars>>

Init ==
    /\ IdentityInit /\ EmailCodesInit
    /\ ArticlesInit /\ CommentsInit /\ InboxInit
    /\ DevicesInit /\ HistoryInit /\ ListsInit /\ PoolInit

People == IdentityNext /\ UNCHANGED <<emailCodesVars, posts, devicesVars, historyVars, listsVars, poolVars>>
SignUps == EmailCodesNext /\ UNCHANGED <<people, posts, devicesVars, historyVars, listsVars, poolVars>>
Posts == CommentsNext /\ UNCHANGED <<people, emailCodesVars, devicesVars, historyVars, listsVars, poolVars>>
Browse == DevicesNext /\ UNCHANGED <<people, emailCodesVars, posts, historyVars, listsVars, poolVars>>
Chats == HistoryNext /\ UNCHANGED <<people, emailCodesVars, posts, devicesVars, listsVars, poolVars>>
Pages == ListsNext /\ UNCHANGED <<people, emailCodesVars, posts, devicesVars, historyVars, poolVars>>
Queries ==
    PoolNext /\ UNCHANGED <<people, emailCodesVars, posts, devicesVars, historyVars, listsVars>>

Next == People \/ SignUps \/ Posts \/ Browse \/ Chats \/ Pages \/ Queries

siteVars == <<people, emailCodesVars, posts, devicesVars, historyVars, listsVars, poolVars>>

Spec == Init /\ [][Next]_siteVars

-----------------------------------------------------------------------------
(* Every variable always holds a value of its type: rows belong to         *)
(* accounts that exist, requests in flight are about rows that were there  *)
(* (user.entity.ts, article.entity.ts, comment.entity.ts, like.entity.ts,  *)
(* fcm.entity.ts, notification.entity.ts, chat-message.schema.ts).         *)
TypeOK ==
    /\ account \in [Users -> Account \cup {NoRow}]
    /\ social \subseteq Emails \X {u \in Users : Exists(u)}
    /\ \A c \in Clients : req[c].op \in {"idle", "join", "create", "link", "loaded",
                                         "save", "apply", "accept", "reject", "withdraw"}
    /\ \A c \in Clients : "user" \in DOMAIN req[c] => Exists(req[c].user)
    /\ mentorToken \cup published \cup accepted \cup withdrawn \cup raced
         \subseteq {u \in Users : Exists(u)}
    /\ stored \in [Addresses -> Codes \cup {NoCode}]
    /\ mailbox \cup verified \subseteq Addresses \X Codes
    /\ inbox \subseteq [to : Users, about : LikeIds \cup CommentIds, read : BOOLEAN]
    /\ \A a \in ArticleIds :
         article[a] # None => article[a].author \in Users \cup {None} /\ article[a].views \in Nat
    /\ \A l \in LikeIds :
         likes[l] # None => l \in used /\ likes[l].on \in ArticleIds \cup {None}
    /\ \A c \in CommentIds :
         comments[c] # None => c \in used /\ comments[c].on \in ArticleIds \cup {None}
    /\ \A e \in edits : e.by \in Users /\ e.comment \in CommentIds \cap used
    /\ tokens \subseteq [id : 0 .. nextToken - 1, user : Users, token : Browsers]
    /\ owner \in [Browsers -> Users \cup {Nobody}]
    /\ kept \subseteq 1 .. sent
    /\ at \in [Ids -> 0 .. clock]
    /\ \A i \in RowIds : Present(i) => i <= created
    /\ lent \in [Connections -> Requests \cup {NoOne}]
    /\ queued \subseteq Requests
    /\ handler \in [Requests -> Handlers \cup {"none"}]
    /\ outside \in [Requests -> 0 .. 2]
=============================================================================
