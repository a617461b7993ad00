--------------------------- MODULE IdentityProofs ---------------------------
(***************************************************************************)
(* Whoever publishes a mentoring session was accepted as a mentor, and     *)
(* what was decided about an account stands: for any number of accounts    *)
(* and requests, with rows loaded long before they are saved, and restarts *)
(* in between.                                                             *)
(***************************************************************************)
EXTENDS Site, TLAPS

\* The columns a handler has changed, whichever they are, fit the table.
FitsTable(row) ==
    /\ "email" \in DOMAIN row => row.email \in Emails \cup {Freed}
    /\ "nick" \in DOMAIN row => row.nick \in Nicks \cup {Random}
    /\ "role" \in DOMAIN row => row.role \in Role
    /\ "status" \in DOMAIN row => row.status \in Status
    /\ "deleted" \in DOMAIN row => row.deleted \in BOOLEAN

Writing == {"loaded", "save", "apply", "accept", "reject", "withdraw"}

\* A request that may still give its account the mentor's role ...
Promotes(r) == "role" \in DOMAIN r.row /\ r.row.role = "mentor"

\* ... approves it, or loaded the row when the account had the role.
RequestFits(r) ==
    /\ r.op = "join" => r.email \in Emails /\ r.nick \in Nicks
    /\ r.op = "create" => r.email \in Emails
    /\ r.op \in Writing =>
        /\ r.user \in Users /\ Exists(r.user)
        /\ FitsTable(r.row)
        /\ Promotes(r) /\ r.op # "accept" => r.user \in accepted

AccountsInv ==
    /\ account \in [Users -> Account \cup {NoRow}]
    /\ req = [c \in Clients |-> req[c]]
    /\ \A c \in Clients : RequestFits(req[c])
    /\ \A u \in Users : Exists(u) /\ account[u].role = "mentor" => u \in accepted
    /\ mentorToken \subseteq accepted
    /\ published \subseteq accepted

USE RegisteredAssumption

LEMMA IdleFits == RequestFits(Idle)
BY DEF RequestFits, Idle, Writing

\* What save writes is a row of the table, and the role comes from the row
\* that is saved or the row that is there.
LEMMA SavedRow ==
    ASSUME NEW now \in Account, NEW row, NEW base, FitsTable(row)
    PROVE  /\ Saved(now, row, base) \in Account
           /\ Saved(now, row, base).role = "mentor" =>
                \/ now.role = "mentor"
                \/ "role" \in DOMAIN row /\ row.role = "mentor"
<1> DEFINE new == Saved(now, row, base)
<1>1. /\ new = [c \in {"email", "nick", "role", "status", "deleted"} |->
                    IF c \in DOMAIN row THEN IF row[c] # base[c] THEN row[c] ELSE now[c]
                    ELSE now[c]]
      /\ now.email \in Emails \cup {Freed} /\ now.nick \in Nicks \cup {Random}
      /\ now.role \in Role /\ now.status \in Status /\ now.deleted \in BOOLEAN
  BY DEF Saved, Account
<1>2. /\ new.email \in Emails \cup {Freed} /\ new.nick \in Nicks \cup {Random}
      /\ new.role \in Role /\ new.status \in Status /\ new.deleted \in BOOLEAN
  BY <1>1 DEF FitsTable
<1>3. new = [email |-> new.email, nick |-> new.nick, role |-> new.role,
             status |-> new.status, deleted |-> new.deleted]
  BY <1>1
<1>4. new \in Account
  BY <1>2, <1>3 DEF Account
<1>5. new.role = "mentor" => now.role = "mentor" \/ ("role" \in DOMAIN row /\ row.role = "mentor")
  BY <1>1
<1> QED BY <1>4, <1>5

LEMMA AccountsInvInit == IdentityInit => AccountsInv
<1> SUFFICES ASSUME IdentityInit PROVE AccountsInv
  OBVIOUS
<1>1. account \in [Users -> Account \cup {NoRow}]
  BY DEF IdentityInit, MembersInit
<1>2. \A u \in Users : Exists(u) => account[u].role = "mentee"
  BY DEF IdentityInit, MembersInit, Exists
<1> QED BY <1>1, <1>2, IdleFits DEF IdentityInit, AccountsInv

-----------------------------------------------------------------------------

\* A step that takes up, moves on or ends requests, and writes no row.
LEMMA RequestKeeps ==
    ASSUME AccountsInv, UNCHANGED <<account, accepted>>, NEW c \in Clients, NEW r,
           req' = [req EXCEPT ![c] = r], RequestFits(r),
           mentorToken' \subseteq accepted, published' \subseteq accepted
    PROVE  AccountsInv'
<1>1. \A d \in Clients : RequestFits(req'[d])
  BY DEF AccountsInv
<1>2. \A d \in Clients : RequestFits(req[d])'
  BY <1>1 DEF RequestFits, Exists
<1> QED BY <1>2 DEF AccountsInv, Exists

\* A row is inserted or written: accounts do not go, and roles are accounted for.
LEMMA RowKeeps ==
    ASSUME AccountsInv, NEW u \in Users, NEW row \in Account,
           account' = [account EXCEPT ![u] = row],
           row.role = "mentor" => u \in accepted',
           accepted \subseteq accepted',
           NEW c \in Clients, NEW r, req' = [req EXCEPT ![c] = r],
           RequestFits(r)',
           UNCHANGED <<mentorToken, published>>
    PROVE  AccountsInv'
<1>1. /\ account' \in [Users -> Account \cup {NoRow}]
      /\ account'[u] = row /\ row # NoRow
      /\ \A v \in Users \ {u} : account'[v] = account[v]
  BY DEF AccountsInv
<1>2. \A v \in Users : Exists(v) => Exists(v)'
  BY <1>1 DEF Exists
<1>3. \A d \in Clients \ {c} : RequestFits(req[d]) /\ req'[d] = req[d]
  BY DEF AccountsInv
<1>4. ASSUME NEW d \in Clients PROVE RequestFits(req[d])'
  <2>1. CASE d = c
    BY <2>1 DEF AccountsInv
  <2>2. CASE d # c
    <3>1. RequestFits(req[d]) /\ req'[d] = req[d]
      BY <1>3, <2>2
    <3> QED BY <1>2, <3>1 DEF RequestFits
  <2> QED BY <2>1, <2>2
<1>5. \A v \in Users : Exists(v)' /\ account'[v].role = "mentor" => v \in accepted'
  BY <1>1 DEF AccountsInv, Exists
<1>6. req' = [d \in Clients |-> req'[d]]
  BY DEF AccountsInv
<1> QED BY <1>1, <1>4, <1>5, <1>6 DEF AccountsInv

LEMMA InsertKeeps ==
    ASSUME AccountsInv, NEW u \in Users, NEW e \in Emails, NEW n \in Nicks \cup {Random},
           Insert(u, e, n), NEW c \in Clients, NEW r, req' = [req EXCEPT ![c] = r],
           r.op \notin Writing \cup {"join", "create"},
           UNCHANGED <<mentorToken, published, accepted>>
    PROVE  AccountsInv'
<1>1. NewRow(e, n) \in Account /\ NewRow(e, n).role # "mentor"
  BY DEF NewRow, Account, Role, Status
<1>2. RequestFits(r)'
  BY DEF RequestFits
<1> QED BY <1>1, <1>2, RowKeeps DEF Insert

\* A row loaded, or changed in a transaction, by a handler that promotes nobody
\* it has not found promoted.
LEMMA BeginsFit ==
    ASSUME AccountsInv, NEW u \in Users, Alive(u), NEW op \in Writing, NEW row, NEW r,
           r.op = op, r.user = u, r.row = row, FitsTable(row),
           \/ op = "accept"
           \/ "role" \in DOMAIN row => row.role = account[u].role
    PROVE  RequestFits(r)
BY DEF RequestFits, Writing, Promotes, Alive, AccountsInv

LEMMA AccountColumns ==
    ASSUME AccountsInv, NEW u \in Users, Alive(u)
    PROVE  /\ account[u] \in Account /\ Exists(u)
           /\ \A row \in Edits(u) \cup {account[u], [account[u] EXCEPT !.deleted = TRUE]} :
                /\ row \in Account /\ row.role = account[u].role
                /\ FitsTable(Columns(row, UserColumns))
                /\ Columns(row, UserColumns).role = row.role
                /\ FitsTable(Columns(row, MentorColumns))
                /\ "role" \notin DOMAIN Columns(row, MentorColumns)
<1>1. account[u] \in Account /\ Exists(u)
  BY DEF AccountsInv, Alive, Exists
<1>2. \A row \in Edits(u) : row \in Account /\ row.role = account[u].role
  BY <1>1 DEF Edits, Account
<1>3. LET row == [account[u] EXCEPT !.deleted = TRUE]
      IN  row \in Account /\ row.role = account[u].role
  BY <1>1 DEF Account
<1>4. ASSUME NEW row \in Account
      PROVE  /\ FitsTable(Columns(row, UserColumns))
             /\ Columns(row, UserColumns).role = row.role
             /\ FitsTable(Columns(row, MentorColumns))
             /\ "role" \notin DOMAIN Columns(row, MentorColumns)
  BY DEF FitsTable, Columns, UserColumns, MentorColumns, Account
<1> QED BY <1>1, <1>2, <1>3, <1>4

\* What is written in the end.
LEMMA WrittenRow ==
    ASSUME AccountsInv, NEW c \in Clients, req[c].op \in Writing
    PROVE  /\ req[c].user \in Users /\ Exists(req[c].user) /\ After(c) \in Account
           /\ After(c).role = "mentor" /\ req[c].op # "accept" => req[c].user \in accepted
<1>1. /\ req[c].user \in Users /\ Exists(req[c].user) /\ FitsTable(req[c].row)
      /\ Promotes(req[c]) /\ req[c].op # "accept" => req[c].user \in accepted
  BY DEF AccountsInv, RequestFits
<1>2. account[req[c].user] \in Account
  BY <1>1 DEF AccountsInv, Exists
<1> QED BY <1>1, <1>2, SavedRow DEF After, Promotes, AccountsInv

LEMMA IdentityStep == AccountsInv /\ IdentityNext => AccountsInv'
<1> SUFFICES ASSUME AccountsInv, IdentityNext PROVE AccountsInv'
  OBVIOUS
<1>0. mentorToken \subseteq accepted /\ published \subseteq accepted
  BY DEF AccountsInv
<1>1. ASSUME Restart PROVE AccountsInv'
  <2>1. req' = [c \in Clients |-> Idle] /\ UNCHANGED <<account, mentorToken, published, accepted>>
    BY <1>1 DEF Restart, histories
  <2>2. \A c \in Clients : RequestFits(Idle)'
    BY DEF RequestFits, Idle, Writing
  <2> QED BY <2>1, <2>2 DEF AccountsInv, Exists
<1>2. ASSUME NEW u \in Users, Login(u) \/ CreateSession(u) PROVE AccountsInv'
  <2>1. /\ UNCHANGED <<account, req, accepted>>
        /\ mentorToken' \subseteq accepted /\ published' \subseteq accepted
    BY <1>2 DEF Login, CreateSession, histories, AccountsInv, Alive
  <2> QED BY <2>1 DEF AccountsInv, RequestFits, Exists
\* A request over.
<1>3. ASSUME NEW c \in Clients, Done(c), UNCHANGED <<account, accepted, mentorToken, published>>
      PROVE  AccountsInv'
  BY <1>0, <1>3, IdleFits, RequestKeeps DEF Done
\* A request begun, or one step further.
<1>4. ASSUME NEW c \in Clients, NEW r, RequestFits(r), req' = [req EXCEPT ![c] = r],
             UNCHANGED <<account, accepted, mentorToken, published>>
      PROVE  AccountsInv'
  BY <1>0, <1>4, RequestKeeps
<1>5. ASSUME NEW c \in Clients, Answer(c) \/ SocialLink(c) PROVE AccountsInv'
  BY <1>3, <1>5 DEF Answer, SocialLink, histories
<1>6. ASSUME NEW c \in Clients, Select(c) PROVE AccountsInv'
  <2> DEFINE r == [op |-> "save", user |-> req[c].user, row |-> req[c].row,
                   base |-> account[req[c].user]]
  <2>1. req[c].op = "loaded" /\ req' = [req EXCEPT ![c] = r]
        /\ UNCHANGED <<account, accepted, mentorToken, published>>
    BY <1>6 DEF Select, histories
  <2>2. RequestFits(req[c])
    BY DEF AccountsInv
  <2>3. RequestFits(r)
    BY <2>1, <2>2 DEF RequestFits, Writing, Promotes
  <2> HIDE DEF r
  <2> QED BY <1>4, <2>1, <2>3
<1>7. ASSUME NEW c \in Clients, req[c].op \in Writing
      PROVE  /\ req[c].user \in Users /\ After(c) \in Account
             /\ After(c).role = "mentor" /\ req[c].op # "accept" => req[c].user \in accepted
  BY <1>7, WrittenRow
<1>8. ASSUME NEW c \in Clients, Update(c) PROVE AccountsInv'
  <2>1. /\ req[c].op = "save" /\ account' = [account EXCEPT ![req[c].user] = After(c)]
        /\ req' = [req EXCEPT ![c] = Idle] /\ UNCHANGED <<accepted, mentorToken, published>>
    BY <1>8 DEF Update, Done, histories
  <2>2. RequestFits(Idle)'
    BY DEF RequestFits, Idle, Writing
  <2> QED BY <1>7, <2>1, <2>2, RowKeeps DEF Writing
<1>9. ASSUME NEW c \in Clients, Commit(c) PROVE AccountsInv'
  <2>1. /\ req[c].op \in {"apply", "accept", "reject", "withdraw"}
        /\ account' = [account EXCEPT ![req[c].user] = After(c)]
        /\ accepted' = IF req[c].op = "accept" THEN accepted \cup {req[c].user} ELSE accepted
        /\ req' = [req EXCEPT ![c] = Idle] /\ UNCHANGED <<mentorToken, published>>
    BY <1>9 DEF Commit, Done
  <2>2. RequestFits(Idle)'
    BY DEF RequestFits, Idle, Writing
  <2>3. req[c].op \in Writing
    BY <2>1 DEF Writing
  <2>4. After(c).role = "mentor" => req[c].user \in accepted'
    BY <1>7, <2>1, <2>3
  <2> QED BY <1>7, <2>1, <2>2, <2>3, <2>4, RowKeeps
<1>10. ASSUME NEW c \in Clients, NEW e \in Emails, NEW n \in Nicks, JoinCheck(c, e, n)
       PROVE  AccountsInv'
  <2>1. RequestFits([op |-> "join", email |-> e, nick |-> n])
    BY DEF RequestFits, Writing
  <2> QED BY <1>4, <1>10, <2>1 DEF JoinCheck, histories
<1>11. ASSUME NEW c \in Clients, NEW e \in Emails, SocialFind(c, e) PROVE AccountsInv'
  <2>1. UNCHANGED <<account, accepted, mentorToken, published>>
    BY <1>11 DEF SocialFind, Take, histories
  <2>2. ASSUME NEW u \in Users, Take(c, u, [op |-> "link", email |-> e, user |-> u])
        PROVE  AccountsInv'
    <3>1. RequestFits([op |-> "link", email |-> e, user |-> u])
      BY DEF RequestFits, Writing
    <3> QED BY <1>4, <2>1, <2>2, <3>1 DEF Take
  <2>3. ASSUME req' = [req EXCEPT ![c] = [op |-> "create", email |-> e]] PROVE AccountsInv'
    <3>1. RequestFits([op |-> "create", email |-> e])
      BY DEF RequestFits, Writing
    <3> QED BY <1>4, <2>1, <2>3, <3>1
  <2> QED BY <1>11, <2>2, <2>3 DEF SocialFind, Holders
<1>12. ASSUME NEW c \in Clients, NEW u \in Users, JoinSave(c, u) PROVE AccountsInv'
  <2>1. /\ req[c].op = "join" /\ Insert(u, req[c].email, req[c].nick)
        /\ req' = [req EXCEPT ![c] = Idle] /\ UNCHANGED <<accepted, mentorToken, published>>
    BY <1>12 DEF JoinSave, Done, histories
  <2>2. req[c].email \in Emails /\ req[c].nick \in Nicks
    BY <2>1 DEF AccountsInv, RequestFits
  <2>3. Idle.op \notin Writing \cup {"join", "create"}
    BY DEF Idle, Writing
  <2> QED BY <2>1, <2>2, <2>3, InsertKeeps
<1>13. ASSUME NEW c \in Clients, NEW u \in Users, SocialCreate(c, u) PROVE AccountsInv'
  <2> DEFINE r == [op |-> "link", email |-> req[c].email, user |-> u]
  <2>1. /\ req[c].op = "create" /\ Insert(u, req[c].email, Random)
        /\ req' = [req EXCEPT ![c] = r] /\ UNCHANGED <<accepted, mentorToken, published>>
    BY <1>13 DEF SocialCreate, Take
  <2>2. req[c].email \in Emails
    BY <2>1 DEF AccountsInv, RequestFits
  <2>3. r.op \notin Writing \cup {"join", "create"}
    BY DEF Writing
  <2> HIDE DEF r
  <2> QED BY <2>1, <2>2, <2>3, InsertKeeps
<1>14. ASSUME NEW c \in Clients, NEW u \in Users, NEW row, LoadToSave(c, u, row), FitsTable(row),
              "role" \in DOMAIN row => row.role = account[u].role
       PROVE  AccountsInv'
  <2> DEFINE r == [op |-> "loaded", user |-> u, row |-> row]
  <2>1. /\ Alive(u) /\ req' = [req EXCEPT ![c] = r]
        /\ UNCHANGED <<account, accepted, mentorToken, published>>
    BY <1>14 DEF LoadToSave, Take
  <2>2. r.op = "loaded" /\ r.op \in Writing /\ r.user = u /\ r.row = row
    BY DEF Writing
  <2> HIDE DEF r
  <2>3. RequestFits(r)
    BY <1>14, <2>1, <2>2, BeginsFit
  <2> QED BY <1>4, <2>1, <2>3
<1>15. ASSUME NEW c \in Clients, NEW u \in Users,
              EditAccount(c, u) \/ SuspendAccount(c, u) \/ EditMentor(c, u)
       PROVE  AccountsInv'
  <2>1. CASE EditAccount(c, u)
    <3>1. PICK row \in Edits(u) : LoadToSave(c, u, Columns(row, UserColumns))
      BY <2>1 DEF EditAccount
    <3>2. Alive(u)
      BY <2>1 DEF EditAccount
    <3> QED BY <1>14, <3>1, <3>2, AccountColumns
  <2>2. CASE SuspendAccount(c, u)
    BY <1>14, <2>2, AccountColumns DEF SuspendAccount
  <2>3. CASE EditMentor(c, u)
    BY <1>14, <2>3, AccountColumns DEF EditMentor
  <2> QED BY <1>15, <2>1, <2>2, <2>3
<1>16. ASSUME NEW c \in Clients, NEW u \in Users, NEW op \in Writing, NEW row,
              Begin(c, u, op, row), FitsTable(row), "role" \in DOMAIN row => op = "accept"
       PROVE  AccountsInv'
  <2> DEFINE r == [op |-> op, user |-> u, row |-> row, base |-> account[u]]
  <2>1. /\ Alive(u) /\ req' = [req EXCEPT ![c] = r]
        /\ UNCHANGED <<account, accepted, mentorToken, published>>
    BY <1>16 DEF Begin, Take
  <2>2. r.op = op /\ r.user = u /\ r.row = row
    OBVIOUS
  <2> HIDE DEF r
  <2>3. RequestFits(r)
    BY <1>16, <2>1, <2>2, BeginsFit
  <2> QED BY <1>4, <2>1, <2>3
<1>17. ASSUME NEW c \in Clients, NEW u \in Users, Apply(c, u) PROVE AccountsInv'
  <2>1. FitsTable([status |-> "pending"]) /\ "role" \notin DOMAIN [status |-> "pending"]
    BY DEF FitsTable, Status
  <2> QED BY <1>16, <1>17, <2>1 DEF Apply, Writing
<1>18. ASSUME NEW c \in Clients, NEW u \in Users, DeleteAccount(c, u) PROVE AccountsInv'
  <2>1. /\ FitsTable([email |-> Freed, deleted |-> TRUE])
        /\ "role" \notin DOMAIN [email |-> Freed, deleted |-> TRUE]
    BY DEF FitsTable
  <2> QED BY <1>16, <1>18, <2>1 DEF DeleteAccount, Writing
<1>19. ASSUME NEW c \in Clients, NEW u \in Users, NEW s \in Status \ {"none"},
              ApproveMentor(c, u, s)
       PROVE  AccountsInv'
  <2>1. CASE s = "rejected"
    <3>1. FitsTable([status |-> s]) /\ "role" \notin DOMAIN [status |-> s]
      BY DEF FitsTable
    <3>2. Begin(c, u, "reject", [status |-> s])
      BY <1>19, <2>1 DEF ApproveMentor
    <3> QED BY <1>16, <3>1, <3>2 DEF Writing
  <2>2. CASE s # "rejected"
    <3>1. FitsTable([status |-> s, role |-> "mentor"])
      BY DEF FitsTable, Role
    <3>2. Begin(c, u, "accept", [status |-> s, role |-> "mentor"])
      BY <1>19, <2>2 DEF ApproveMentor
    <3> QED BY <1>16, <3>1, <3>2 DEF Writing
  <2> QED BY <2>1, <2>2
<1>20. ASSUME NEW c \in Clients, NEW u \in Users, JoinCrash(c, u) PROVE AccountsInv'
  BY <1>1, <1>20 DEF JoinCrash
<1> QED BY <1>1, <1>2, <1>5, <1>6, <1>8, <1>9, <1>10, <1>11, <1>12, <1>13, <1>15, <1>17, <1>18,
           <1>19, <1>20 DEF IdentityNext

(* Only an account an administrator did not reject ever gets a session     *)
(* published: no profile edit, suspension, application or withdrawal saved *)
(* late gives the mentor's role, and no login a token with it              *)
(* (admin.service.ts 206-213, users.service.ts 132-220,                    *)
(* mentoring.controller.ts 44-46).                                         *)
THEOREM SessionsAreAccepted == Spec => []SessionsByAccepted
<1>1. Init => AccountsInv
  BY AccountsInvInit DEF Init
<1>2. AccountsInv /\ [Next]_siteVars => AccountsInv'
  <2>1. AccountsInv /\ UNCHANGED people => AccountsInv'
    BY DEF AccountsInv, RequestFits, Exists, people, identityVars, histories
  <2>2. [Next]_siteVars => IdentityNext \/ UNCHANGED people
    BY DEF Next, siteVars, People, SignUps, Posts, Browse, Chats, Pages, Queries
  <2> QED BY <2>1, <2>2, IdentityStep
<1>3. AccountsInv => SessionsByAccepted
  BY DEF AccountsInv, SessionsByAccepted
<1> QED BY <1>1, <1>2, <1>3, PTL DEF Spec
-----------------------------------------------------------------------------
(* Rows, links, tokens and requests are about accounts there are *)

Ops == {"idle", "join", "create", "link"} \cup Writing
About == {"link"} \cup Writing

Shape(r) ==
    /\ r.op \in Ops
    /\ r.op \in About <=> "user" \in DOMAIN r
    /\ r.op \in About => r.user \in Users /\ Exists(r.user)
    /\ r.op = "link" => r.email \in Emails

Existing == {u \in Users : Exists(u)}

PeopleInv ==
    /\ AccountsInv
    /\ social \subseteq Emails \X Existing
    /\ \A c \in Clients : Shape(req[c])
    /\ mentorToken \cup published \cup accepted \cup withdrawn \cup raced \subseteq Existing

LEMMA IdleShape == Shape(Idle)
BY DEF Shape, Idle, Ops, About, Writing

LEMMA PeopleInit == IdentityInit => PeopleInv
<1> SUFFICES ASSUME IdentityInit PROVE PeopleInv
  OBVIOUS
<1>1. /\ social = {} /\ mentorToken = {} /\ published = {} /\ accepted = {}
      /\ withdrawn = {} /\ raced = {} /\ req = [c \in Clients |-> Idle]
  BY DEF IdentityInit
<1> QED BY <1>1, IdleShape, AccountsInvInit DEF PeopleInv

\* No id is given up.
LEMMA IdsStay == ASSUME AccountsInv, IdentityNext PROVE Existing \subseteq Existing'
<1>1. NoRow \notin Account
  OBVIOUS
<1>2. \A e, n : \A u \in Users : Insert(u, e, n) => Existing \subseteq Existing'
  <2> SUFFICES ASSUME NEW u \in Users, NEW e, NEW n, Insert(u, e, n),
                      NEW v \in Users, Exists(v)
               PROVE  Exists(v)'
    BY DEF Existing
  <2>1. account' = [account EXCEPT ![u] = NewRow(e, n)] /\ v # u
    BY DEF Insert
  <2> QED BY <2>1 DEF Exists, AccountsInv
<1>3. ASSUME NEW c \in Clients, req[c].op \in Writing,
             account' = [account EXCEPT ![req[c].user] = After(c)]
      PROVE  Existing \subseteq Existing'
  <2>1. After(c) \in Account
    BY <1>3, WrittenRow
  <2> QED BY <1>1, <1>3, <2>1 DEF Existing, Exists, AccountsInv
<1>4. UNCHANGED account => Existing \subseteq Existing'
  BY DEF Existing, Exists
<1>5. ASSUME NEW c \in Clients, Update(c) \/ Commit(c) PROVE Existing \subseteq Existing'
  BY <1>3, <1>5 DEF Update, Commit, Writing
<1>6. ASSUME NEW c \in Clients, NEW u \in Users, JoinSave(c, u) \/ SocialCreate(c, u)
      PROVE  Existing \subseteq Existing'
  BY <1>2, <1>6 DEF JoinSave, SocialCreate
<1>7. ASSUME Restart PROVE UNCHANGED account
  BY <1>7 DEF Restart
<1>8. ASSUME NEW u \in Users, Login(u) \/ CreateSession(u) PROVE UNCHANGED account
  BY <1>8 DEF Login, CreateSession
<1>9. ASSUME NEW c \in Clients, Answer(c) \/ SocialLink(c) \/ Select(c) PROVE UNCHANGED account
  BY <1>9 DEF Answer, SocialLink, Select
<1>10. ASSUME NEW c \in Clients, NEW e \in Emails,
              SocialFind(c, e) \/ \E n \in Nicks : JoinCheck(c, e, n)
       PROVE  UNCHANGED account
  BY <1>10 DEF SocialFind, JoinCheck
<1>11. ASSUME NEW c \in Clients, NEW u \in Users,
              \/ JoinCrash(c, u) \/ EditAccount(c, u) \/ SuspendAccount(c, u)
              \/ EditMentor(c, u) \/ Apply(c, u) \/ DeleteAccount(c, u)
              \/ \E s \in Status \ {"none"} : ApproveMentor(c, u, s)
       PROVE  UNCHANGED account
  BY <1>11 DEF JoinCrash, Restart, EditAccount, SuspendAccount, EditMentor, LoadToSave,
               Apply, DeleteAccount, ApproveMentor, Begin
<1> QED BY <1>4, <1>5, <1>6, <1>7, <1>8, <1>9, <1>10, <1>11 DEF IdentityNext

\* One request moves, and what it adds anywhere is about an account there is.
LEMMA PeopleKeep ==
    ASSUME PeopleInv, AccountsInv', Existing \subseteq Existing',
           NEW c \in Clients, NEW r, req' = [req EXCEPT ![c] = r], Shape(r)',
           \A s \in social' \ social : s \in Emails \X Existing',
           mentorToken' \cup published' \cup accepted' \cup withdrawn' \cup raced'
             \subseteq Existing'
    PROVE  PeopleInv'
<1>1. \A d \in Clients : req'[d] = IF d = c THEN r ELSE req[d]
  BY DEF PeopleInv, AccountsInv
<1>2. ASSUME NEW d \in Clients, d # c PROVE Shape(req[d])'
  <2>1. Shape(req[d]) /\ req'[d] = req[d]
    BY <1>1, <1>2 DEF PeopleInv
  <2> QED BY <2>1 DEF Shape, Existing
<1>3. \A d \in Clients : Shape(req[d])'
  BY <1>1, <1>2
<1>4. social' \subseteq Emails \X Existing'
  BY DEF PeopleInv
<1> QED BY <1>3, <1>4 DEF PeopleInv

LEMMA PeopleStep == PeopleInv /\ IdentityNext => PeopleInv'
<1> SUFFICES ASSUME PeopleInv, IdentityNext PROVE PeopleInv'
  OBVIOUS
<1>1. AccountsInv /\ AccountsInv' /\ Existing \subseteq Existing'
  BY IdentityStep, IdsStay DEF PeopleInv
<1>2. /\ mentorToken \cup published \cup accepted \cup withdrawn \cup raced \subseteq Existing'
      /\ \A u \in Users : Exists(u)' <=> u \in Existing'
      /\ \A u \in Users : Exists(u) => u \in Existing'
      /\ \A u \in Users : Alive(u) => u \in Existing'
  BY <1>1 DEF PeopleInv, Existing, Alive
<1>3. ASSUME NEW c \in Clients, NEW r, req' = [req EXCEPT ![c] = r], Shape(r)',
             \A s \in social' \ social : s \in Emails \X Existing',
             UNCHANGED <<mentorToken, published>>,
             accepted' \cup withdrawn' \cup raced' \subseteq Existing'
      PROVE  PeopleInv'
  <2>1. mentorToken' \cup published' \cup accepted' \cup withdrawn' \cup raced' \subseteq Existing'
    BY <1>2, <1>3
  <2> QED BY <1>1, <1>3, <2>1, PeopleKeep
<1>4. Shape(Idle)'
  BY DEF Shape, Idle, Ops, About, Writing
<1>5. ASSUME NEW c \in Clients
      PROVE  /\ Shape(req[c])
             /\ req[c].op \in About => req[c].user \in Users /\ req[c].user \in Existing'
  BY <1>2 DEF PeopleInv, Shape
<1>6. ASSUME Restart PROVE PeopleInv'
  <2>1. /\ req' = [c \in Clients |-> Idle]
        /\ UNCHANGED <<social, mentorToken, published, accepted, withdrawn, raced>>
    BY <1>6 DEF Restart, histories
  <2> QED BY <1>1, <1>4, <2>1 DEF PeopleInv
<1>7. ASSUME NEW u \in Users, Login(u) \/ CreateSession(u) PROVE PeopleInv'
  <2>1. /\ UNCHANGED <<account, social, req, accepted, withdrawn, raced>>
        /\ mentorToken' \subseteq mentorToken \cup {u}
        /\ published' \subseteq published \cup {u}
        /\ u \in Existing'
    BY <1>2, <1>7 DEF Login, CreateSession, histories
  <2>2. Existing' = Existing
    BY <2>1 DEF Existing, Exists
  <2>3. \A c \in Clients : Shape(req[c])'
    BY <2>1 DEF PeopleInv, Shape, Exists
  <2> QED BY <1>1, <2>1, <2>2, <2>3 DEF PeopleInv
<1>8. ASSUME NEW c \in Clients, Answer(c) \/ Update(c) PROVE PeopleInv'
  <2>1. req' = [req EXCEPT ![c] = Idle]
        /\ UNCHANGED <<social, mentorToken, published, accepted, withdrawn, raced>>
    BY <1>8 DEF Answer, Update, Done, histories
  <2> QED BY <1>2, <1>3, <1>4, <2>1
<1>9. ASSUME NEW c \in Clients, SocialLink(c) PROVE PeopleInv'
  <2>1. /\ req' = [req EXCEPT ![c] = Idle] /\ req[c].op = "link"
        /\ social' = social \cup {<<req[c].email, req[c].user>>}
        /\ UNCHANGED <<mentorToken, published, accepted, withdrawn, raced>>
    BY <1>9 DEF SocialLink, Done, histories
  <2>2. req[c].email \in Emails /\ req[c].user \in Existing'
    BY <1>5, <2>1 DEF Shape, About
  <2>3. \A s \in social' \ social : s \in Emails \X Existing'
    BY <2>1, <2>2
  <2>4. accepted' \cup withdrawn' \cup raced' \subseteq Existing'
    BY <1>2, <2>1
  <2> QED BY <1>3, <1>4, <2>1, <2>3, <2>4
<1>10. ASSUME NEW c \in Clients, Commit(c) PROVE PeopleInv'
  <2>1. /\ req' = [req EXCEPT ![c] = Idle] /\ social' \subseteq social
        /\ req[c].op \in {"apply", "accept", "reject", "withdraw"}
        /\ accepted' \subseteq accepted \cup {req[c].user}
        /\ withdrawn' \subseteq withdrawn \cup {req[c].user}
        /\ UNCHANGED <<mentorToken, published, raced>>
    BY <1>10 DEF Commit, Done
  <2>2. req[c].user \in Existing'
    BY <1>5, <2>1 DEF About, Writing
  <2>3. accepted' \cup withdrawn' \cup raced' \subseteq Existing'
    BY <1>2, <2>1, <2>2
  <2>4. \A s \in social' \ social : s \in Emails \X Existing'
    BY <2>1
  <2> QED BY <1>3, <1>4, <2>1, <2>3, <2>4
\* A request that works on an account, or not yet.
<1>11. ASSUME NEW c \in Clients, NEW u \in Users, NEW r, Take(c, u, r), u \in Existing',
              Shape(r)', UNCHANGED <<social, mentorToken, published>>
       PROVE  PeopleInv'
  <2>1. /\ req' = [req EXCEPT ![c] = r] /\ UNCHANGED <<accepted, withdrawn>>
        /\ raced' \subseteq raced \cup {u}
    BY <1>11 DEF Take
  <2> QED BY <1>2, <1>3, <1>11, <2>1
<1>12. ASSUME NEW r, r.op \in About, "user" \in DOMAIN r, r.user \in Users,
              r.user \in Existing', r.op = "link" => r.email \in Emails
       PROVE  Shape(r)'
  BY <1>2, <1>12 DEF Shape, Ops, About
<1>13. ASSUME NEW c \in Clients, Select(c) PROVE PeopleInv'
  <2>0. PICK r : r = [op |-> "save", user |-> req[c].user, row |-> req[c].row,
                      base |-> account[req[c].user]]
    OBVIOUS
  <2>1. /\ req' = [req EXCEPT ![c] = r] /\ req[c].op = "loaded"
        /\ UNCHANGED <<social, mentorToken, published, accepted, withdrawn, raced>>
    BY <1>13, <2>0 DEF Select, histories
  <2>2. /\ r.op \in About /\ r.op # "link" /\ "user" \in DOMAIN r
        /\ r.user \in Users /\ r.user \in Existing'
    BY <1>5, <2>0, <2>1 DEF About, Writing
  <2>3. Shape(r)'
    BY <1>12, <2>2
  <2> QED BY <1>2, <1>3, <2>1, <2>3
<1>14. ASSUME NEW c \in Clients, NEW e \in Emails, NEW n \in Nicks, JoinCheck(c, e, n)
       PROVE  PeopleInv'
  <2>1. /\ req' = [req EXCEPT ![c] = [op |-> "join", email |-> e, nick |-> n]]
        /\ UNCHANGED <<social, mentorToken, published, accepted, withdrawn, raced>>
    BY <1>14 DEF JoinCheck, histories
  <2>2. Shape([op |-> "join", email |-> e, nick |-> n])'
    BY DEF Shape, Ops, About, Writing
  <2> QED BY <1>2, <1>3, <2>1, <2>2
<1>15. ASSUME NEW c \in Clients, NEW e \in Emails, SocialFind(c, e) PROVE PeopleInv'
  <2>1. CASE \E u \in Holders(e) : Take(c, u, [op |-> "link", email |-> e, user |-> u])
    <3>1. PICK u \in Holders(e) : Take(c, u, [op |-> "link", email |-> e, user |-> u])
      BY <2>1
    <3>2. u \in Users /\ u \in Existing'
      BY <1>2 DEF Holders
    <3> DEFINE r == [op |-> "link", email |-> e, user |-> u]
    <3>3. r.op \in About /\ "user" \in DOMAIN r /\ r.user = u /\ r.email = e
      BY DEF About
    <3>4. Take(c, u, r) /\ UNCHANGED <<social, mentorToken, published>>
      BY <1>15, <3>1 DEF SocialFind
    <3> HIDE DEF r
    <3>5. Shape(r)'
      BY <1>12, <3>2, <3>3
    <3> QED BY <1>11, <3>2, <3>4, <3>5
  <2>2. CASE /\ req' = [req EXCEPT ![c] = [op |-> "create", email |-> e]]
             /\ UNCHANGED histories
    <3>1. Shape([op |-> "create", email |-> e])'
      BY DEF Shape, Ops, About, Writing
    <3>2. UNCHANGED <<social, mentorToken, published, accepted, withdrawn, raced>>
      BY <1>15, <2>2 DEF SocialFind, histories
    <3> QED BY <1>2, <1>3, <2>2, <3>1, <3>2
  <2> QED BY <1>15, <2>1, <2>2 DEF SocialFind
<1>16. ASSUME NEW c \in Clients, NEW u \in Users, JoinSave(c, u) PROVE PeopleInv'
  <2>1. /\ req' = [req EXCEPT ![c] = Idle]
        /\ UNCHANGED <<social, mentorToken, published, accepted, withdrawn, raced>>
    BY <1>16 DEF JoinSave, Done, histories
  <2> QED BY <1>2, <1>3, <1>4, <2>1
<1>17. ASSUME NEW c \in Clients, NEW u \in Users, SocialCreate(c, u) PROVE PeopleInv'
  <2>0. PICK r : r = [op |-> "link", email |-> req[c].email, user |-> u]
    OBVIOUS
  <2>1. /\ Take(c, u, r) /\ req[c].op = "create" /\ Insert(u, req[c].email, Random)
        /\ UNCHANGED <<social, mentorToken, published>>
    BY <1>17, <2>0 DEF SocialCreate
  <2>2. req[c].email \in Emails
    BY <1>1, <2>1 DEF AccountsInv, RequestFits
  <2>3. /\ r.op \in About /\ "user" \in DOMAIN r /\ r.user = u /\ r.email \in Emails
    BY <2>0, <2>2 DEF About
  <2>4. NewRow(req[c].email, Random) \in Account
    BY <2>2 DEF NewRow, Account, Role, Status
  <2>5. u \in Existing'
    BY <1>1, <1>2, <2>1, <2>4 DEF Insert, Exists, AccountsInv
  <2>6. Shape(r)'
    BY <1>12, <2>3, <2>5
  <2> QED BY <1>11, <2>1, <2>5, <2>6
<1>18. ASSUME NEW c \in Clients, NEW u \in Users, NEW row, LoadToSave(c, u, row)
       PROVE  PeopleInv'
  <2> DEFINE r == [op |-> "loaded", user |-> u, row |-> row]
  <2>1. Take(c, u, r) /\ Alive(u) /\ UNCHANGED <<social, mentorToken, published>>
    BY <1>18 DEF LoadToSave
  <2>2. r.op \in About /\ r.op # "link" /\ "user" \in DOMAIN r /\ r.user = u
    BY DEF About, Writing
  <2> HIDE DEF r
  <2>3. Shape(r)' /\ u \in Existing'
    BY <1>2, <1>12, <2>1, <2>2
  <2> QED BY <1>11, <2>1, <2>3
<1>19. ASSUME NEW c \in Clients, NEW u \in Users, NEW op \in Writing, NEW row,
              Begin(c, u, op, row)
       PROVE  PeopleInv'
  <2>0. PICK r : r = [op |-> op, user |-> u, row |-> row, base |-> account[u]]
    OBVIOUS
  <2>1. Take(c, u, r) /\ Alive(u) /\ UNCHANGED <<social, mentorToken, published>>
    BY <1>19, <2>0 DEF Begin
  <2>2. r.op \in About /\ r.op # "link" /\ "user" \in DOMAIN r /\ r.user = u
    BY <2>0 DEF About, Writing
  <2>3. Shape(r)' /\ u \in Existing'
    BY <1>2, <1>12, <2>1, <2>2
  <2> QED BY <1>11, <2>1, <2>3
<1>20. ASSUME NEW c \in Clients, NEW u \in Users,
              EditAccount(c, u) \/ SuspendAccount(c, u) \/ EditMentor(c, u)
       PROVE  PeopleInv'
  BY <1>18, <1>20 DEF EditAccount, SuspendAccount, EditMentor
<1>21. ASSUME NEW c \in Clients, NEW u \in Users,
              \/ Apply(c, u) \/ DeleteAccount(c, u)
              \/ \E s \in Status \ {"none"} : ApproveMentor(c, u, s)
       PROVE  PeopleInv'
  <2>1. {"apply", "accept", "reject", "withdraw"} \subseteq Writing
    BY DEF Writing
  <2> QED BY <1>19, <1>21, <2>1 DEF Apply, DeleteAccount, ApproveMentor
<1>22. ASSUME NEW c \in Clients, NEW u \in Users, JoinCrash(c, u) PROVE PeopleInv'
  BY <1>6, <1>22 DEF JoinCrash
<1> QED BY <1>6, <1>7, <1>8, <1>9, <1>10, <1>13, <1>14, <1>15, <1>16, <1>17, <1>20, <1>21,
           <1>22 DEF IdentityNext

-----------------------------------------------------------------------------
(* What was decided stands.  As long as no two requests have worked on an  *)
(* account at once, its row is what the one at work has found.             *)

Found(r) ==
    LET now == account[r.user]
    IN  /\ r.op \in Writing \ {"loaded"} => r.base = now
        /\ r.op \in {"loaded", "save"} =>
             \A k \in {"role", "status"} : k \in DOMAIN r.row => r.row[k] = now[k]
        /\ r.op = "accept" => "role" \in DOMAIN r.row /\ r.row.role = "mentor"
        /\ r.op \in {"apply", "reject"} =>
             "status" \in DOMAIN r.row /\ r.row.status # "approved"
        /\ r.op = "withdraw" => r.row = [email |-> Freed, deleted |-> TRUE]

Decided(u) ==
    /\ \A c, d \in Clients : Working(c, u) /\ Working(d, u) => c = d
    /\ \A c \in Clients : Working(c, u) => Found(req[c])
    /\ u \in withdrawn =>
         /\ Exists(u) /\ account[u].deleted /\ account[u].email = Freed
         /\ \A s \in social : s[2] # u
         /\ \A c \in Clients : ~Working(c, u)
    /\ Exists(u) /\ account[u].status = "approved" => account[u].role = "mentor"

DecisionsInv == PeopleInv /\ \A u \in Users \ raced : Decided(u)

LEMMA IdleWorksNot == Idle.op = "idle"
BY DEF Idle

LEMMA DecisionsInit == IdentityInit => DecisionsInv
<1> SUFFICES ASSUME IdentityInit PROVE DecisionsInv
  OBVIOUS
<1>1. \A c \in Clients, u \in Users : ~Working(c, u)
  BY IdleWorksNot DEF IdentityInit, Working
<1>2. \A u \in Users : Exists(u) => account[u].status # "approved"
  BY DEF IdentityInit, MembersInit, Exists
<1>3. withdrawn = {}
  BY DEF IdentityInit
<1> QED BY <1>1, <1>2, <1>3, PeopleInit DEF DecisionsInv, Decided

\* An account nothing happens to, but that requests about it may end.
LEMMA LeftAlone ==
    ASSUME NEW u \in Users, Decided(u), account'[u] = account[u],
           \A c \in Clients : Working(c, u)' => Working(c, u) /\ req'[c] = req[c],
           \A s \in social' : s \in social \/ s[2] # u,
           u \in withdrawn' => u \in withdrawn
    PROVE  Decided(u)'
<1>1. Exists(u)' <=> Exists(u)
  BY DEF Exists
<1>2. ASSUME NEW c \in Clients, Working(c, u)' PROVE Found(req[c])'
  <2>1. Found(req[c]) /\ req'[c] = req[c] /\ req[c].user = u
    BY <1>2 DEF Decided, Working
  <2> QED BY <2>1 DEF Found
<1> QED BY <1>1, <1>2 DEF Decided

\* A request over, or one that is about no account yet.
LEMMA RequestAway ==
    ASSUME DecisionsInv, NEW c \in Clients, NEW r, req' = [req EXCEPT ![c] = r],
           r.op = "idle" \/ "user" \notin DOMAIN r,
           UNCHANGED <<account, withdrawn, raced>>,
           \A s \in social' : s \in social \/ s[2] \in raced \/ Working(c, s[2])
    PROVE  \A u \in Users \ raced' : Decided(u)'
<1> TAKE u \in Users \ raced'
<1>1. Decided(u)
  BY DEF DecisionsInv
<1>2. \A d \in Clients : Working(d, u)' => Working(d, u) /\ req'[d] = req[d]
  BY DEF Working, DecisionsInv, PeopleInv, AccountsInv
<1>3. CASE \A s \in social' : s \in social \/ s[2] # u
  BY <1>1, <1>2, <1>3, LeftAlone
<1>4. CASE \E s \in social' : s \notin social /\ s[2] = u
  <2>1. Working(c, u)
    BY <1>4
  <2>2. u \notin withdrawn /\ \A d \in Clients : Working(d, u) => d = c
    BY <1>1, <2>1 DEF Decided
  <2>3. ~Working(c, u)'
    BY DEF Working, DecisionsInv, PeopleInv, AccountsInv
  <2>4. \A d \in Clients : ~Working(d, u)'
    BY <1>2, <2>2, <2>3
  <2> QED BY <1>1, <2>2, <2>4 DEF Decided, Exists
<1> QED BY <1>3, <1>4

\* A request that takes up an account: alone, or the account is raced.
LEMMA TakeKeeps ==
    ASSUME DecisionsInv, NEW c \in Clients, NEW u \in Users, NEW r, Take(c, u, r),
           r.op # "idle", "user" \in DOMAIN r, r.user = u,
           UNCHANGED social, \A v \in Users \ {u} : account'[v] = account[v],
           u \notin raced => u \notin withdrawn, Found(r)',
           u \notin raced => (Exists(u)' /\ account'[u].status = "approved"
                                  => account'[u].role = "mentor")
    PROVE  \A v \in Users \ raced' : Decided(v)'
<1>1. req' = [req EXCEPT ![c] = r] /\ raced \subseteq raced' /\ UNCHANGED withdrawn
  BY DEF Take
<1>2. \A d \in Clients : req'[d] = IF d = c THEN r ELSE req[d]
  BY <1>1 DEF DecisionsInv, PeopleInv, AccountsInv
<1>3. ASSUME NEW v \in Users \ raced', v # u PROVE Decided(v)'
  <2>1. Decided(v)
    BY <1>1, <1>3 DEF DecisionsInv
  <2>2. \A d \in Clients : Working(d, v)' => Working(d, v) /\ req'[d] = req[d]
    BY <1>2, <1>3 DEF Working
  <2> QED BY <1>1, <1>3, <2>1, <2>2, LeftAlone
<1>4. ASSUME u \notin raced' PROVE Decided(u)'
  <2>1. \A d \in Clients : Working(d, u)' => d = c
    BY <1>2, <1>4 DEF Take, Working
  <2>2. \A d \in Clients : Working(d, u)' => Found(req[d])'
    BY <1>2, <2>1
  <2> QED BY <1>1, <1>4, <2>1, <2>2 DEF Decided
<1> QED BY <1>3, <1>4

\* The row of the account c works on is written, and c is done with it.
LEMMA WriteKeeps ==
    ASSUME DecisionsInv, NEW c \in Clients, NEW u \in Users, Working(c, u),
           req' = [req EXCEPT ![c] = Idle], UNCHANGED raced,
           \A v \in Users \ {u} : account'[v] = account[v],
           social' \subseteq social,
           withdrawn' \subseteq withdrawn \cup {u},
           u \in withdrawn' /\ u \notin raced =>
              /\ Exists(u)' /\ account'[u].deleted /\ account'[u].email = Freed
              /\ \A s \in social' : s[2] # u,
           u \notin raced => (Exists(u)' /\ account'[u].status = "approved"
                                  => account'[u].role = "mentor")
    PROVE  \A v \in Users \ raced' : Decided(v)'
<1>1. \A d \in Clients : req'[d] = IF d = c THEN Idle ELSE req[d]
  BY DEF DecisionsInv, PeopleInv, AccountsInv
<1>2. \A d \in Clients, v \in Users : Working(d, v)' => Working(d, v) /\ req'[d] = req[d] /\ d # c
  BY <1>1, IdleWorksNot DEF Working
<1>3. ASSUME NEW v \in Users \ raced', v # u PROVE Decided(v)'
  <2>1. Decided(v)
    BY <1>3 DEF DecisionsInv
  <2> QED BY <1>2, <1>3, <2>1, LeftAlone
<1>4. ASSUME u \notin raced' PROVE Decided(u)'
  <2>1. \A d \in Clients : Working(d, u) => d = c
    BY <1>4 DEF DecisionsInv, Decided
  <2>2. \A d \in Clients : ~Working(d, u)'
    BY <1>2, <2>1
  <2> QED BY <1>4, <2>2 DEF Decided
<1> QED BY <1>3, <1>4

\* What a save writes over the row the handler has found.
LEMMA SavedOver ==
    ASSUME NEW now \in Account, NEW row
    PROVE  \A k \in {"email", "nick", "role", "status", "deleted"} :
             Saved(now, row, now)[k] = IF k \in DOMAIN row THEN row[k] ELSE now[k]
BY DEF Saved, Account

\* The account of one who writes, unless it is raced.
LEMMA WriterFound ==
    ASSUME DecisionsInv, NEW c \in Clients, req[c].op \in Writing
    PROVE  /\ req[c].user \in Users /\ Working(c, req[c].user)
           /\ account[req[c].user] \in Account /\ After(c) \in Account
           /\ req[c].user \notin raced =>
                /\ Found(req[c]) /\ req[c].user \notin withdrawn
                /\ account[req[c].user].status = "approved"
                     => account[req[c].user].role = "mentor"
<1>1. /\ req[c].user \in Users /\ Exists(req[c].user) /\ After(c) \in Account
  BY WrittenRow DEF DecisionsInv, PeopleInv
<1>2. account[req[c].user] \in Account
  BY <1>1 DEF DecisionsInv, PeopleInv, AccountsInv, Exists
<1>3. Working(c, req[c].user)
  BY DEF DecisionsInv, PeopleInv, Shape, About, Writing, Working
<1> QED BY <1>1, <1>2, <1>3 DEF DecisionsInv, Decided

LEMMA DecisionsUpdate ==
    ASSUME DecisionsInv, NEW c \in Clients, Update(c)
    PROVE  \A v \in Users \ raced' : Decided(v)'
<1> DEFINE u == req[c].user
           row == req[c].row
<1>1. /\ req[c].op = "save" /\ req' = [req EXCEPT ![c] = Idle]
      /\ account' = [account EXCEPT ![u] = After(c)]
      /\ UNCHANGED <<social, withdrawn, raced>>
  BY DEF Update, Done, histories
<1>2. /\ u \in Users /\ Working(c, u) /\ account[u] \in Account /\ After(c) \in Account
      /\ u \notin raced => /\ Found(req[c]) /\ u \notin withdrawn
                           /\ account[u].status = "approved" => account[u].role = "mentor"
  BY <1>1, WriterFound DEF Writing
<1>3. /\ account'[u] = After(c) /\ \A v \in Users \ {u} : account'[v] = account[v]
  BY <1>1, <1>2 DEF DecisionsInv, PeopleInv, AccountsInv
<1>4. ASSUME u \notin raced
      PROVE  After(c).status = account[u].status /\ After(c).role = account[u].role
  <2>1. /\ req[c].base = account[u]
        /\ \A k \in {"role", "status"} : k \in DOMAIN row => row[k] = account[u][k]
    BY <1>1, <1>2, <1>4 DEF Found, Writing
  <2>2. After(c) = Saved(account[u], row, account[u])
    BY <2>1 DEF After
  <2> QED BY <1>2, <2>1, <2>2, SavedOver
<1> HIDE DEF u, row
<1> QED BY <1>1, <1>2, <1>3, <1>4, WriteKeeps

LEMMA DecisionsCommit ==
    ASSUME DecisionsInv, NEW c \in Clients, Commit(c)
    PROVE  \A v \in Users \ raced' : Decided(v)'
<1>0. PICK u, row : u = req[c].user /\ row = req[c].row
  OBVIOUS
<1>1. /\ req[c].op \in {"apply", "accept", "reject", "withdraw"}
      /\ req' = [req EXCEPT ![c] = Idle]
      /\ account' = [account EXCEPT ![u] = After(c)]
      /\ social' = IF req[c].op = "withdraw" THEN {s \in social : s[2] # u} ELSE social
      /\ withdrawn' = IF req[c].op = "withdraw" THEN withdrawn \cup {u} ELSE withdrawn
      /\ UNCHANGED raced
  BY <1>0 DEF Commit, Done
<1>2. /\ u \in Users /\ Working(c, u) /\ account[u] \in Account /\ After(c) \in Account
      /\ u \notin raced => /\ Found(req[c]) /\ u \notin withdrawn
                           /\ account[u].status = "approved" => account[u].role = "mentor"
  BY <1>0, <1>1, WriterFound DEF Writing
<1>3. /\ account'[u] = After(c) /\ \A v \in Users \ {u} : account'[v] = account[v]
  BY <1>1, <1>2 DEF DecisionsInv, PeopleInv, AccountsInv
<1>4. Exists(u)'
  BY <1>2, <1>3 DEF Exists
<1>5. ASSUME u \notin raced
      PROVE  /\ After(c).status = "approved" => After(c).role = "mentor"
             /\ req[c].op = "withdraw" => After(c).deleted /\ After(c).email = Freed
  <2>1. /\ req[c].base = account[u]
        /\ req[c].op = "accept" => "role" \in DOMAIN row /\ row.role = "mentor"
        /\ req[c].op \in {"apply", "reject"} => "status" \in DOMAIN row /\ row.status # "approved"
        /\ req[c].op = "withdraw" => row = [email |-> Freed, deleted |-> TRUE]
    BY <1>0, <1>1, <1>2, <1>5 DEF Found, Writing
  <2>2. After(c) = Saved(account[u], row, account[u])
    BY <1>0, <2>1 DEF After
  <2>3. \A k \in {"email", "nick", "role", "status", "deleted"} :
          After(c)[k] = IF k \in DOMAIN row THEN row[k] ELSE account[u][k]
    BY <1>2, <2>2, SavedOver
  <2>4. CASE req[c].op = "accept"
    BY <2>1, <2>3, <2>4
  <2>5. CASE req[c].op \in {"apply", "reject"}
    BY <2>1, <2>3, <2>5
  <2>6. CASE req[c].op = "withdraw"
    BY <1>2, <1>5, <2>1, <2>3, <2>6
  <2> QED BY <1>1, <2>4, <2>5, <2>6
<1>6. /\ social' \subseteq social /\ withdrawn' \subseteq withdrawn \cup {u}
      /\ u \in withdrawn' /\ u \notin raced =>
           /\ Exists(u)' /\ account'[u].deleted /\ account'[u].email = Freed
           /\ \A s \in social' : s[2] # u
  BY <1>1, <1>2, <1>3, <1>4, <1>5
<1>7. u \notin raced => (Exists(u)' /\ account'[u].status = "approved"
                             => account'[u].role = "mentor")
  BY <1>3, <1>5
<1> QED BY <1>1, <1>2, <1>3, <1>6, <1>7, WriteKeeps

LEMMA DecisionsSelect ==
    ASSUME DecisionsInv, NEW c \in Clients, Select(c)
    PROVE  \A v \in Users \ raced' : Decided(v)'
<1>0. PICK r : r = [op |-> "save", user |-> req[c].user, row |-> req[c].row,
                    base |-> account[req[c].user]]
  OBVIOUS
<1>1. /\ req[c].op = "loaded" /\ req' = [req EXCEPT ![c] = r]
      /\ UNCHANGED <<account, social, withdrawn, raced>>
  BY <1>0 DEF Select, histories
<1>2. /\ \A d \in Clients : req'[d] = IF d = c THEN r ELSE req[d]
      /\ \A d \in Clients, v \in Users : Working(d, v)' <=> Working(d, v)
  <2>1. \A d \in Clients : req'[d] = IF d = c THEN r ELSE req[d]
    BY <1>1 DEF DecisionsInv, PeopleInv, AccountsInv
  <2>2. \A v : Working(c, v)' <=> req[c].user = v
    BY <1>0, <2>1 DEF Working
  <2>3. "user" \in DOMAIN req[c]
    BY <1>1 DEF DecisionsInv, PeopleInv, Shape, About, Writing
  <2>4. \A v : Working(c, v) <=> req[c].user = v
    BY <1>1, <2>3 DEF Working
  <2> QED BY <2>1, <2>2, <2>4 DEF Working
<1> TAKE u \in Users \ raced'
<1>3. Decided(u)
  BY <1>1 DEF DecisionsInv
<1>4. ASSUME NEW d \in Clients, Working(d, u) PROVE Found(req[d])'
  <2>1. Found(req[d]) /\ UNCHANGED account
    BY <1>1, <1>3, <1>4 DEF Decided
  <2>2. CASE d # c
    <3>1. req'[d] = req[d]
      BY <1>2, <2>2
    <3> QED BY <2>1, <3>1 DEF Found
  <2>3. CASE d = c
    <3>1. \A k \in {"role", "status"} : k \in DOMAIN r.row => r.row[k] = account[r.user][k]
      BY <1>0, <1>1, <2>1, <2>3 DEF Found
    <3>2. r.op = "save" /\ r.base = account[r.user] /\ req'[c] = r
      BY <1>0, <1>2
    <3> QED BY <2>1, <2>3, <3>1, <3>2 DEF Found, Writing
  <2> QED BY <2>2, <2>3
<1> QED BY <1>1, <1>2, <1>3, <1>4 DEF Decided, Exists

LEMMA DecisionsStep == DecisionsInv /\ IdentityNext => DecisionsInv'
<1> SUFFICES ASSUME DecisionsInv, IdentityNext PROVE DecisionsInv'
  OBVIOUS
<1>0. PeopleInv /\ PeopleInv' /\ AccountsInv
  BY PeopleStep DEF DecisionsInv, PeopleInv
<1>1. SUFFICES \A v \in Users \ raced' : Decided(v)'
  BY <1>0 DEF DecisionsInv
<1> DEFINE Goal == \A v \in Users \ raced' : Decided(v)'
\* Nothing but the end of requests.
<1>2. ASSUME Restart PROVE Goal
  <2>1. /\ req' = [c \in Clients |-> Idle] /\ UNCHANGED <<account, social, withdrawn, raced>>
    BY <1>2 DEF Restart, histories
  <2>2. \A c \in Clients, v \in Users : ~Working(c, v)'
    BY <2>1, IdleWorksNot DEF Working
  <2> QED BY <2>1, <2>2, LeftAlone DEF DecisionsInv
<1>3. ASSUME NEW u \in Users, Login(u) \/ CreateSession(u) PROVE Goal
  <2>1. UNCHANGED <<account, social, req, withdrawn, raced>>
    BY <1>3 DEF Login, CreateSession, histories
  <2>2. \A c \in Clients, v \in Users : Working(c, v)' <=> Working(c, v)
    BY <2>1 DEF Working
  <2> QED BY <2>1, <2>2, LeftAlone DEF DecisionsInv
<1>4. ASSUME NEW c \in Clients, Answer(c) PROVE Goal
  <2>1. req' = [req EXCEPT ![c] = Idle] /\ UNCHANGED <<account, social, withdrawn, raced>>
    BY <1>4 DEF Answer, Done, histories
  <2> QED BY <2>1, IdleWorksNot, RequestAway
<1>5. ASSUME NEW c \in Clients, NEW e \in Emails, NEW n \in Nicks, JoinCheck(c, e, n) PROVE Goal
  <2> DEFINE r == [op |-> "join", email |-> e, nick |-> n]
  <2>1. req' = [req EXCEPT ![c] = r] /\ UNCHANGED <<account, social, withdrawn, raced>>
    BY <1>5 DEF JoinCheck, histories
  <2>2. "user" \notin DOMAIN r
    OBVIOUS
  <2> HIDE DEF r
  <2> QED BY <2>1, <2>2, RequestAway
<1>6. ASSUME NEW c \in Clients, SocialLink(c) PROVE Goal
  <2>1. /\ req' = [req EXCEPT ![c] = Idle] /\ UNCHANGED <<account, withdrawn, raced>>
        /\ req[c].op = "link" /\ social' = social \cup {<<req[c].email, req[c].user>>}
    BY <1>6 DEF SocialLink, Done, histories
  <2>2. Working(c, req[c].user)
    BY <1>0, <2>1 DEF PeopleInv, Shape, About, Working
  <2>3. \A s \in social' : s \in social \/ Working(c, s[2])
    BY <2>1, <2>2
  <2> QED BY <2>1, <2>3, IdleWorksNot, RequestAway
\* An account taken up.
<1>7. ASSUME NEW u \in Users, Alive(u)
      PROVE  /\ account[u] \in Account
             /\ u \notin raced => /\ u \notin withdrawn
                                  /\ Exists(u) /\ account[u].status = "approved"
                                       => account[u].role = "mentor"
  <2>1. account[u] \in Account
    BY <1>0, <1>7 DEF AccountsInv, Alive, Exists
  <2> QED BY <1>7, <2>1 DEF DecisionsInv, Decided, Alive
<1>8. ASSUME NEW c \in Clients, NEW u \in Users, NEW r, Take(c, u, r), Alive(u),
             r.op # "idle", "user" \in DOMAIN r, r.user = u,
             UNCHANGED <<account, social>>, Found(r)
      PROVE  Goal
  <2>1. Found(r)'
    BY <1>8 DEF Found
  <2>2. Exists(u)' <=> Exists(u)
    BY <1>8 DEF Exists
  <2> QED BY <1>7, <1>8, <2>1, <2>2, TakeKeeps
<1>9. ASSUME NEW c \in Clients, NEW e \in Emails, SocialFind(c, e) PROVE Goal
  <2>1. UNCHANGED <<account, social>>
    BY <1>9 DEF SocialFind
  <2>2. CASE \E u \in Holders(e) : Take(c, u, [op |-> "link", email |-> e, user |-> u])
    <3>1. PICK u \in Holders(e) : Take(c, u, [op |-> "link", email |-> e, user |-> u])
      BY <2>2
    <3> DEFINE r == [op |-> "link", email |-> e, user |-> u]
    <3>2. u \in Users /\ Alive(u) /\ Take(c, u, r)
      BY <3>1 DEF Holders
    <3>3. r.op = "link" /\ "user" \in DOMAIN r /\ r.user = u
      OBVIOUS
    <3> HIDE DEF r
    <3>4. Found(r)
      BY <3>3 DEF Found, Writing
    <3> QED BY <1>8, <2>1, <3>2, <3>3, <3>4
  <2>3. CASE /\ req' = [req EXCEPT ![c] = [op |-> "create", email |-> e]]
             /\ UNCHANGED histories
    <3> DEFINE r == [op |-> "create", email |-> e]
    <3>1. req' = [req EXCEPT ![c] = r] /\ UNCHANGED <<account, social, withdrawn, raced>>
      BY <2>1, <2>3 DEF histories
    <3>2. "user" \notin DOMAIN r
      OBVIOUS
    <3> HIDE DEF r
    <3> QED BY <3>1, <3>2, RequestAway
  <2> QED BY <1>9, <2>2, <2>3 DEF SocialFind
<1>10. ASSUME NEW c \in Clients, NEW u \in Users, NEW row, LoadToSave(c, u, row),
              \A k \in {"role", "status"} : k \in DOMAIN row => row[k] = account[u][k]
       PROVE  Goal
  <2> DEFINE r == [op |-> "loaded", user |-> u, row |-> row]
  <2>1. Take(c, u, r) /\ Alive(u) /\ UNCHANGED <<account, social>>
    BY <1>10 DEF LoadToSave
  <2>2. r.op = "loaded" /\ "user" \in DOMAIN r /\ r.user = u /\ r.row = row
    OBVIOUS
  <2> HIDE DEF r
  <2>3. Found(r)
    BY <1>10, <2>2 DEF Found, Writing
  <2> QED BY <1>8, <2>1, <2>2, <2>3
<1>11. ASSUME NEW c \in Clients, NEW u \in Users,
              EditAccount(c, u) \/ SuspendAccount(c, u) \/ EditMentor(c, u)
       PROVE  Goal
  <2>1. Alive(u)
    BY <1>11 DEF EditAccount, SuspendAccount, EditMentor, LoadToSave
  <2>2. \A row \in Edits(u) \cup {[account[u] EXCEPT !.deleted = TRUE]} :
          \A k \in {"role", "status"} : k \in DOMAIN Columns(row, UserColumns) =>
             Columns(row, UserColumns)[k] = account[u][k]
    BY <1>7, <2>1 DEF Edits, Columns, UserColumns, Account
  <2>3. \A k \in {"role", "status"} : k \in DOMAIN Columns(account[u], MentorColumns) =>
             Columns(account[u], MentorColumns)[k] = account[u][k]
    BY DEF Columns, MentorColumns
  <2>4. CASE EditAccount(c, u)
    BY <1>10, <2>2, <2>4 DEF EditAccount
  <2>5. CASE SuspendAccount(c, u)
    BY <1>10, <2>2, <2>5 DEF SuspendAccount
  <2>6. CASE EditMentor(c, u)
    BY <1>10, <2>3, <2>6 DEF EditMentor
  <2> QED BY <1>11, <2>4, <2>5, <2>6
<1>12. ASSUME NEW c \in Clients, NEW u \in Users, NEW op \in Writing \ {"loaded", "save"},
              NEW row, Begin(c, u, op, row),
              op = "accept" => "role" \in DOMAIN row /\ row.role = "mentor",
              op \in {"apply", "reject"} => "status" \in DOMAIN row /\ row.status # "approved",
              op = "withdraw" => row = [email |-> Freed, deleted |-> TRUE]
       PROVE  Goal
  <2>0. PICK r : r = [op |-> op, user |-> u, row |-> row, base |-> account[u]]
    OBVIOUS
  <2>1. Take(c, u, r) /\ Alive(u) /\ UNCHANGED <<account, social>>
    BY <1>12, <2>0 DEF Begin
  <2>2. /\ r.op = op /\ r.user = u /\ r.row = row /\ r.base = account[u]
        /\ "user" \in DOMAIN r /\ op # "idle"
    BY <2>0 DEF Writing
  <2>3. Found(r)
    BY <1>12, <2>2 DEF Found
  <2> QED BY <1>8, <2>1, <2>2, <2>3
<1>13. {"apply", "accept", "reject", "withdraw"} \subseteq Writing \ {"loaded", "save"}
  BY DEF Writing
<1>14. ASSUME NEW c \in Clients, NEW u \in Users, Apply(c, u) PROVE Goal
  BY <1>12, <1>13, <1>14 DEF Apply
<1>15. ASSUME NEW c \in Clients, NEW u \in Users, DeleteAccount(c, u) PROVE Goal
  BY <1>12, <1>13, <1>15 DEF DeleteAccount
<1>16. ASSUME NEW c \in Clients, NEW u \in Users, NEW s \in Status \ {"none"},
              ApproveMentor(c, u, s)
       PROVE  Goal
  <2>1. CASE s = "rejected"
    <3>1. Begin(c, u, "reject", [status |-> "rejected"])
      BY <1>16, <2>1 DEF ApproveMentor
    <3> QED BY <1>12, <1>13, <3>1
  <2>2. CASE s # "rejected"
    <3>1. Begin(c, u, "accept", [status |-> s, role |-> "mentor"])
      BY <1>16, <2>2 DEF ApproveMentor
    <3> QED BY <1>12, <1>13, <3>1
  <2> QED BY <2>1, <2>2
\* An account that gets its id.
<1>17. ASSUME NEW u \in Users, NEW e, NEW n, Insert(u, e, n)
       PROVE  /\ u \notin withdrawn /\ \A d \in Clients : ~Working(d, u)
              /\ account'[u].status = "none"
              /\ \A v \in Users \ {u} : account'[v] = account[v]
  <2>1. account' = [account EXCEPT ![u] = NewRow(e, n)] /\ ~Exists(u)
    BY <1>17 DEF Insert
  <2>2. u \notin withdrawn
    BY <1>0, <2>1 DEF PeopleInv, Existing
  <2>3. \A d \in Clients : ~Working(d, u)
    BY <1>0, <2>1 DEF PeopleInv, Shape, Working
  <2> QED BY <1>0, <2>1, <2>2, <2>3 DEF AccountsInv, NewRow
<1>18. ASSUME NEW c \in Clients, NEW u \in Users, JoinSave(c, u) PROVE Goal
  <2>1. /\ Insert(u, req[c].email, req[c].nick) /\ req' = [req EXCEPT ![c] = Idle]
        /\ UNCHANGED <<social, withdrawn, raced>>
    BY <1>18 DEF JoinSave, Done, histories
  <2>2. /\ u \notin withdrawn /\ \A d \in Clients : ~Working(d, u)
        /\ account'[u].status = "none"
        /\ \A v \in Users \ {u} : account'[v] = account[v]
    BY <1>17, <2>1
  <2>3. \A d \in Clients, v \in Users : Working(d, v)' => Working(d, v) /\ req'[d] = req[d]
    BY <1>0, <2>1, IdleWorksNot DEF Working, AccountsInv
  <2>4. ASSUME NEW v \in Users \ raced', v # u PROVE Decided(v)'
    BY <2>1, <2>2, <2>3, <2>4, LeftAlone DEF DecisionsInv
  <2>5. Decided(u)'
    BY <2>1, <2>2, <2>3 DEF Decided
  <2> QED BY <2>4, <2>5
<1>19. ASSUME NEW c \in Clients, NEW u \in Users, SocialCreate(c, u) PROVE Goal
  <2>0. PICK r : r = [op |-> "link", email |-> req[c].email, user |-> u]
    OBVIOUS
  <2>1. /\ Insert(u, req[c].email, Random) /\ Take(c, u, r) /\ UNCHANGED social
    BY <1>19, <2>0 DEF SocialCreate
  <2>2. /\ u \notin withdrawn /\ account'[u].status = "none"
        /\ \A v \in Users \ {u} : account'[v] = account[v]
    BY <1>17, <2>1
  <2>3. r.op = "link" /\ "user" \in DOMAIN r /\ r.user = u
    BY <2>0
  <2>4. Found(r)'
    BY <2>3 DEF Found, Writing
  <2> QED BY <2>1, <2>2, <2>3, <2>4, TakeKeeps
<1>20. ASSUME NEW c \in Clients, Select(c) \/ Update(c) \/ Commit(c) PROVE Goal
  BY <1>20, DecisionsSelect, DecisionsUpdate, DecisionsCommit
<1>21. ASSUME NEW c \in Clients, NEW u \in Users, JoinCrash(c, u) PROVE Goal
  BY <1>2, <1>21 DEF JoinCrash
<1> HIDE DEF Goal
<1>22. Goal
  BY <1>2, <1>3, <1>4, <1>5, <1>6, <1>9, <1>11, <1>14, <1>15, <1>16, <1>18, <1>19, <1>20,
     <1>21 DEF IdentityNext
<1> QED BY <1>22 DEF Goal

LEMMA DecisionsUnchanged == DecisionsInv /\ UNCHANGED people => DecisionsInv'
<1> SUFFICES ASSUME DecisionsInv, UNCHANGED people PROVE DecisionsInv'
  OBVIOUS
<1>1. UNCHANGED <<account, social, req, mentorToken, published, accepted, withdrawn, raced>>
  BY DEF people, identityVars, histories
<1>2. AccountsInv'
  BY <1>1 DEF DecisionsInv, PeopleInv, AccountsInv, RequestFits, Exists
<1>3. PeopleInv'
  BY <1>1, <1>2 DEF DecisionsInv, PeopleInv, Shape, Existing, Exists
<1>4. \A u \in Users \ raced : Decided(u)'
  <2>1. \A c \in Clients, u \in Users : Working(c, u)' <=> Working(c, u)
    BY <1>1 DEF Working
  <2> QED BY <1>1, <2>1, LeftAlone DEF DecisionsInv
<1> QED BY <1>1, <1>3, <1>4 DEF DecisionsInv

LEMMA DecisionsAlways == Spec => []DecisionsInv
<1>1. Init => DecisionsInv
  BY DecisionsInit DEF Init
<1>2. DecisionsInv /\ [Next]_siteVars => DecisionsInv'
  <2>1. [Next]_siteVars => IdentityNext \/ UNCHANGED people
    BY DEF Next, siteVars, People, SignUps, Posts, Browse, Chats, Pages, Queries
  <2> QED BY <2>1, DecisionsStep, DecisionsUnchanged
<1> QED BY <1>1, <1>2, PTL DEF Spec

(* What was decided about an account stands, for any number of accounts    *)
(* and requests, restarts included, as long as no two requests have worked *)
(* on it at once: the request at work has the row as it is, so what it     *)
(* saves takes nothing back; a withdrawn account stays closed, freed and   *)
(* unlinked, because nobody takes it up again (users.service.ts 296-303);  *)
(* and the status APPROVED only comes with the mentor's role               *)
(* (admin.service.ts 203-215).                                             *)
THEOREM DecisionsStay == Spec => []DecisionsStand
<1>1. DecisionsInv => DecisionsStand
  BY DEF DecisionsInv, Decided, DecisionsStand
<1> QED BY <1>1, DecisionsAlways, PTL
=============================================================================
