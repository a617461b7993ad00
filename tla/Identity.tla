------------------------------ MODULE Identity ------------------------------
(***************************************************************************)
(* Accounts: joining, social login, profile edits, withdrawal, suspension, *)
(* the mentor's application and its approval (auth.service.ts,             *)
(* users.service.ts, mentors.service.ts, admin.service.ts 176-265,         *)
(* 528-551), and the sessions a mentor's token lets him create.  A request *)
(* waits at each await.  A save outside a transaction is two statements, a *)
(* select and an update; inside one the select sees the transaction's      *)
(* snapshot, so only what the handler changed is written.                  *)
(***************************************************************************)
EXTENDS Members

CONSTANTS
    Clients,      \* the requests that may be in flight at once
    MaxRequests   \* bound: requests begun in a behaviour

ASSUME IdentityAssumption == MaxRequests \in Nat

VARIABLES
    social,      \* social_accounts: <<address, account>>
    req,         \* client -> the request it waits for
    mentorToken, \* accounts holding a token whose role is MENTOR
    published,   \* accounts that own a mentoring session
    accepted,    \* history: accounts an administrator did not reject
    withdrawn,   \* history: accounts whose withdrawal was committed
    raced,       \* history: accounts two requests worked on at once
    begun        \* requests begun so far

histories == <<accepted, withdrawn, raced>>
identityVars == <<account, social, req, mentorToken, published, histories, begun>>

Idle == [op |-> "idle"]

IdentityInit ==
    /\ MembersInit
    /\ social = {}
    /\ req = [c \in Clients |-> Idle]
    /\ mentorToken = {} /\ published = {}
    /\ accepted = {} /\ withdrawn = {} /\ raced = {}
    /\ begun = 0

Starts(c) ==
    /\ req[c] = Idle
    /\ begun < MaxRequests
    /\ begun' = begun + 1

Done(c) == req' = [req EXCEPT ![c] = Idle] /\ UNCHANGED begun

\* A handler that throws, or only answers, leaves the tables alone.
Answer(c) ==
    /\ req[c] # Idle
    /\ Done(c)
    /\ UNCHANGED <<account, social, mentorToken, published, histories>>

-----------------------------------------------------------------------------
(* Joining *)

\* The duplicate checks look at live accounts only.
JoinCheck(c, e, n) ==
    /\ Starts(c)
    /\ \A u \in Users : Alive(u) => account[u].email # e /\ account[u].nick # n
    /\ req' = [req EXCEPT ![c] = [op |-> "join", email |-> e, nick |-> n]]
    /\ UNCHANGED <<account, social, mentorToken, published, histories>>

NewRow(e, n) ==
    [email |-> e, nick |-> n, role |-> "mentee", status |-> "none", deleted |-> FALSE]

Insert(u, e, n) ==
    /\ ~Exists(u)
    /\ Unique(u, e, n)
    /\ account' = [account EXCEPT ![u] = NewRow(e, n)]

JoinSave(c, u) ==
    /\ req[c].op = "join"
    /\ Insert(u, req[c].email, req[c].nick)
    /\ Done(c)
    /\ UNCHANGED <<social, mentorToken, published, histories>>

\* The process dies and starts again: its requests are gone.
Restart ==
    /\ req' = [c \in Clients |-> Idle]
    /\ UNCHANGED <<account, social, mentorToken, published, histories, begun>>

\* Nobody awaits createUser's save: a duplicate is an unhandled rejection.
JoinCrash(c, u) ==
    /\ req[c].op = "join"
    /\ ~Exists(u)
    /\ ~Unique(u, req[c].email, req[c].nick)
    /\ Restart

-----------------------------------------------------------------------------
(* Social login of the owner of address e *)

Working(d, u) == req[d].op # "idle" /\ "user" \in DOMAIN req[d] /\ req[d].user = u

\* From here c works on u's row, until it is Done.
Take(c, u, r) ==
    /\ req' = [req EXCEPT ![c] = r]
    /\ raced' = IF \E d \in Clients \ {c} : Working(d, u) THEN raced \cup {u} ELSE raced
    /\ UNCHANGED <<accepted, withdrawn>>

Linked(e) == {u \in Users : Alive(u) /\ <<e, u>> \in social}
Holders(e) == {u \in Users : Alive(u) /\ account[u].email = e}

SocialFind(c, e) ==
    /\ Starts(c)
    /\ Linked(e) = {}
    /\ \/ \E u \in Holders(e) :
            Take(c, u, [op |-> "link", email |-> e, user |-> u])
       \/ /\ Holders(e) = {}
          /\ req' = [req EXCEPT ![c] = [op |-> "create", email |-> e]]
          /\ UNCHANGED histories
    /\ UNCHANGED <<account, social, mentorToken, published>>

\* createSocialUser, its first save; Answer when the address is taken.
SocialCreate(c, u) ==
    /\ req[c].op = "create"
    /\ Insert(u, req[c].email, Random)
    /\ Take(c, u, [op |-> "link", email |-> req[c].email, user |-> u])
    /\ UNCHANGED <<social, mentorToken, published, begun>>

\* socialId is unique: Answer when the address is linked already.
SocialLink(c) ==
    /\ req[c].op = "link"
    /\ \A s \in social : s[1] # req[c].email
    /\ social' = social \cup {<<req[c].email, req[c].user>>}
    /\ Done(c)
    /\ UNCHANGED <<account, mentorToken, published, histories>>

-----------------------------------------------------------------------------
(* Handlers that load an account, change it and save it *)

\* Nicknames, phone, image and password: users.service.ts 132-220.
Edits(u) == {[account[u] EXCEPT !.nick = n] : n \in Nicks \cup {account[u].nick}}

LoadToSave(c, u, row) ==
    /\ Starts(c)
    /\ Alive(u)
    /\ Take(c, u, [op |-> "loaded", user |-> u, row |-> row])
    /\ UNCHANGED <<account, social, mentorToken, published>>

EditAccount(c, u) ==
    Alive(u) /\ \E row \in Edits(u) : LoadToSave(c, u, Columns(row, UserColumns))

SuspendAccount(c, u) ==
    Alive(u) /\ LoadToSave(c, u, Columns([account[u] EXCEPT !.deleted = TRUE], UserColumns))

\* Company, career, position, expertise: mentors.service.ts 60-170.
EditMentor(c, u) ==
    /\ Alive(u) /\ account[u].status # "none"
    /\ LoadToSave(c, u, Columns(account[u], MentorColumns))

\* save: the select ...
Select(c) ==
    /\ req[c].op = "loaded"
    /\ req' = [req EXCEPT ![c] = [op |-> "save", user |-> req[c].user,
                                  row |-> req[c].row, base |-> account[req[c].user]]]
    /\ UNCHANGED <<account, social, mentorToken, published, histories, begun>>

After(c) == Saved(account[req[c].user], req[c].row, req[c].base)

\* ... and the update; Answer when a unique column is taken.
Update(c) ==
    /\ req[c].op = "save"
    /\ Unique(req[c].user, After(c).email, After(c).nick)
    /\ account' = [account EXCEPT ![req[c].user] = After(c)]
    /\ Done(c)
    /\ UNCHANGED <<social, mentorToken, published, histories>>

-----------------------------------------------------------------------------
(* Transactions *)

Begin(c, u, op, row) ==
    /\ Starts(c)
    /\ Alive(u)
    /\ Take(c, u, [op |-> op, user |-> u, row |-> row, base |-> account[u]])
    /\ UNCHANGED <<account, social, mentorToken, published>>

Apply(c, u) ==
    Alive(u) /\ account[u].status = "none"
    /\ Begin(c, u, "apply", [status |-> "pending"])

\* Mutant of ApproveMentor: the role is given before the status is looked at.
ApproveAny(c, u, s) ==
    /\ Alive(u) /\ account[u].status # "none"
    /\ Begin(c, u, IF s = "rejected" THEN "reject" ELSE "accept",
             [status |-> s, role |-> "mentor"])

\* The body's status is any of the enum: all but REJECTED make a mentor.
ApproveMentor(c, u, s) ==
    /\ Alive(u) /\ account[u].status # "none"
    /\ Begin(c, u, IF s = "rejected" THEN "reject" ELSE "accept",
             IF s = "rejected" THEN [status |-> s] ELSE [status |-> s, role |-> "mentor"])

DeleteAccount(c, u) ==
    Begin(c, u, "withdraw", [email |-> Freed, deleted |-> TRUE])

\* Mutant of Commit: a withdrawal keeps the social logins.
CommitKeepingSocial(c) ==
    /\ req[c].op \in {"apply", "accept", "reject", "withdraw"}
    /\ req[c].op = "apply" => account[req[c].user].status = "none"
    /\ account' = [account EXCEPT ![req[c].user] = After(c)]
    /\ accepted' = IF req[c].op = "accept" THEN accepted \cup {req[c].user} ELSE accepted
    /\ withdrawn' = IF req[c].op = "withdraw" THEN withdrawn \cup {req[c].user} ELSE withdrawn
    /\ Done(c)
    /\ UNCHANGED <<social, mentorToken, published, raced>>

\* A second application would be a second row for the same user.
Commit(c) ==
    /\ req[c].op \in {"apply", "accept", "reject", "withdraw"}
    /\ req[c].op = "apply" => account[req[c].user].status = "none"
    /\ account' = [account EXCEPT ![req[c].user] = After(c)]
    /\ social' = IF req[c].op = "withdraw"
                 THEN {s \in social : s[2] # req[c].user} ELSE social
    /\ accepted' = IF req[c].op = "accept" THEN accepted \cup {req[c].user} ELSE accepted
    /\ withdrawn' = IF req[c].op = "withdraw" THEN withdrawn \cup {req[c].user} ELSE withdrawn
    /\ Done(c)
    /\ UNCHANGED <<mentorToken, published, raced>>

-----------------------------------------------------------------------------
(* What a role opens *)

\* The token keeps the role of the login until it expires.
Login(u) ==
    /\ Alive(u) /\ account[u].role = "mentor"
    /\ mentorToken' = mentorToken \cup {u}
    /\ UNCHANGED <<account, social, req, published, histories, begun>>

\* RolesGuard reads the token, createSession the mentor's row.
CreateSession(u) ==
    /\ u \in mentorToken
    /\ Alive(u) /\ account[u].status # "none"
    /\ published' = published \cup {u}
    /\ UNCHANGED <<account, social, req, mentorToken, histories, begun>>

IdentityNext ==
    \/ Restart
    \/ \E u \in Users : Login(u) \/ CreateSession(u)
    \/ \E c \in Clients :
        \/ Answer(c) \/ SocialLink(c) \/ Select(c) \/ Update(c) \/ Commit(c)
        \/ \E e \in Emails : SocialFind(c, e) \/ \E n \in Nicks : JoinCheck(c, e, n)
        \/ \E u \in Users :
            \/ JoinSave(c, u) \/ JoinCrash(c, u) \/ SocialCreate(c, u)
            \/ EditAccount(c, u) \/ SuspendAccount(c, u) \/ EditMentor(c, u)
            \/ Apply(c, u) \/ DeleteAccount(c, u)
            \/ \E s \in Status \ {"none"} : ApproveMentor(c, u, s)
-----------------------------------------------------------------------------
(* A session belongs to someone an administrator accepted as a mentor,     *)
(* whatever was loaded before and saved after: the role only comes from    *)
(* approveMentor (admin.service.ts 206-213), the token from the role and   *)
(* the session from the token (mentoring.controller.ts 44-46).             *)
SessionsByAccepted == published \subseteq accepted

(* Unless two requests worked on an account at once, what was decided      *)
(* about it stands: a withdrawn account stays closed, its address freed    *)
(* and its social logins gone (users.service.ts 296-303), and an approved  *)
(* mentor has the mentor's role (admin.service.ts 203-215), whatever       *)
(* crashed, was retried or was created since.                              *)
DecisionsStand ==
    \A u \in Users \ raced :
        /\ u \in withdrawn =>
            /\ account[u].deleted /\ account[u].email = Freed
            /\ \A s \in social : s[2] # u
        /\ Exists(u) /\ account[u].status = "approved" => account[u].role = "mentor"
=============================================================================
