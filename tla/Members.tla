------------------------------- MODULE Members -------------------------------
(***************************************************************************)
(* The rows of users and mentors (user.entity.ts, mentor.entity.ts), taken *)
(* as one record per account, and what TypeORM does when a loaded row is   *)
(* saved: it reads the row again and writes the columns that differ.       *)
(***************************************************************************)
EXTENDS Naturals, FiniteSets

CONSTANTS
    Users,       \* the ids accounts may get
    Emails,      \* e-mail addresses; each owns one social identity
    Nicks,       \* nicknames a person may choose
    Registered,  \* the accounts there are at the start: id -> row
    NoRow        \* no account has that id yet

Freed  == "freed"    \* deleted_<id>: an address nobody else can have
Random == "random"   \* the nickname of a social account, always new

Role   == {"mentee", "mentor"}
Status == {"none", "pending", "approved", "rejected"}   \* "none": no mentor row
Account == [email : Emails \cup {Freed}, nick : Nicks \cup {Random},
            role : Role, status : Status, deleted : BOOLEAN]
UserColumns   == {"email", "nick", "role", "deleted"}
MentorColumns == {"status"}

ASSUME RegisteredAssumption ==
    /\ Freed \notin Emails
    /\ Random \notin Nicks
    /\ NoRow \notin Account
    /\ DOMAIN Registered \subseteq Users
    /\ \A u \in DOMAIN Registered :
        /\ Registered[u] \in Account
        /\ Registered[u].role = "mentee"
        /\ ~Registered[u].deleted
        /\ Registered[u].status # "approved"
        /\ Registered[u].email # Freed

VARIABLE account

MembersInit ==
    account = [u \in Users |-> IF u \in DOMAIN Registered THEN Registered[u]
                                                          ELSE NoRow]

Exists(u) == account[u] # NoRow

\* What find, findOne and the joins see: not the rows with a deletedAt.
Alive(u) == Exists(u) /\ ~account[u].deleted

Columns(row, cs) == [c \in cs |-> row[c]]

\* save(row), when the database held base as TypeORM looked and holds now as
\* it writes: the columns that differ from base are written over.
Saved(now, row, base) ==
    [c \in DOMAIN now |->
        IF c \in DOMAIN row THEN IF row[c] # base[c] THEN row[c] ELSE now[c]
        ELSE now[c]]

\* The unique columns: no other row, withdrawn or not, has them.
Unique(u, email, nick) ==
    \A v \in Users \ {u} :
        Exists(v) =>
            /\ account[v].email = email => email = Freed
            /\ account[v].nick = nick => nick = Random
=============================================================================
