------------------------------- MODULE MCSite -------------------------------
(* An instance of Site for TLC. *)
EXTENDS Site, TLC

CONSTANTS ann, bob, cid, annMail, bobMail, cidMail, n1, n2, c1, c2, chrome, phone,
          x1, x2, d1, d2, d3

Person(e, n, s) ==
    [email |-> e, nick |-> n, role |-> "mentee", status |-> s, deleted |-> FALSE]

\* Ann has applied as a mentor, Bob came by a social login, Cid has no account.
Members0 == (ann :> Person(annMail, n1, "pending")) @@ (bob :> Person(bobMail, Random, "none"))

\* The parts share the accounts and nothing else, so it is enough to run one
\* at a time: posts and push tokens beside the withdrawal of an account.
VARIABLE part

MCInit ==
    /\ Init
    /\ part \in {"people", "codes", "likes", "threads", "devices", "chats", "pages", "pool"}

\* Ann, who writes the articles, or anyone where there are only comments.
Withdraw ==
    /\ begun <= 1
    /\ People
    /\ \A c \in Clients :
        \/ req'[c].op = "idle"
        \/ req'[c].op = "withdraw" /\ (part = "threads" \/ req'[c].user = ann)

MCNext ==
    /\ UNCHANGED part
    /\ \/ part = "people" /\ People
       \/ part = "codes" /\ SignUps
       \/ part \in {"likes", "threads"} /\ Posts
       \/ part = "devices" /\ Browse
       \/ part \in {"likes", "threads", "devices"} /\ Withdraw
       \/ part = "chats" /\ Chats
       \/ part = "pages" /\ Pages
       \/ part = "pool" /\ Queries

MCSpec == MCInit /\ [][MCNext]_<<siteVars, part>>

\* Likes and threads share the articles and the inbox.
Halves ==
    /\ part = "threads" => \A u \in Users : act[u].op \notin {"read", "like"}
    /\ part = "likes" => \A u \in Users : act[u].op # "comment"

\* The pages: four rows where a page can be torn, fewer places to move to.
Fewer ==
    query # Absent =>
        /\ created + changes <= IF query.sort = "field" THEN 4 ELSE 5
        /\ created = 4 =>
              /\ query.list \in {"MentorList", "ArticleList", "CommentList", "MenteeIncome",
                                "MentorSessions"}
              /\ query.sort = "latest"
        /\ query.sort = "field" =>
              /\ query.list \in {"Catalogue", "NoticeList"}
              /\ query.status = "all"
              /\ created + changes = 4 => Untied

Symmetry == Permutations({c1, c2}) \cup Permutations({chrome, phone})
=============================================================================
