------------------------------- MODULE Lists -------------------------------
(***************************************************************************)
(* The paged lists.  Each is a query over one table: some rows are kept,   *)
(* put in order, cut by skip and take, counted by a query of its own, and  *)
(* mapped to an answer; someone turns the pages, by the count, while the   *)
(* table changes.  Where the query joins other tables TypeORM sends two:   *)
(* for the ids of a page, and for the rows with these ids that still meet  *)
(* the conditions.  A behaviour is about one list, asked in one way.       *)
(***************************************************************************)
EXTENDS Integers, FiniteSets

CONSTANTS
    MaxRows,     \* bound: rows the table ever gets
    PageSize,    \* limit
    MaxChanges,  \* bound: changes of rows in a behaviour
    MaxPlaces,   \* bound: values of the field rows are ordered by
    Absent       \* in place of a query or of a row

ASSUME ListsAssumption ==
    /\ MaxRows \in Nat /\ PageSize \in Nat \ {0}
    /\ MaxChanges \in Nat /\ MaxPlaces \in Nat

VARIABLES
    query,    \* [list, status, sort]: what the reader asks for
    table,    \* id -> [kind, open, place], or Absent; the ids follow createdAt
    created,  \* rows created so far
    changes,  \* changes made so far
    reader    \* [state, page, ids, shown] and, history, [start, moved, torn]

listsVars == <<query, table, created, changes, reader>>

RowIds == 1 .. MaxRows
Present(id) == table[id] # Absent

-----------------------------------------------------------------------------
(* The lists.  A row has the kind some list filters on, and is open while  *)
(* the account whose name it shows is.  An answer that reads a name of a   *)
(* closed account, which the join leaves out, throws.                      *)

Entry(kept, throws) == [kept |-> kept, throws |-> throws]

\* The administrator's (admin.service.ts).
MentorList(r)   == Entry(TRUE, ~r.open)
UserList(r)     == Entry(r.open, FALSE)
UserListWithFilters(r) ==
    Entry(r.open /\ query.status \in {"all", r.kind}, FALSE)
\* "waiting" is not in the map of its three words: nothing is filtered.
PaymentList(r)  == Entry(query.status \in {"all", "waiting", r.kind}, ~r.open)
ArticleList(r)  == Entry(TRUE, ~r.open)
NoticeList(r)   ==
    Entry(query.status = "all" \/ (query.status = "true" <=> r.kind = "published"), FALSE)
MentoringSessions(r) == Entry(query.status \in {"all", r.kind}, FALSE)
\* Only three of the six statuses are filtered on.
MentoringReservations(r) ==
    Entry(query.status \in {"pending", "confirmed", "cancelled"} => r.kind = query.status,
          FALSE)

\* Everybody's: session.service.ts, article.service.ts.
Catalogue(r)    == Entry(r.kind = "published", ~r.open)
PublicArticles(r) == Entry(query.status \in {"all", r.kind}, ~r.open)
CommentList(r)  == Entry(r.kind = "top", ~r.open)

\* The mentor's and the mentee's own.
MentorSessions(r)     == Entry(TRUE, FALSE)
MentorIncome(r)       == Entry(r.kind = "success", ~r.open)
MenteeIncome(r)       == Entry(r.kind \in {"success", "refunded"}, ~r.open)
MentorReservationList(r)  == Entry(r.kind # "expired", ~r.open)
MyReservations(r)         == Entry(r.kind \in {"confirmed", "progress"}, ~r.open)
MyClearReservations(r)    == Entry(r.kind = "completed", ~r.open)

EntryOf(r) ==
    CASE query.list = "MentorList"            -> MentorList(r)
      [] query.list = "UserList"              -> UserList(r)
      [] query.list = "UserListWithFilters"   -> UserListWithFilters(r)
      [] query.list = "PaymentList"           -> PaymentList(r)
      [] query.list = "ArticleList"           -> ArticleList(r)
      [] query.list = "NoticeList"            -> NoticeList(r)
      [] query.list = "MentoringSessions"     -> MentoringSessions(r)
      [] query.list = "MentoringReservations" -> MentoringReservations(r)
      [] query.list = "Catalogue"             -> Catalogue(r)
      [] query.list = "PublicArticles"        -> PublicArticles(r)
      [] query.list = "CommentList"           -> CommentList(r)
      [] query.list = "MentorSessions"        -> MentorSessions(r)
      [] query.list = "MentorIncome"          -> MentorIncome(r)
      [] query.list = "MenteeIncome"          -> MenteeIncome(r)
      [] query.list = "MentorReservationList" -> MentorReservationList(r)
      [] query.list = "MyReservations"        -> MyReservations(r)
      [] query.list = "MyClearReservations"   -> MyClearReservations(r)

\* What each list can be asked for.
All == {"all"}
Statuses ==
    [MentorList |-> All, UserList |-> All,
     UserListWithFilters |-> {"all", "mentee", "mentor"},
     PaymentList |-> {"all", "success", "failed", "refunded", "waiting"},
     ArticleList |-> All, NoticeList |-> {"all", "true", "false"},
     MentoringSessions |-> {"all", "published", "draft"},
     MentoringReservations |-> {"all", "pending", "confirmed", "cancelled", "expired"},
     Catalogue |-> All, PublicArticles |-> {"all", "career"}, CommentList |-> All,
     MentorSessions |-> All, MentorIncome |-> All, MenteeIncome |-> All,
     MentorReservationList |-> All, MyReservations |-> All, MyClearReservations |-> All]

\* The newest first; the administrator turns that round or names another
\* field, everybody orders sessions and articles by rating, price or likes.
Sorted  == {"UserListWithFilters", "PaymentList", "ArticleList", "NoticeList",
            "MentoringSessions", "MentoringReservations"}
ByField == Sorted \cup {"Catalogue", "PublicArticles"}
Sorts(l) == {"latest"} \cup {x \in {"oldest"} : l \in Sorted}
                       \cup {x \in {"field"} : l \in ByField}

Query == UNION {[list : {l}, status : Statuses[l], sort : Sorts(l)] : l \in DOMAIN Statuses}

\* The others join the tables of the names they show, and to order by a
\* field TypeORM adds the id; without joins equal values have no order.
Unjoined == {"UserList", "UserListWithFilters", "NoticeList"}
Untied == query.sort # "field" \/ query.list \notin Unjoined

-----------------------------------------------------------------------------
(* The tables: kinds rows are made with, their changes, who can delete     *)

TableOf(list) ==
    CASE list = "MentorList" -> "mentors"
      [] list \in {"UserList", "UserListWithFilters"} -> "users"
      [] list \in {"PaymentList", "MentorIncome", "MenteeIncome"} -> "payments"
      [] list \in {"ArticleList", "PublicArticles"} -> "articles"
      [] list = "NoticeList" -> "notices"
      [] list \in {"MentoringSessions", "Catalogue", "MentorSessions"} -> "sessions"
      [] list = "CommentList" -> "comments"
      [] OTHER -> "reservations"
Table == TableOf(query.list)

Made ==
    [mentors |-> {"pending"}, users |-> {"mentee"}, payments |-> {"success", "failed"},
     articles |-> {"career", "job"}, notices |-> {"published", "draft"},
     sessions |-> {"published"}, comments |-> {"top", "reply"},
     reservations |-> {"pending"}]

Back(a, b) == {<<a, b>>, <<b, a>>}
NoticeTurns   == Back("published", "draft")
SessionTurns  == Back("published", "draft")
CategoryTurns == Back("career", "job")

\* The administrator's override goes anywhere to confirmed or cancelled.
ReservationTurns ==
    {<<"pending", "expired">>, <<"confirmed", "progress">>, <<"confirmed", "completed">>}
    \cup {"pending", "progress", "completed", "expired", "cancelled"} \X {"confirmed"}
    \cup {"pending", "confirmed", "progress", "completed", "expired"} \X {"cancelled"}

Turns ==
    CASE Table = "users"    -> {<<"mentee", "mentor">>}
      [] Table = "payments" -> {<<"success", "refunded">>}
      [] Table = "articles" -> CategoryTurns
      [] Table = "notices"  -> NoticeTurns
      [] Table = "sessions" -> SessionTurns
      [] Table = "reservations" -> ReservationTurns
      [] OTHER -> {}

Lasting   == {"mentors", "users"}        \* nothing deletes their rows
Ownerless == {"notices"}                 \* no account's name is on their rows

-----------------------------------------------------------------------------
Listed == {id \in RowIds : Present(id) /\ EntryOf(table[id]).kept}

\* Where a row may stand: by createdAt, which it keeps, or by the field.
PlacesOf(id) ==
    CASE query.sort = "latest" -> {MaxRows + 1 - id}
      [] query.sort = "oldest" -> {id}
      [] query.sort = "field"  -> 1 .. MaxPlaces
FreePlaces(id) == {p \in PlacesOf(id) :
                Untied => \A j \in RowIds \ {id} : Present(j) => table[j].place # p}

Ahead(i, j) == table[i].place < table[j].place

\* The first k rows, in some order the database may return them in.
Prefixes(k) ==
    {s \in SUBSET Listed :
        /\ Cardinality(s) <= k
        /\ Cardinality(s) < k => s = Listed
        /\ \A i \in s, j \in Listed \ s : ~Ahead(j, i)}

\* Mutant of Cut: skip is page * limit.
CutFromZero(n) ==
    {r[2] \ r[1] : r \in {x \in Prefixes(n * PageSize) \X Prefixes((n + 1) * PageSize) :
                            x[1] \subseteq x[2]}}

\* What skip and take may cut out of the list as its page n.
Cut(n) ==
    {r[2] \ r[1] : r \in {x \in Prefixes((n - 1) * PageSize) \X Prefixes(n * PageSize) :
                            x[1] \subseteq x[2]}}

Away == [state |-> "away", page |-> 1, ids |-> {}, shown |-> {},
         start |-> {}, moved |-> {}, torn |-> FALSE]

ListsInit ==
    /\ query = Absent
    /\ table = [id \in RowIds |-> Absent]
    /\ created = 0 /\ changes = 0
    /\ reader = Away

Choose == query = Absent /\ query' \in Query /\ UNCHANGED <<table, created, changes, reader>>

CreateRow ==
    /\ query # Absent
    /\ created < MaxRows
    /\ created' = created + 1
    /\ \E k \in Made[Table], p \in FreePlaces(created') :
        table' = [table EXCEPT ![created'] = [kind |-> k, open |-> TRUE, place |-> p]]
    /\ UNCHANGED <<query, changes, reader>>

\* A row that leaves the list or its place in it is kept count of.
Changed(id, r) ==
    /\ changes < MaxChanges
    /\ changes' = changes + 1
    /\ UNCHANGED <<query, created>>
    /\ table' = [table EXCEPT ![id] = r]
    /\ reader' = [reader EXCEPT !.moved =
                    IF /\ reader.state # "away" /\ id \in Listed
                       /\ id \in Listed' => r.place # table[id].place
                    THEN @ \cup {<<changes', id>>} ELSE @]

ChangeRow(id) ==
    /\ Present(id)
    /\ \E k \in {table[id].kind} \cup {t[2] : t \in {x \in Turns : x[1] = table[id].kind}},
          p \in FreePlaces(id) :
        Changed(id, [table[id] EXCEPT !.kind = k, !.place = p])
    /\ table' # table

CloseOwner(id) ==
    /\ Present(id) /\ table[id].open
    /\ Table \notin Ownerless
    /\ Changed(id, [table[id] EXCEPT !.open = FALSE])

DeleteRow(id) ==
    Present(id) /\ Table \notin Lasting /\ Changed(id, Absent)

-----------------------------------------------------------------------------
(* Turning the pages *)

OpenList ==
    /\ query # Absent
    /\ reader.state = "away"
    /\ reader' = [Away EXCEPT !.state = "ids", !.start = Listed]
    /\ UNCHANGED <<query, table, created, changes>>

ReadIds ==
    /\ reader.state = "ids"
    /\ query.list \notin Unjoined
    /\ \E ids \in Cut(reader.page) :
        reader' = [reader EXCEPT !.state = "rows", !.ids = ids]
    /\ UNCHANGED <<query, table, created, changes>>

Throws(rows) == \E id \in rows : EntryOf(table[id]).throws

\* getManyAndCount does not ask for the count of a page that is not full; of
\* an empty one it depends on TypeORM's version.
Counted(rows) ==
    IF query.list = "PublicArticles" \/ Cardinality(rows) = PageSize THEN {TRUE}
    ELSE IF rows = {} THEN BOOLEAN ELSE {FALSE}

\* The ids' rows that are still listed; a page is torn when its ids were as
\* many as it holds, but so few rows that their number passes for the count.
Receive(ids) ==
    LET rows == ids \cap Listed
    IN  IF Throws(rows) THEN reader' = Away
        ELSE \E c \in Counted(rows) :
                reader' = [reader EXCEPT
                    !.state = IF c THEN "count" ELSE "done",
                    !.ids = {}, !.shown = @ \cup rows,
                    !.torn = ~c /\ Cardinality(ids) = PageSize]

ReadRows ==
    /\ \/ reader.state = "rows" /\ Receive(reader.ids)
       \/ /\ reader.state = "ids" /\ query.list \in Unjoined
          /\ \E ids \in Cut(reader.page) : Receive(ids)
    /\ UNCHANGED <<query, table, created, changes>>

CountRows ==
    /\ reader.state = "count"
    /\ reader' = IF reader.page * PageSize < Cardinality(Listed)
                 THEN [reader EXCEPT !.state = "ids", !.page = @ + 1]
                 ELSE [reader EXCEPT !.state = "done"]
    /\ UNCHANGED <<query, table, created, changes>>

\* The reader has seen enough.
LeaveList ==
    /\ reader.state = "done"
    /\ reader' = Away
    /\ UNCHANGED <<query, table, created, changes>>

ListsNext ==
    \/ Choose \/ CreateRow \/ OpenList \/ ReadIds \/ ReadRows \/ CountRows \/ LeaveList
    \/ \E id \in RowIds : ChangeRow(id) \/ CloseOwner(id) \/ DeleteRow(id)
-----------------------------------------------------------------------------
(* Someone who turned all the pages missed, of the rows that kept their    *)
(* place in the list, at most one for each that left it or moved in it     *)
(* meanwhile; rows that arrive hide none.  Two ways of missing more are    *)
(* set aside: a torn page, which ends the list early, and a list ordered   *)
(* by a field whose equal values have no order among them.  The pages are  *)
(* cut by skip and take under the same conditions and order as the count   *)
(* that says how many there are (admin.service.ts 464-1041, the others).   *)
PagesMissAtMost ==
    reader.state = "done" /\ ~reader.torn /\ Untied =>
        Cardinality({id \in reader.start \cap Listed :
                        id \notin reader.shown /\ \A x \in reader.moved : x[2] # id})
            <= Cardinality(reader.moved)
=============================================================================
