--------------------------- MODULE ArticleProofs ---------------------------
(***************************************************************************)
(* Views and likes of articles: for any users, articles and likes, with    *)
(* the row a view loaded saved whenever its requests get to it, nothing is *)
(* counted twice and nobody likes twice.                                   *)
(***************************************************************************)
EXTENDS Site, FiniteSetTheorems, TLAPS

-----------------------------------------------------------------------------
(* Views: what the save of a view adds is settled by the view it is due to *)

ArticleRow == [author : Users \cup {None}, views : Nat]

\* A view that is due, and that no save has brought into the table yet.
Unsaved(k) ==
    /\ k[3] = days[k[1]]
    /\ <<k[1], k[2]>> \notin marks
    /\ ~(act[k[1]].op = "mark" /\ act[k[1]].on = k[2])

Settled(a) == {k \in counted : k[2] = a /\ ~Unsaved(k)}

\* A row in flight has the views some handler read, and its own view.
ViewFits(u, r) ==
    /\ r.op \in {"read", "select", "update", "mark"} => r.on \in ArticleIds
    /\ r.op \in {"read", "select", "update"} => r.row \in ArticleRow
    /\ r.op = "read" => Counts(r)
    /\ r.op = "read" \/ (r.op \in {"select", "update"} /\ ~Counts(r)) =>
         r.row.views <= Cardinality(Settled(r.on))
    /\ r.op \in {"select", "update"} /\ Counts(r) =>
         \E k \in counted : k[1] = u /\ k[2] = r.on
                            /\ r.row.views <= Cardinality(Settled(r.on) \cup {k})

ViewsType ==
    /\ article \in [ArticleIds -> ArticleRow \cup {None}]
    /\ act = [u \in Users |-> act[u]]
    /\ days \in [Users -> Nat]
    /\ IsFiniteSet(counted)
    /\ counted \subseteq Users \X ArticleIds \X Nat
    /\ \A k \in counted : k[3] <= days[k[1]]

ViewsInv ==
    /\ ViewsType
    /\ \A a \in ArticleIds :
         article[a] # None => article[a].views <= Cardinality(Settled(a))
    /\ \A u \in Users : ViewFits(u, act[u])

LEMMA QuietFits == \A u : ViewFits(u, Quiet)
BY DEF ViewFits, Quiet

LEMMA ViewsInit == ArticlesInit => ViewsInv
<1> SUFFICES ASSUME ArticlesInit PROVE ViewsInv
  OBVIOUS
<1>1. IsFiniteSet(counted)
  BY FS_EmptySet DEF ArticlesInit
<1>2. \A u \in Users : act[u] = Quiet
  BY DEF ArticlesInit
<1>3. \A a \in ArticleIds : article[a] = None
  BY DEF ArticlesInit
<1>4. ViewsType
  BY <1>1 DEF ArticlesInit, ViewsType
<1> QED BY <1>2, <1>3, <1>4, QuietFits DEF ViewsInv

\* What is settled is settled for good.
LEMMA SettledGrows ==
    ASSUME ViewsType, ViewsType', counted \subseteq counted',
           \A k \in counted : Unsaved(k)' => Unsaved(k), NEW a
    PROVE  /\ Settled(a) \subseteq Settled(a)'
           /\ IsFiniteSet(Settled(a)) /\ IsFiniteSet(Settled(a)')
           /\ Cardinality(Settled(a)) \in Nat /\ Cardinality(Settled(a)') \in Nat
           /\ Cardinality(Settled(a)) <= Cardinality(Settled(a)')
           /\ \A k : /\ Cardinality(Settled(a) \cup {k}) \in Nat
                     /\ Cardinality(Settled(a)' \cup {k}) \in Nat
                     /\ Cardinality(Settled(a) \cup {k}) <= Cardinality(Settled(a)' \cup {k})
<1>1. Settled(a) \subseteq Settled(a)'
  BY DEF Settled
<1>2. IsFiniteSet(Settled(a)) /\ IsFiniteSet(Settled(a)')
  BY FS_Subset DEF Settled, ViewsType
<1>3. ASSUME NEW k
      PROVE  /\ IsFiniteSet(Settled(a)' \cup {k}) /\ IsFiniteSet(Settled(a) \cup {k})
             /\ Settled(a) \cup {k} \subseteq Settled(a)' \cup {k}
  BY <1>1, <1>2, FS_AddElement
<1> HIDE DEF Settled
<1>4. \A k : /\ Cardinality(Settled(a) \cup {k}) \in Nat
             /\ Cardinality(Settled(a)' \cup {k}) \in Nat
             /\ Cardinality(Settled(a) \cup {k}) <= Cardinality(Settled(a)' \cup {k})
  BY <1>3, FS_Subset, FS_CardinalityType
<1> QED BY <1>1, <1>2, <1>4, FS_Subset, FS_CardinalityType

\* Rows in flight, and rows of the table, stay within what is settled.
LEMMA FlightStays ==
    ASSUME ViewsInv, ViewsType', counted \subseteq counted',
           \A k \in counted : Unsaved(k)' => Unsaved(k)
    PROVE  /\ \A u \in Users : ViewFits(u, act[u]) =>
                \A r : r = act[u] => ViewFits(u, r)'
           /\ \A a \in ArticleIds : \A row \in ArticleRow :
                row.views <= Cardinality(Settled(a)) => row.views <= Cardinality(Settled(a)')
<1>1. ASSUME NEW a \in ArticleIds, NEW row \in ArticleRow,
             row.views <= Cardinality(Settled(a))
      PROVE  row.views <= Cardinality(Settled(a)')
  <2>1. row.views \in Nat
    BY DEF ArticleRow
  <2> QED BY <1>1, <2>1, SettledGrows DEF ViewsInv
<1>2. ASSUME NEW u \in Users, NEW r, r = act[u], ViewFits(u, act[u]) PROVE ViewFits(u, r)'
  <2>1. ViewFits(u, r)
    BY <1>2
  <2>2. CASE r.op = "read" \/ (r.op \in {"select", "update"} /\ ~Counts(r))
    <3>1. r.row.views <= Cardinality(Settled(r.on)) /\ r.on \in ArticleIds /\ r.row \in ArticleRow
      BY <2>1, <2>2 DEF ViewFits
    <3>2. r.row.views <= Cardinality(Settled(r.on))'
      BY <1>1, <3>1
    <3> QED BY <2>1, <2>2, <3>2 DEF ViewFits, Counts
  <2>3. CASE r.op \in {"select", "update"} /\ Counts(r)
    <3>1. PICK k \in counted : k[1] = u /\ k[2] = r.on
                               /\ r.row.views <= Cardinality(Settled(r.on) \cup {k})
      BY <2>1, <2>3 DEF ViewFits
    <3>2. r.row.views \in Nat
      BY <2>1, <2>3 DEF ViewFits, ArticleRow
    <3>3. r.row.views <= Cardinality(Settled(r.on)' \cup {k})
      BY <3>1, <3>2, SettledGrows DEF ViewsInv
    <3> QED BY <2>1, <2>3, <3>1, <3>3 DEF ViewFits, Counts
  <2>4. CASE r.op \notin {"read", "select", "update"}
    BY <2>1, <2>4 DEF ViewFits
  <2> QED BY <2>2, <2>3, <2>4
<1> QED BY <1>1, <1>2

\* One request moves: the others' rows stay within bounds.
LEMMA ViewsKeep ==
    ASSUME ViewsInv, ViewsType', counted \subseteq counted',
           \A k \in counted : Unsaved(k)' => Unsaved(k),
           NEW u \in Users, NEW r, act' = [act EXCEPT ![u] = r], ViewFits(u, r)',
           \A a \in ArticleIds : article'[a] = article[a] \/ article'[a] = None
                                 \/ article'[a].views <= Cardinality(Settled(a)')
    PROVE  ViewsInv'
<1>1. \A v \in Users : act'[v] = IF v = u THEN r ELSE act[v]
  BY DEF ViewsInv, ViewsType
<1>2. ASSUME NEW v \in Users PROVE ViewFits(v, act[v])'
  <2>1. CASE v = u
    BY <1>1, <2>1
  <2>2. CASE v # u
    <3>1. PICK q : q = act[v]
      OBVIOUS
    <3>2. ViewFits(v, q)' /\ act'[v] = q
      BY <1>1, <2>2, <3>1, FlightStays DEF ViewsInv
    <3> QED BY <3>2
  <2> QED BY <2>1, <2>2
<1>3. ASSUME NEW a \in ArticleIds, article'[a] # None
      PROVE  article'[a].views <= Cardinality(Settled(a)')
  <2>1. CASE article'[a] = article[a]
    <3>1. article[a] \in ArticleRow /\ article[a].views <= Cardinality(Settled(a))
      BY <1>3, <2>1 DEF ViewsInv, ViewsType
    <3> QED BY <2>1, <3>1, FlightStays
  <2> QED BY <1>3, <2>1
<1> QED BY <1>2, <1>3 DEF ViewsInv

\* A request that moves on, and touches neither rows nor marks.
LEMMA OnlyMoves ==
    ASSUME ViewsInv, UNCHANGED <<article, views>>, NEW u \in Users, act[u].op # "mark",
           NEW r, act' = [act EXCEPT ![u] = r], ViewFits(u, r)
    PROVE  ViewsInv'
<1>1. ViewsType' /\ counted' = counted
  BY DEF ViewsInv, ViewsType, views
<1>2. \A v \in Users : act'[v] = IF v = u THEN r ELSE act[v]
  BY DEF ViewsInv, ViewsType
<1>3. ASSUME NEW k \in counted, Unsaved(k)' PROVE Unsaved(k)
  <2>1. k[1] \in Users
    BY DEF ViewsInv, ViewsType
  <2> QED BY <1>2, <1>3, <2>1 DEF Unsaved, views
<1>4. ViewFits(u, r)'
  <2>1. \A a : Cardinality(Settled(a)) \in Nat /\ Cardinality(Settled(a)') \in Nat
               /\ Cardinality(Settled(a)) <= Cardinality(Settled(a)')
               /\ \A k : /\ Cardinality(Settled(a) \cup {k}) \in Nat
                         /\ Cardinality(Settled(a)' \cup {k}) \in Nat
                         /\ Cardinality(Settled(a) \cup {k}) <= Cardinality(Settled(a)' \cup {k})
    BY <1>1, <1>3, SettledGrows DEF ViewsInv
  <2>2. r.op \in {"read", "select", "update"} => r.row.views \in Nat
    BY DEF ViewFits, ArticleRow
  <2>3. r.op = "read" \/ (r.op \in {"select", "update"} /\ ~Counts(r)) =>
           r.row.views <= Cardinality(Settled(r.on)')
    <3>1. r.op = "read" \/ (r.op \in {"select", "update"} /\ ~Counts(r)) =>
            r.row.views <= Cardinality(Settled(r.on))
      BY DEF ViewFits
    <3> QED BY <2>1, <2>2, <3>1
  <2>4. ASSUME r.op \in {"select", "update"} /\ Counts(r)
        PROVE  \E k \in counted' : k[1] = u /\ k[2] = r.on
                            /\ r.row.views <= Cardinality(Settled(r.on)' \cup {k})
    <3>1. PICK k \in counted : k[1] = u /\ k[2] = r.on
                               /\ r.row.views <= Cardinality(Settled(r.on) \cup {k})
      BY <2>4 DEF ViewFits
    <3> DEFINE before == Cardinality(Settled(r.on) \cup {k})
               after == Cardinality(Settled(r.on)' \cup {k})
    <3>2. before \in Nat /\ after \in Nat /\ before <= after
      BY <2>1
    <3>3. r.row.views \in Nat /\ r.row.views <= before
      BY <2>2, <2>4, <3>1
    <3> HIDE DEF before, after
    <3>4. r.row.views <= after
      BY <3>2, <3>3
    <3> QED BY <1>1, <3>1, <3>4 DEF after
  <2> QED BY <2>3, <2>4 DEF ViewFits, Counts
<1> QED BY <1>1, <1>3, <1>4, ViewsKeep

LEMMA PlainFits ==
    ASSUME NEW u, NEW r, r.op \notin {"read", "select", "update", "mark"}
    PROVE  ViewFits(u, r)
BY DEF ViewFits

\* The view of a reader without a mark is one more that is due.
LEMMA CountViewKeeps ==
    ASSUME ViewsInv, NEW u \in Users, CountView(u)
    PROVE  ViewsInv'
<1>0. PICK r, a, k : /\ r = [act[u] EXCEPT !.op = "select", !.row.views = @ + 1]
                     /\ a = act[u].on /\ k = <<u, a, days[u]>>
  OBVIOUS
<1>1. /\ act[u].op = "read" /\ <<u, a>> \notin marks /\ act' = [act EXCEPT ![u] = r]
      /\ counted' = counted \cup {k} /\ UNCHANGED <<article, marks, days>>
  BY <1>0 DEF CountView, Goes, rows
<1>2. /\ a \in ArticleIds /\ act[u].row \in ArticleRow
      /\ act[u].row.views <= Cardinality(Settled(a))
  BY <1>0, <1>1 DEF ViewsInv, ViewFits
<1>3. ViewsType'
  <2>1. k \in Users \X ArticleIds \X Nat /\ k[3] <= days[k[1]]
    BY <1>0, <1>2 DEF ViewsInv, ViewsType
  <2>2. IsFiniteSet(counted')
    BY <1>1, FS_AddElement DEF ViewsInv, ViewsType
  <2>3. act' = [v \in Users |-> act'[v]]
    BY <1>1 DEF ViewsInv, ViewsType
  <2> QED BY <1>1, <2>1, <2>2, <2>3 DEF ViewsInv, ViewsType
<1>4. \A v \in Users : act'[v] = IF v = u THEN r ELSE act[v]
  BY <1>1 DEF ViewsInv, ViewsType
<1>5. \A x \in counted : Unsaved(x)' => Unsaved(x)
  <2> SUFFICES ASSUME NEW x \in counted, Unsaved(x)' PROVE Unsaved(x)
    OBVIOUS
  <2>1. x[1] \in Users
    BY DEF ViewsInv, ViewsType
  <2> QED BY <1>1, <1>4, <2>1 DEF Unsaved
\* It is not settled yet, so with it there is one more than the reader saw.
<1>6. k \notin Settled(a)
  BY <1>0, <1>1 DEF Settled, Unsaved
<1>7. /\ IsFiniteSet(Settled(a)) /\ Cardinality(Settled(a)) \in Nat
      /\ Cardinality(Settled(a)' \cup {k}) \in Nat
      /\ Cardinality(Settled(a) \cup {k}) <= Cardinality(Settled(a)' \cup {k})
  BY <1>1, <1>3, <1>5, SettledGrows DEF ViewsInv
<1>8. Cardinality(Settled(a) \cup {k}) = Cardinality(Settled(a)) + 1
  BY <1>6, <1>7, FS_AddElement
<1>9. /\ r.op = "select" /\ r.on = a /\ r.row \in ArticleRow
      /\ r.row.views = act[u].row.views + 1
      /\ Counts(r) <=> Counts(act[u])
  <2>1. r.op = "select" /\ r.on = a /\ DOMAIN r = DOMAIN act[u]
    BY <1>0
  <2>2. r.row = [act[u].row EXCEPT !.views = @ + 1]
    BY <1>0
  <2> QED BY <1>2, <2>1, <2>2 DEF ArticleRow, Counts
<1>10. r.row.views <= Cardinality(Settled(a)' \cup {k})
  <2>1. act[u].row.views \in Nat
    BY <1>2 DEF ArticleRow
  <2> DEFINE seen == Cardinality(Settled(a))
             due  == Cardinality(Settled(a) \cup {k})
             then == Cardinality(Settled(a)' \cup {k})
  <2>2. seen \in Nat /\ then \in Nat /\ due = seen + 1 /\ due <= then
    BY <1>7, <1>8
  <2>3. act[u].row.views <= seen
    BY <1>2
  <2> HIDE DEF seen, due, then
  <2>4. r.row.views <= then
    BY <1>9, <2>1, <2>2, <2>3
  <2> QED BY <2>4 DEF then
<1>11. k \in counted' /\ k[1] = u /\ k[2] = r.on
  BY <1>0, <1>1, <1>9
<1>12. Counts(r)
  BY <1>1, <1>9 DEF ViewsInv, ViewFits
<1>13. ViewFits(u, r)'
  BY <1>2, <1>9, <1>10, <1>11, <1>12 DEF ViewFits, Counts
<1>14. counted \subseteq counted' /\ UNCHANGED article
  BY <1>1
<1> QED BY <1>1, <1>3, <1>5, <1>13, <1>14, ViewsKeep

\* The save of a view settles what it was due to.
LEMMA SaveArticleKeeps ==
    ASSUME ViewsInv, NEW u \in Users, SaveArticle(u)
    PROVE  ViewsInv'
<1>0. PICK r, a, q : /\ r = act[u] /\ a = r.on
                     /\ q = IF Counts(r) THEN [op |-> "mark", on |-> r.on] ELSE Quiet
  OBVIOUS
<1>1. /\ r.op = "update" /\ UNCHANGED <<counted, marks, days>>
      /\ article' = [article EXCEPT ![a] =
               IF r.base = None THEN r.row
               ELSE IF article[a] = None THEN None ELSE Saved(article[a], r.row, r.base)]
      /\ act' = [act EXCEPT ![u] = q]
  BY <1>0 DEF SaveArticle, Goes, views
<1>2. /\ ViewFits(u, r) /\ a \in ArticleIds /\ r.row \in ArticleRow
  BY <1>0, <1>1 DEF ViewsInv, ViewFits
<1>3. \A v \in Users : act'[v] = IF v = u THEN q ELSE act[v]
  BY <1>1 DEF ViewsInv, ViewsType
<1>4. \A k \in counted : Unsaved(k)' => Unsaved(k)
  <2> SUFFICES ASSUME NEW k \in counted, Unsaved(k)' PROVE Unsaved(k)
    OBVIOUS
  <2>1. k[1] \in Users
    BY DEF ViewsInv, ViewsType
  <2> QED BY <1>0, <1>1, <1>3, <2>1 DEF Unsaved
\* What is written has the views of the row in flight, or of the row there.
<1>5. ASSUME article'[a] # None
      PROVE  /\ article'[a] \in ArticleRow
             /\ \/ article'[a].views = r.row.views
                \/ article[a] \in ArticleRow /\ article[a] # None
                   /\ article'[a].views = article[a].views
  <2>1. CASE r.base = None
    BY <1>1, <1>2, <2>1 DEF ViewsInv, ViewsType
  <2>2. CASE r.base # None
    <3>1. /\ article[a] # None /\ article[a] \in ArticleRow
          /\ article'[a] = Saved(article[a], r.row, r.base)
      BY <1>1, <1>2, <1>5, <2>2 DEF ViewsInv, ViewsType
    <3>2. PICK x : x = Saved(article[a], r.row, r.base)
      OBVIOUS
    <3>3. /\ x = [c \in {"author", "views"} |->
                    IF r.row[c] # r.base[c] THEN r.row[c] ELSE article[a][c]]
          /\ article[a].author \in Users \cup {None} /\ article[a].views \in Nat
          /\ r.row.author \in Users \cup {None} /\ r.row.views \in Nat
      BY <1>2, <3>1, <3>2 DEF Saved, ArticleRow
    <3>4. /\ x = [author |-> x.author, views |-> x.views]
          /\ x.author \in Users \cup {None} /\ x.views \in Nat
          /\ x.views = r.row.views \/ x.views = article[a].views
      BY <3>3
    <3>5. x \in ArticleRow
      BY <3>4 DEF ArticleRow
    <3> QED BY <3>1, <3>2, <3>4, <3>5
  <2> QED BY <2>1, <2>2
<1>6. ViewsType'
  <2>1. article' \in [ArticleIds -> ArticleRow \cup {None}]
    BY <1>1, <1>2, <1>5 DEF ViewsInv, ViewsType
  <2>2. act' = [v \in Users |-> act'[v]]
    BY <1>1 DEF ViewsInv, ViewsType
  <2> QED BY <1>1, <2>1, <2>2 DEF ViewsInv, ViewsType
<1>7. /\ Cardinality(Settled(a)) \in Nat /\ Cardinality(Settled(a)') \in Nat
      /\ Cardinality(Settled(a)) <= Cardinality(Settled(a)')
      /\ Settled(a) \subseteq Settled(a)'
  BY <1>1, <1>4, <1>6, SettledGrows DEF ViewsInv
<1>8. r.row.views <= Cardinality(Settled(a)')
  <2>0. r.row.views \in Nat
    BY <1>2 DEF ArticleRow
  <2>1. CASE ~Counts(r)
    <3>1. r.row.views <= Cardinality(Settled(a))
      BY <1>0, <1>1, <1>2, <2>1 DEF ViewFits
    <3> QED BY <1>7, <2>0, <3>1
  <2>2. CASE Counts(r)
    <3>1. PICK k \in counted : k[1] = u /\ k[2] = a
                               /\ r.row.views <= Cardinality(Settled(a) \cup {k})
      BY <1>0, <1>1, <1>2, <2>2 DEF ViewFits
    <3>2. act'[u].op = "mark" /\ act'[u].on = a
      BY <1>0, <1>3, <2>2
    <3>3. k \in Settled(a)'
      BY <1>1, <3>1, <3>2 DEF Settled, Unsaved
    <3>4. Settled(a)' \cup {k} = Settled(a)'
      BY <3>3
    <3>5. /\ Cardinality(Settled(a) \cup {k}) \in Nat
          /\ Cardinality(Settled(a) \cup {k}) <= Cardinality(Settled(a)' \cup {k})
      BY <1>1, <1>4, <1>6, SettledGrows DEF ViewsInv
    <3> DEFINE due  == Cardinality(Settled(a) \cup {k})
               then == Cardinality(Settled(a)')
    <3>6. r.row.views <= due /\ due \in Nat /\ due <= then /\ then \in Nat
      BY <1>7, <3>1, <3>4, <3>5
    <3> HIDE DEF due, then
    <3>7. r.row.views <= then
      BY <2>0, <3>6
    <3> QED BY <3>7 DEF then
  <2> QED BY <2>1, <2>2
<1>9. \A b \in ArticleIds : article'[b] = article[b] \/ article'[b] = None
                            \/ article'[b].views <= Cardinality(Settled(b)')
  <2> SUFFICES ASSUME NEW b \in ArticleIds, article'[b] # article[b], article'[b] # None
               PROVE  article'[b].views <= Cardinality(Settled(b)')
    OBVIOUS
  <2>1. b = a
    BY <1>1 DEF ViewsInv, ViewsType
  <2>2. CASE article'[a].views = r.row.views
    BY <1>8, <2>1, <2>2
  <2>3. CASE article[a] \in ArticleRow /\ article[a] # None
             /\ article'[a].views = article[a].views
    <3>1. article[a].views <= Cardinality(Settled(a)) /\ article[a].views \in Nat
      BY <1>2, <2>3 DEF ViewsInv, ArticleRow
    <3> QED BY <1>7, <2>1, <2>3, <3>1
  <2> QED BY <1>5, <2>1, <2>2, <2>3
<1>10. ViewFits(u, q)'
  BY <1>0, <1>2 DEF ViewFits, Quiet
<1> QED BY <1>1, <1>4, <1>6, <1>9, <1>10, ViewsKeep

\* The answer: the mark is kept, or lost, and the day is over for it.
LEMMA MarkedKeeps ==
    ASSUME ViewsInv, NEW u \in Users, MarkViewed(u) \/ Fails(u)
    PROVE  ViewsInv'
<1>1. /\ act' = [act EXCEPT ![u] = Quiet] /\ UNCHANGED <<article, counted>>
      /\ marks \subseteq marks'
      /\ days' \in [Users -> Nat] /\ \A v \in Users : days[v] <= days'[v]
      /\ act[u].op = "mark" => days[u] < days'[u] \/ <<u, act[u].on>> \in marks'
  BY DEF MarkViewed, Fails, NewDay, Ends, Goes, rows, ViewsInv, ViewsType
<1>2. ViewsType'
  <2>1. act' = [v \in Users |-> act'[v]]
    BY <1>1 DEF ViewsInv, ViewsType
  <2>2. ASSUME NEW k \in counted PROVE k[3] <= days'[k[1]]
    BY <1>1 DEF ViewsInv, ViewsType
  <2> QED BY <1>1, <2>1, <2>2 DEF ViewsInv, ViewsType
<1>3. \A v \in Users : act'[v] = IF v = u THEN Quiet ELSE act[v]
  BY <1>1 DEF ViewsInv, ViewsType
<1>4. \A k \in counted : Unsaved(k)' => Unsaved(k)
  <2> SUFFICES ASSUME NEW k \in counted, Unsaved(k)' PROVE Unsaved(k)
    OBVIOUS
  <2>1. k[1] \in Users /\ k[3] \in Nat /\ k[3] <= days[k[1]] /\ days[k[1]] \in Nat
        /\ days'[k[1]] \in Nat /\ days[k[1]] <= days'[k[1]]
    BY <1>1 DEF ViewsInv, ViewsType
  <2>2. k[3] = days'[k[1]] /\ <<k[1], k[2]>> \notin marks'
        /\ ~(act'[k[1]].op = "mark" /\ act'[k[1]].on = k[2])
    BY DEF Unsaved
  <2>3. k[3] = days[k[1]] /\ days[k[1]] = days'[k[1]] /\ <<k[1], k[2]>> \notin marks
    BY <1>1, <2>1, <2>2
  <2>4. ~(act[k[1]].op = "mark" /\ act[k[1]].on = k[2])
    <3>1. CASE k[1] = u
      <4>0. days[u] = days'[u] /\ days[u] \in Nat
        BY <2>1, <2>3, <3>1
      <4>1. ~(days[u] < days'[u]) /\ <<u, k[2]>> \notin marks'
        <5>1. <<u, k[2]>> \notin marks'
          BY <2>2, <3>1, Zenon
        <5> QED BY <4>0, <5>1
      <4>2. act[u].op = "mark" => act[u].on # k[2]
        BY <1>1, <4>1
      <4> QED BY <3>1, <4>2
    <3>2. CASE k[1] # u
      BY <1>3, <2>1, <2>2, <3>2
    <3> QED BY <3>1, <3>2
  <2> QED BY <2>3, <2>4 DEF Unsaved
<1>5. counted \subseteq counted' /\ ViewFits(u, Quiet)'
  BY <1>1 DEF ViewFits, Quiet
<1> QED BY <1>1, <1>2, <1>4, <1>5, ViewsKeep

LEMMA ExpireKeeps ==
    ASSUME ViewsInv, NEW u \in Users, NEW a \in ArticleIds, ExpireMark(u, a)
    PROVE  ViewsInv'
<1>1. /\ UNCHANGED <<article, counted, act>> /\ marks' = marks \ {<<u, a>>}
      /\ days' = [days EXCEPT ![u] = @ + 1]
  BY DEF ExpireMark, NewDay, rows
<1>2. ViewsType'
  <2>1. days' \in [Users -> Nat] /\ \A v \in Users : days[v] <= days'[v]
    BY <1>1 DEF ViewsInv, ViewsType
  <2>2. ASSUME NEW k \in counted PROVE k[3] <= days'[k[1]]
    BY <2>1 DEF ViewsInv, ViewsType
  <2> QED BY <1>1, <2>1, <2>2 DEF ViewsInv, ViewsType
<1>3. \A k \in counted : Unsaved(k)' => Unsaved(k)
  <2> SUFFICES ASSUME NEW k \in counted, Unsaved(k)' PROVE Unsaved(k)
    OBVIOUS
  <2>1. k[1] \in Users /\ k[3] \in Nat /\ k[3] <= days[k[1]] /\ days[k[1]] \in Nat
    BY DEF ViewsInv, ViewsType
  <2>2. k[1] # u
    BY <1>1, <2>1 DEF Unsaved, ViewsInv, ViewsType
  <2> QED BY <1>1, <2>1, <2>2 DEF Unsaved, ViewsInv, ViewsType
<1>4. PICK r : r = act[u]
  OBVIOUS
<1>5. counted \subseteq counted' /\ act' = [act EXCEPT ![u] = r]
  BY <1>1, <1>4 DEF ViewsInv, ViewsType
<1>6. ViewFits(u, r)'
  BY <1>2, <1>3, <1>4, <1>5, FlightStays DEF ViewsInv
<1> QED BY <1>1, <1>2, <1>3, <1>5, <1>6, ViewsKeep

\* A new article has no views, one that is deleted no row.
LEMMA RowKeepsViews ==
    ASSUME ViewsInv, NEW u \in Users, NEW a \in ArticleIds,
           CreateArticle(u, a) \/ DeleteArticle(u, a)
    PROVE  ViewsInv'
<1>1. /\ act[u] = Quiet /\ act' = [act EXCEPT ![u] = Quiet]
      /\ UNCHANGED <<marks, days, counted>>
      /\ article' \in [ArticleIds -> ArticleRow \cup {None}]
      /\ \A b \in ArticleIds : article'[b] = article[b] \/ article'[b] = None
                               \/ article'[b].views = 0
  <2>1. ViewsType
    BY DEF ViewsInv
  <2>2. CASE CreateArticle(u, a)
    <3>1. /\ act[u] = Quiet /\ act' = [act EXCEPT ![u] = Quiet] /\ u \in Authors
          /\ article' = [article EXCEPT ![a] = [author |-> u, views |-> 0]]
          /\ UNCHANGED <<marks, days, counted>>
      BY <2>2 DEF CreateArticle, Begins, views
    <3>2. [author |-> u, views |-> 0] \in ArticleRow
      BY DEF ArticleRow
    <3> QED BY <2>1, <3>1, <3>2 DEF ViewsType
  <2>3. CASE DeleteArticle(u, a)
    <3>1. /\ act[u] = Quiet /\ act' = [act EXCEPT ![u] = Quiet]
          /\ article' = [article EXCEPT ![a] = None]
          /\ UNCHANGED <<marks, days, counted>>
      BY <2>3 DEF DeleteArticle, Begins, views
    <3> QED BY <2>1, <3>1 DEF ViewsType
  <2> QED BY <2>2, <2>3
<1>2. act' = act
  BY <1>1 DEF ViewsInv, ViewsType
<1>3. ViewsType'
  BY <1>1, <1>2 DEF ViewsInv, ViewsType
<1>4. \A k \in counted : Unsaved(k)' => Unsaved(k)
  BY <1>1, <1>2 DEF Unsaved
<1>5. \A b \in ArticleIds : Cardinality(Settled(b)') \in Nat
  BY <1>1, <1>3, <1>4, SettledGrows DEF ViewsInv
<1>6. \A b \in ArticleIds : article'[b] = article[b] \/ article'[b] = None
                            \/ article'[b].views <= Cardinality(Settled(b)')
  BY <1>1, <1>5
<1>7. counted \subseteq counted' /\ ViewFits(u, Quiet)'
  BY <1>1 DEF ViewFits, Quiet
<1> QED BY <1>1, <1>3, <1>4, <1>6, <1>7, ViewsKeep

LEMMA ViewsUnchanged ==
    ViewsInv /\ UNCHANGED <<article, act, marks, days, counted>> => ViewsInv'
<1> SUFFICES ASSUME ViewsInv, UNCHANGED <<article, act, marks, days, counted>> PROVE ViewsInv'
  OBVIOUS
<1>1. ViewsType'
  BY DEF ViewsInv, ViewsType
<1>2. \A k : Unsaved(k)' <=> Unsaved(k)
  BY DEF Unsaved
<1>3. \A a : Settled(a)' = Settled(a)
  BY <1>2 DEF Settled
<1>4. \A u \in Users : ViewFits(u, act[u])'
  <2> SUFFICES ASSUME NEW u \in Users PROVE ViewFits(u, act[u])'
    OBVIOUS
  <2>1. ViewFits(u, act[u]) /\ act' = act
    BY DEF ViewsInv
  <2> QED BY <1>3, <2>1 DEF ViewFits, Counts
<1> QED BY <1>1, <1>3, <1>4 DEF ViewsInv

LEMMA ViewsStep == ViewsInv /\ CommentsNext => ViewsInv'
<1> SUFFICES ASSUME ViewsInv, CommentsNext PROVE ViewsInv'
  OBVIOUS
<1>1. Quiet.op \notin {"read", "select", "update", "mark"}
  BY DEF Quiet
\* A handler that answers, or that is about neither rows nor marks.
<1>2. ASSUME NEW u \in Users, NEW r, act' = [act EXCEPT ![u] = r], act[u].op # "mark",
             UNCHANGED <<article, views>>, r.op \notin {"read", "select", "update", "mark"}
      PROVE  ViewsInv'
  BY <1>2, PlainFits, OnlyMoves
<1>3. ASSUME NEW u \in Users, NEW a \in ArticleIds, ReadArticle(u, a) PROVE ViewsInv'
  <2>0. PICK r : r = [op |-> "read", on |-> a, likes |-> LikesOf(a),
                      row |-> [article[a] EXCEPT !.author = Author(a)]]
    OBVIOUS
  <2>1. act[u].op # "mark" /\ act' = [act EXCEPT ![u] = r] /\ UNCHANGED <<article, views>>
        /\ article[a] # None
    BY <1>1, <1>3, <2>0 DEF ReadArticle, Begins, rows
  <2>2. article[a] \in ArticleRow /\ article[a].views <= Cardinality(Settled(a))
    BY <2>1 DEF ViewsInv, ViewsType
  <2>3. r.row \in ArticleRow /\ r.row.views = article[a].views
    BY <2>0, <2>2 DEF ArticleRow, Author
  <2>4. r.op = "read" /\ r.on = a /\ Counts(r)
    BY <2>0 DEF Counts
  <2>5. ViewFits(u, r)
    BY <2>2, <2>3, <2>4 DEF ViewFits
  <2> QED BY <2>1, <2>5, OnlyMoves
<1>4. ASSUME NEW u \in Users, NEW a \in ArticleIds, UpdateArticle(u, a) PROVE ViewsInv'
  <2>0. PICK r : r = [op |-> "select", on |-> a, row |-> article[a]]
    OBVIOUS
  <2>1. act[u].op # "mark" /\ act' = [act EXCEPT ![u] = r] /\ UNCHANGED <<article, views>>
        /\ article[a] # None
    BY <1>1, <1>4, <2>0 DEF UpdateArticle, Begins, rows
  <2>2. article[a] \in ArticleRow /\ article[a].views <= Cardinality(Settled(a))
    BY <2>1 DEF ViewsInv, ViewsType
  <2>3. r.op = "select" /\ r.on = a /\ r.row = article[a] /\ ~Counts(r)
    BY <2>0 DEF Counts
  <2>4. ViewFits(u, r)
    BY <2>2, <2>3 DEF ViewFits
  <2> QED BY <2>1, <2>4, OnlyMoves
<1>5. ASSUME NEW u \in Users, SelectArticle(u) PROVE ViewsInv'
  <2>1. PICK r : /\ act' = [act EXCEPT ![u] = r] /\ UNCHANGED <<article, views>>
                 /\ r.op = "update" /\ r.on = act[u].on /\ r.row = act[u].row
                 /\ Counts(r) <=> Counts(act[u])
    BY <1>5 DEF SelectArticle, Goes, rows, Counts
  <2>2. act[u].op = "select" /\ ViewFits(u, act[u])
    BY <1>5 DEF SelectArticle, ViewsInv
  <2>3. ViewFits(u, r)
    BY <2>1, <2>2 DEF ViewFits
  <2> QED BY <2>1, <2>2, <2>3, OnlyMoves
<1>6. ASSUME NEW u \in Users, NEW a \in ArticleIds, FindLike(u, a) PROVE ViewsInv'
  <2>1. /\ UNCHANGED <<article, views>> /\ act[u].op # "mark"
        /\ \/ act' = [act EXCEPT ![u] = [op |-> "like", on |-> a, author |-> Author(a)]]
           \/ \E l \in LikesBy(u, a) :
                act' = [act EXCEPT ![u] = [op |-> "unlike", on |-> a, like |-> l]]
    BY <1>1, <1>6 DEF FindLike, Begins, rows
  <2>2. CASE act' = [act EXCEPT ![u] = [op |-> "like", on |-> a, author |-> Author(a)]]
    <3>1. PICK r : r = [op |-> "like", on |-> a, author |-> Author(a)]
      OBVIOUS
    <3> QED BY <1>2, <2>1, <2>2, <3>1
  <2>3. CASE \E l \in LikesBy(u, a) :
               act' = [act EXCEPT ![u] = [op |-> "unlike", on |-> a, like |-> l]]
    <3>1. PICK l : act' = [act EXCEPT ![u] = [op |-> "unlike", on |-> a, like |-> l]]
      BY <2>3
    <3>2. PICK r : r = [op |-> "unlike", on |-> a, like |-> l]
      OBVIOUS
    <3> QED BY <1>2, <2>1, <3>1, <3>2
  <2> QED BY <2>1, <2>2, <2>3
<1>7. ASSUME NEW u \in Users, RemoveLike(u) \/ TellLike(u) PROVE ViewsInv'
  <2>1. /\ UNCHANGED <<article, views>> /\ act[u].op # "mark"
        /\ act' = [act EXCEPT ![u] = Quiet]
    BY <1>7 DEF RemoveLike, TellLike, Ends, Goes, rows
  <2> QED BY <1>1, <1>2, <2>1
<1>8. ASSUME NEW u \in Users, NEW l \in LikeIds, StoreLike(u, l) PROVE ViewsInv'
  <2>0. PICK r : r = [op |-> "tell", to |-> act[u].author, about |-> l]
    OBVIOUS
  <2>1. /\ UNCHANGED <<article, views>> /\ act[u].op # "mark"
        /\ act' = [act EXCEPT ![u] = r] /\ r.op = "tell"
    BY <1>8, <2>0 DEF StoreLike, Goes
  <2> QED BY <1>2, <2>1
<1>9. ASSUME NEW u \in Users, NEW c \in CommentIds, CommitComment(u, c) PROVE ViewsInv'
  <2>1. /\ UNCHANGED <<article, views>> /\ act[u].op # "mark"
        /\ act' = [act EXCEPT ![u] = Quiet]
    BY <1>9 DEF CommitComment, Ends, Goes
  <2> QED BY <1>1, <1>2, <2>1
<1>10. ASSUME NEW u \in Users, NEW c \in CommentIds, DeleteComment(u, c) \/ UpdateComment(u, c)
       PROVE  ViewsInv'
  <2>1. /\ UNCHANGED <<article, views>> /\ act[u].op # "mark"
        /\ act' = [act EXCEPT ![u] = Quiet]
    BY <1>1, <1>10 DEF DeleteComment, UpdateComment, Begins, rows
  <2> QED BY <1>1, <1>2, <2>1
<1>11. ASSUME NEW e, SaveComment(e) PROVE ViewsInv'
  <2>1. UNCHANGED <<article, act, marks, days, counted>>
    BY <1>11 DEF SaveComment, articlesVars, rows, views
  <2> QED BY <2>1, ViewsUnchanged
<1>12. ASSUME NEW u \in Users, NEW a \in ArticleIds, NEW p \in CommentIds \cup {None},
              BeginComment(u, a, p)
       PROVE  ViewsInv'
  <2>0. PICK r : r = [op |-> "comment", on |-> a, parent |-> p, author |-> Author(a)]
    OBVIOUS
  <2>1. /\ UNCHANGED <<article, views>> /\ act[u].op # "mark"
        /\ act' = [act EXCEPT ![u] = r] /\ r.op = "comment"
    BY <1>1, <1>12, <2>0 DEF BeginComment, Begins, rows
  <2> QED BY <1>2, <2>1
<1>13. ASSUME InboxNext, UNCHANGED <<articlesVars, commentsVars>> PROVE ViewsInv'
  <2>1. UNCHANGED <<article, act, marks, days, counted>>
    BY <1>13 DEF articlesVars, rows, views
  <2> QED BY <2>1, ViewsUnchanged
<1>14. ASSUME ArticlesNext PROVE ViewsInv'
  BY <1>3, <1>4, <1>5, <1>6, <1>7, <1>8, <1>14, CountViewKeeps, SaveArticleKeeps, MarkedKeeps,
     ExpireKeeps, RowKeepsViews DEF ArticlesNext
<1> QED BY <1>9, <1>10, <1>11, <1>12, <1>13, <1>14 DEF CommentsNext

LEMMA ViewsAlways == Spec => []ViewsInv
<1>1. Init => ViewsInv
  BY ViewsInit DEF Init
<1>2. ViewsInv /\ [Next]_siteVars => ViewsInv'
  <2>1. [Next]_siteVars => CommentsNext \/ UNCHANGED <<article, act, marks, days, counted>>
    BY DEF Next, siteVars, People, SignUps, Posts, Browse, Chats, Pages, Queries, posts,
           articlesVars, rows, views
  <2> QED BY <2>1, ViewsStep, ViewsUnchanged
<1> QED BY <1>1, <1>2, PTL DEF Spec

(* For any readers, articles and requests in flight, an article never      *)
(* shows more views than readers were due in a day: every save writes what *)
(* some handler read, and its own view if that reader had no mark          *)
(* (article.service.ts 193-207).                                           *)
THEOREM ViewsAreDue == Spec => []ViewsNotInflated
<1>1. ViewsInv => ViewsNotInflated
  <2> SUFFICES ASSUME ViewsInv, NEW a \in ArticleIds, article[a] # None
               PROVE  article[a].views <= Cardinality({k \in counted : k[2] = a})
    BY DEF ViewsNotInflated
  <2>1. article[a] \in ArticleRow /\ article[a].views <= Cardinality(Settled(a))
    BY DEF ViewsInv, ViewsType
  <2> DEFINE all == {k \in counted : k[2] = a}
  <2>2. IsFiniteSet(all) /\ Settled(a) \subseteq all
    BY FS_Subset DEF Settled, ViewsInv, ViewsType
  <2>3. /\ Cardinality(Settled(a)) \in Nat /\ Cardinality(all) \in Nat
        /\ Cardinality(Settled(a)) <= Cardinality(all)
    BY <2>2, FS_Subset, FS_CardinalityType
  <2> HIDE DEF all
  <2>4. article[a].views <= Cardinality(all)
    BY <2>1, <2>3 DEF ArticleRow
  <2> QED BY <2>4 DEF all
<1> QED BY <1>1, ViewsAlways, PTL

-----------------------------------------------------------------------------
(* Likes: whoever has loaded likes, of an article no toggle shook          *)
(* meanwhile, still has the likes it has                                   *)

USE ArticlesAssumption

LikeRow == [user : Users, on : ArticleIds \cup {None}]

\* The likes a request may yet write, and those of them that have a row.
Viewing(r) == r.op \in {"read", "select", "update"} /\ Counts(r)
Loads(r) ==
    {l \in LikeIds : \/ Viewing(r) /\ l \in r.likes
                     \/ Viewing(r) /\ r.op = "update" /\ l \in r.baseLikes
                     \/ r.op = "unlike" /\ l = r.like}
Live(s) == {l \in s : likes[l] # None}

LikesType ==
    /\ likes \in [LikeIds -> LikeRow \cup {None}]
    /\ act = [u \in Users |-> act[u]]
    /\ \A l \in LikeIds : likes[l] # None => l \in used

RequestKnows(u, r) ==
    /\ r.op \in {"read", "select", "update", "like", "unlike"} => r.on \in ArticleIds
    /\ Viewing(r) => r.likes \subseteq LikeIds /\ (r.op = "update" => r.baseLikes \subseteq LikeIds)
    /\ \A l \in Loads(r) : l \in used /\ (likes[l] # None => likes[l].on \in {r.on, None})
    /\ Viewing(r) /\ r.on \notin shaken =>
         Live(r.likes) = LikesOf(r.on) /\ (r.op = "update" => Live(r.baseLikes) = LikesOf(r.on))
    /\ r.op = "like" /\ r.on \notin shaken => LikesBy(u, r.on) = {}
    /\ r.op = "unlike" =>
         /\ r.like \in LikeIds /\ (likes[r.like] # None => likes[r.like].user = u)
         /\ r.on \notin shaken => LikesBy(u, r.on) \subseteq {r.like}

\* Likes loaded for two articles are not the same ones.
Apart(r, q) == \A l \in Loads(r) \cap Loads(q) : r.on = q.on

OneLike(u, a) ==
    \/ <<u, a>> \in liked /\ \E l \in LikeIds : LikesBy(u, a) = {l}
    \/ <<u, a>> \notin liked /\ LikesBy(u, a) = {}

LikesInv ==
    /\ LikesType
    /\ \A u \in Users : RequestKnows(u, act[u])
    /\ \A u, v \in Users : Apart(act[u], act[v])
    /\ \A a \in ArticleIds \ shaken, u \in Users : OneLike(u, a)

Aside == {"quiet", "mark", "tell", "comment"}

LEMMA AsideKnows ==
    ASSUME NEW r, r.op \in Aside
    PROVE  Loads(r) = {} /\ \A u : RequestKnows(u, r)
BY DEF Loads, RequestKnows, Viewing, Aside

LEMMA LikesInit == ArticlesInit => LikesInv
<1> SUFFICES ASSUME ArticlesInit PROVE LikesInv
  OBVIOUS
<1>1. /\ \A l \in LikeIds : likes[l] = None
      /\ \A u \in Users : act[u] = Quiet
      /\ liked = {}
  BY DEF ArticlesInit
<1>2. LikesType
  BY <1>1 DEF ArticlesInit, LikesType
<1>3. Quiet.op \in Aside
  BY DEF Quiet, Aside
<1>4. \A u \in Users : Loads(act[u]) = {} /\ RequestKnows(u, act[u])
  BY <1>1, <1>3, AsideKnows
<1>5. \A u \in Users, a \in ArticleIds : OneLike(u, a)
  BY <1>1 DEF OneLike, LikesBy, LikesOf
<1> QED BY <1>2, <1>4, <1>5 DEF LikesInv, Apart

\* What a request knows while the likes stay as they are.
LEMMA KnowsStill ==
    ASSUME NEW u, NEW r, RequestKnows(u, r), UNCHANGED <<likes, shaken>>, used \subseteq used'
    PROVE  RequestKnows(u, r)'
<1>1. /\ Viewing(r)' <=> Viewing(r)
      /\ \A a, v : LikesOf(a)' = LikesOf(a) /\ LikesBy(v, a)' = LikesBy(v, a)
  BY DEF Viewing, Counts, LikesOf, LikesBy
<1>2. \A s : Live(s)' = Live(s)
  BY DEF Live
<1>3. Loads(r)' = Loads(r)
  BY <1>1 DEF Loads
<1> QED BY <1>1, <1>2, <1>3 DEF RequestKnows

\* A request moves, and no like does.
LEMMA LikesMove ==
    ASSUME LikesInv, UNCHANGED <<likes, liked, shaken>>, used \subseteq used',
           NEW u \in Users, NEW r, act' = [act EXCEPT ![u] = r], RequestKnows(u, r),
           \A v \in Users : Apart(r, act[v])
    PROVE  LikesInv'
<1>1. \A v \in Users : act'[v] = IF v = u THEN r ELSE act[v]
  BY DEF LikesInv, LikesType
<1>2. ASSUME NEW v \in Users PROVE RequestKnows(v, act[v])'
  <2>1. PICK q : q = act'[v]
    OBVIOUS
  <2>2. RequestKnows(v, q)
    BY <1>1, <2>1 DEF LikesInv
  <2>3. RequestKnows(v, q)'
    BY <2>2, KnowsStill
  <2> QED BY <2>1, <2>3
<1>3. \A q : Loads(q)' = Loads(q)
  BY DEF Loads, Viewing, Counts
<1>4. \A v, w \in Users : Apart(act'[v], act'[w])
  <2>1. Apart(r, r) /\ \A v \in Users : Apart(act[v], r)
    BY DEF Apart
  <2> QED BY <1>1, <2>1 DEF LikesInv
<1>5. \A a \in ArticleIds \ shaken', v \in Users : OneLike(v, a)'
  <2> SUFFICES ASSUME NEW a \in ArticleIds \ shaken', NEW v \in Users PROVE OneLike(v, a)'
    OBVIOUS
  <2>1. OneLike(v, a)
    BY DEF LikesInv
  <2>2. LikesBy(v, a)' = LikesBy(v, a)
    BY DEF LikesBy, LikesOf
  <2> QED BY <2>1, <2>2 DEF OneLike
<1>6. LikesType'
  BY DEF LikesInv, LikesType
<1>7. \A v, w \in Users : Apart(act[v], act[w])'
  BY <1>3, <1>4 DEF Apart
<1> QED BY <1>2, <1>5, <1>6, <1>7 DEF LikesInv

LEMMA AsideMove ==
    ASSUME LikesInv, UNCHANGED <<likes, liked, shaken>>, used \subseteq used',
           NEW u \in Users, NEW r, act' = [act EXCEPT ![u] = r], r.op \in Aside
    PROVE  LikesInv'
BY AsideKnows, LikesMove DEF Apart

\* A like that had a row is touched only for the article it is of, by those
\* who know it from that article; a new one is stored for it.
Touch(b) ==
    /\ \A l \in LikeIds \cap used : likes'[l] # likes[l] =>
         /\ likes[l] # None /\ likes[l].on \in {b, None}
         /\ likes'[l] # None => likes'[l].on \in {b, None} /\ likes'[l].user = likes[l].user
         /\ \A v \in Users : l \in Loads(act[v]) => act[v].on = b
    /\ \A l \in LikeIds \ used : likes'[l] # None => likes'[l].on = b

\* The likes of one article change, and the request that changed them is over.
LEMMA LikesTouch ==
    ASSUME LikesInv, LikesType', used \subseteq used', shaken \subseteq shaken',
           NEW b \in ArticleIds, Touch(b),
           \A a \in ArticleIds \ {b}, v \in Users : <<v, a>> \in liked' <=> <<v, a>> \in liked,
           NEW u \in Users, NEW r, act' = [act EXCEPT ![u] = r], r.op \in Aside,
           b \notin shaken' =>
              /\ \A v \in Users \ {u} : LikesBy(v, b)' \subseteq LikesBy(v, b)
              /\ (\E v \in Users \ {u} : Viewing(act[v]) /\ act[v].on = b) =>
                   \A s \in SUBSET LikeIds :
                     Live(s) = LikesOf(b) => {l \in s : likes'[l] # None} = LikesOf(b)'
              /\ \A v \in Users : OneLike(v, b)'
    PROVE  LikesInv'
<1>1. \A v \in Users : act'[v] = IF v = u THEN r ELSE act[v]
  BY DEF LikesInv, LikesType
<1>2. \A l \in LikeIds : likes[l] # None => l \in used
  BY DEF LikesInv, LikesType
<1>3. ASSUME NEW a \in ArticleIds, a # b
      PROVE  /\ LikesOf(a)' = LikesOf(a)
             /\ \A l \in LikesOf(a) : likes'[l] = likes[l]
             /\ \A v : LikesBy(v, a)' = LikesBy(v, a)
  <2>1. \A l \in LikesOf(a) : likes'[l] = likes[l]
    BY <1>2, <1>3 DEF LikesOf, Touch
  <2>2. \A l \in LikesOf(a)' : l \in LikesOf(a)
    BY <1>2, <1>3 DEF LikesOf, Touch
  <2> QED BY <2>1, <2>2 DEF LikesOf, LikesBy
<1>4. ASSUME NEW v \in Users \ {u}, NEW q, q = act[v] PROVE RequestKnows(v, q)'
  <2>1. RequestKnows(v, q)
    BY <1>4 DEF LikesInv
  <2>2. (Viewing(q)' <=> Viewing(q)) /\ Loads(q)' = Loads(q)
    BY DEF Viewing, Counts, Loads
  <2>3. ASSUME NEW l \in Loads(q)' PROVE l \in used' /\ (likes'[l] # None => likes'[l].on \in {q.on, None})
    <3>1. l \in LikeIds \cap used /\ (likes[l] # None => likes[l].on \in {q.on, None})
      BY <2>1, <2>2, <2>3 DEF RequestKnows, Loads
    <3>2. likes'[l] # likes[l] => q.on = b /\ (likes'[l] # None => likes'[l].on \in {b, None})
      BY <1>4, <2>2, <2>3, <3>1 DEF Touch
    <3> QED BY <3>1, <3>2
  <2>6. q.op = "unlike" =>
          q.like \in LikeIds /\ (likes'[q.like] # None => likes'[q.like].user = v)
    <3> SUFFICES ASSUME q.op = "unlike"
                 PROVE  q.like \in LikeIds /\ (likes'[q.like] # None => likes'[q.like].user = v)
      OBVIOUS
    <3>1. q.like \in Loads(q) /\ q.like \in LikeIds /\ (likes[q.like] # None => likes[q.like].user = v)
      BY <2>1 DEF RequestKnows, Loads
    <3>2. q.like \in used
      BY <2>1, <3>1 DEF RequestKnows
    <3> QED BY <3>1, <3>2 DEF Touch
  <2>4. CASE q.on # b
    <3>1. \A l \in Loads(q) : likes'[l] = likes[l]
      BY <1>4, <2>1, <2>4 DEF RequestKnows, Touch, Loads
    <3>2. Viewing(q) => /\ Live(q.likes)' = Live(q.likes)
                        /\ q.op = "update" => Live(q.baseLikes)' = Live(q.baseLikes)
      BY <2>1, <3>1 DEF Live, Loads, RequestKnows
    <3>3. q.op \in {"read", "select", "update", "like", "unlike"} =>
             /\ LikesOf(q.on)' = LikesOf(q.on)
             /\ LikesBy(v, q.on)' = LikesBy(v, q.on)
      BY <1>3, <2>1, <2>4 DEF RequestKnows
    <3> QED BY <2>1, <2>2, <2>3, <2>6, <3>2, <3>3 DEF RequestKnows, Viewing
  <2>5. CASE q.on = b
    <3>1. CASE b \in shaken'
      BY <2>1, <2>2, <2>3, <2>5, <2>6, <3>1 DEF RequestKnows
    <3>2. CASE b \notin shaken'
      <4>1. b \notin shaken
        BY <3>2
      <4>2. LikesBy(v, b)' \subseteq LikesBy(v, b)
        BY <3>2
      <4>3. Viewing(q) => \A s \in SUBSET LikeIds :
                            Live(s) = LikesOf(b) => Live(s)' = LikesOf(b)'
        BY <1>4, <2>5, <3>2 DEF Live
      <4>4. Viewing(q) => q.likes \in SUBSET LikeIds
                          /\ (q.op = "update" => q.baseLikes \in SUBSET LikeIds)
        BY <2>1 DEF RequestKnows
      <4> QED BY <2>1, <2>2, <2>3, <2>5, <2>6, <4>1, <4>2, <4>3, <4>4 DEF RequestKnows
    <3> QED BY <3>1, <3>2
  <2> QED BY <2>4, <2>5
<1>5. ASSUME NEW v \in Users PROVE RequestKnows(v, act[v])'
  <2>1. CASE v = u
    <3>1. act'[v] = r /\ RequestKnows(v, r)'
      <4>1. Loads(r)' = {}
        BY DEF Loads, Viewing, Aside
      <4> QED BY <1>1, <2>1, <4>1 DEF RequestKnows, Viewing, Aside
    <3> QED BY <3>1
  <2>2. CASE v # u
    <3>1. PICK q : q = act[v]
      OBVIOUS
    <3>2. RequestKnows(v, q)' /\ act'[v] = q
      BY <1>1, <1>4, <2>2, <3>1
    <3> QED BY <3>2
  <2> QED BY <2>1, <2>2
<1>6. \A v, w \in Users : Apart(act[v], act[w])'
  <2>1. \A q : Loads(q)' = Loads(q)
    BY DEF Loads, Viewing, Counts
  <2>2. Loads(r) = {}
    BY AsideKnows
  <2>3. \A v, w \in Users : Apart(act'[v], act'[w])
    BY <1>1, <2>2 DEF LikesInv, Apart
  <2> QED BY <2>1, <2>3 DEF Apart
<1>7. ASSUME NEW a \in ArticleIds \ shaken', NEW v \in Users PROVE OneLike(v, a)'
  <2>1. CASE a = b
    BY <2>1
  <2>2. CASE a # b
    <3>1. OneLike(v, a) /\ LikesBy(v, a)' = LikesBy(v, a)
      BY <1>3, <2>2 DEF LikesInv
    <3>2. <<v, a>> \in liked' <=> <<v, a>> \in liked
      BY <2>2
    <3> QED BY <3>1, <3>2 DEF OneLike
  <2> QED BY <2>1, <2>2
<1> QED BY <1>5, <1>6, <1>7 DEF LikesInv

-----------------------------------------------------------------------------

\* Likes read from the table are of the article they are read for.
LEMMA JustRead ==
    ASSUME LikesInv, NEW a \in ArticleIds
    PROVE  /\ LikesOf(a) \subseteq LikeIds /\ Live(LikesOf(a)) = LikesOf(a)
           /\ \A l \in LikesOf(a) : l \in used /\ likes[l].on = a /\ likes[l] # None
           /\ \A l \in LikesOf(a), v \in Users : l \in Loads(act[v]) => act[v].on = a
<1>1. \A l \in LikesOf(a) : l \in LikeIds /\ l \in used /\ likes[l].on = a /\ likes[l] # None
  BY DEF LikesOf, LikesInv, LikesType
<1>2. ASSUME NEW l \in LikesOf(a), NEW v \in Users, l \in Loads(act[v]) PROVE act[v].on = a
  <2>1. likes[l].on \in {act[v].on, None}
    BY <1>1, <1>2 DEF LikesInv, RequestKnows
  <2>2. a # None
    OBVIOUS
  <2> QED BY <1>1, <2>1, <2>2
<1> QED BY <1>1, <1>2 DEF Live

LEMMA ReadLikes ==
    ASSUME LikesInv, NEW u \in Users, NEW a \in ArticleIds, ReadArticle(u, a)
    PROVE  LikesInv'
<1>0. PICK r : r = [op |-> "read", on |-> a, likes |-> LikesOf(a),
                    row |-> [article[a] EXCEPT !.author = Author(a)]]
  OBVIOUS
<1>1. act' = [act EXCEPT ![u] = r] /\ UNCHANGED <<likes, used, liked, shaken>>
  BY <1>0 DEF ReadArticle, Begins, rows, toggles
<1>2. r.op = "read" /\ r.on = a /\ r.likes = LikesOf(a) /\ Loads(r) = LikesOf(a)
  BY <1>0, JustRead DEF Loads, Viewing, Counts
<1>3. RequestKnows(u, r)
  BY <1>2, JustRead DEF RequestKnows
<1>4. \A v \in Users : Apart(r, act[v])
  BY <1>2, JustRead DEF Apart
<1> QED BY <1>1, <1>3, <1>4, LikesMove

LEMMA CountLikes ==
    ASSUME LikesInv, NEW u \in Users, CountView(u)
    PROVE  LikesInv'
<1>0. PICK r : r = [act[u] EXCEPT !.op = "select", !.row.views = @ + 1]
  OBVIOUS
<1>1. /\ act' = [act EXCEPT ![u] = r] /\ UNCHANGED <<likes, used, liked, shaken>>
      /\ act[u].op = "read"
  BY <1>0 DEF CountView, Goes, rows, toggles
<1>2. /\ "op" \in DOMAIN r => r.op = "select"
      /\ DOMAIN r = DOMAIN act[u] /\ r.on = act[u].on /\ r.likes = act[u].likes
  BY <1>0
<1>3. RequestKnows(u, act[u])
  BY DEF LikesInv
<1>4. CASE r.op = "select"
  <2>1. (Viewing(r) <=> Viewing(act[u])) /\ Loads(r) = Loads(act[u])
    BY <1>1, <1>2, <1>4 DEF Viewing, Counts, Loads
  <2>2. RequestKnows(u, r)
    BY <1>1, <1>2, <1>3, <1>4, <2>1 DEF RequestKnows
  <2>3. \A v \in Users : Apart(r, act[v])
    BY <1>2, <2>1 DEF Apart, LikesInv
  <2> QED BY <1>1, <2>2, <2>3, LikesMove
<1>5. r.op = "select"
  BY <1>0, <1>2
<1> QED BY <1>4, <1>5

LEMMA SelectLikes ==
    ASSUME LikesInv, NEW u \in Users, SelectArticle(u)
    PROVE  LikesInv'
<1>1. PICK a, q : q = act[u] /\ a = q.on
  OBVIOUS
<1>2. /\ q.op = "select" /\ UNCHANGED <<likes, used, liked, shaken>> /\ RequestKnows(u, q)
      /\ a \in ArticleIds
  BY <1>1 DEF SelectArticle, Goes, rows, toggles, LikesInv, RequestKnows
<1>3. CASE Counts(q)
  <2>1. PICK r : r = [op |-> "update", on |-> a, row |-> q.row, base |-> article[a],
                      likes |-> q.likes, baseLikes |-> LikesOf(a)]
    OBVIOUS
  <2>2. act' = [act EXCEPT ![u] = r]
    BY <1>1, <1>3, <2>1 DEF SelectArticle, Goes
  <2>3. /\ r.op = "update" /\ r.on = a /\ Viewing(r) /\ Viewing(q)
        /\ r.likes = q.likes /\ r.baseLikes = LikesOf(a)
    BY <1>2, <1>3, <2>1 DEF Viewing, Counts
  <2>4. \A l \in Loads(r) : l \in Loads(q) \/ l \in LikesOf(a)
    BY <2>3 DEF Loads
  <2>5. RequestKnows(u, r)
    <3>1. \A l \in Loads(r) : l \in used /\ (likes[l] # None => likes[l].on \in {a, None})
      BY <1>1, <1>2, <2>4, JustRead DEF RequestKnows
    <3>2. q.likes \subseteq LikeIds /\ (a \notin shaken => Live(q.likes) = LikesOf(a))
      BY <1>1, <1>2, <2>3 DEF RequestKnows
    <3>3. LikesOf(a) \subseteq LikeIds /\ Live(LikesOf(a)) = LikesOf(a)
      BY <1>2, JustRead
    <3>4. r.on \notin shaken => Live(r.likes) = LikesOf(r.on) /\ Live(r.baseLikes) = LikesOf(r.on)
      BY <2>3, <3>2, <3>3, Zenon
    <3>5. r.likes \subseteq LikeIds /\ r.baseLikes \subseteq LikeIds
      BY <2>3, <3>2, <3>3
    <3>6. r.op # "like" /\ r.op # "unlike" /\ r.on \in ArticleIds
      BY <1>2, <2>3
    <3>7. \A l \in Loads(r) : l \in used /\ (likes[l] # None => likes[l].on \in {r.on, None})
      BY <2>3, <3>1
    <3> QED BY <3>4, <3>5, <3>6, <3>7, Zenon DEF RequestKnows
  <2>6. \A v \in Users : Apart(r, act[v])
    <3> SUFFICES ASSUME NEW v \in Users, NEW l \in Loads(r), l \in Loads(act[v])
                 PROVE  act[v].on = a
      BY <2>3 DEF Apart
    <3>1. CASE l \in Loads(q)
      BY <1>1, <3>1 DEF Apart, LikesInv
    <3>2. CASE l \in LikesOf(a)
      BY <1>2, <3>2, JustRead
    <3> QED BY <2>4, <3>1, <3>2
  <2> QED BY <1>2, <2>2, <2>5, <2>6, LikesMove
<1>4. CASE ~Counts(q)
  <2>1. PICK r : r = [op |-> "update", on |-> a, row |-> q.row, base |-> article[a]]
    OBVIOUS
  <2>2. act' = [act EXCEPT ![u] = r]
    BY <1>1, <1>4, <2>1 DEF SelectArticle, Goes
  <2>3. r.op = "update" /\ r.on = a /\ ~Viewing(r) /\ Loads(r) = {}
    BY <2>1 DEF Viewing, Counts, Loads
  <2>4. RequestKnows(u, r) /\ \A v \in Users : Apart(r, act[v])
    BY <1>2, <2>3 DEF RequestKnows, Apart
  <2> QED BY <1>2, <2>2, <2>4, LikesMove
<1> QED BY <1>3, <1>4

LEMMA UpdateLikes ==
    ASSUME LikesInv, NEW u \in Users, NEW a \in ArticleIds, UpdateArticle(u, a)
    PROVE  LikesInv'
<1>1. PICK r : r = [op |-> "select", on |-> a, row |-> article[a]]
  OBVIOUS
<1>2. act' = [act EXCEPT ![u] = r] /\ UNCHANGED <<likes, used, liked, shaken>>
  BY <1>1 DEF UpdateArticle, Begins, rows, toggles
<1>3. r.op = "select" /\ r.on = a /\ ~Viewing(r) /\ Loads(r) = {}
  BY <1>1 DEF Viewing, Counts, Loads
<1>4. RequestKnows(u, r) /\ \A v \in Users : Apart(r, act[v])
  BY <1>3 DEF RequestKnows, Apart
<1> QED BY <1>2, <1>4, LikesMove

\* A toggle finds the one like there is, or none.
LEMMA FindLikes ==
    ASSUME LikesInv, NEW u \in Users, NEW a \in ArticleIds, FindLike(u, a)
    PROVE  LikesInv'
<1>1. UNCHANGED <<likes, used, liked, shaken>>
  BY DEF FindLike, rows, toggles
<1>2. CASE LikesBy(u, a) = {} /\ Begins(u, [op |-> "like", on |-> a, author |-> Author(a)])
  <2>1. PICK r : r = [op |-> "like", on |-> a, author |-> Author(a)]
    OBVIOUS
  <2>2. act' = [act EXCEPT ![u] = r]
    BY <1>2, <2>1 DEF Begins
  <2>3. r.op = "like" /\ r.on = a /\ ~Viewing(r) /\ Loads(r) = {}
    BY <2>1 DEF Viewing, Loads
  <2>4. RequestKnows(u, r) /\ \A v \in Users : Apart(r, act[v])
    BY <1>2, <2>3 DEF RequestKnows, Apart
  <2> QED BY <1>1, <2>2, <2>4, LikesMove
<1>3. CASE \E l \in LikesBy(u, a) : Begins(u, [op |-> "unlike", on |-> a, like |-> l])
  <2>1. PICK l \in LikesBy(u, a) : Begins(u, [op |-> "unlike", on |-> a, like |-> l])
    BY <1>3
  <2>2. PICK r : r = [op |-> "unlike", on |-> a, like |-> l]
    OBVIOUS
  <2>3. act' = [act EXCEPT ![u] = r]
    BY <2>1, <2>2 DEF Begins
  <2>4. r.op = "unlike" /\ r.on = a /\ r.like = l /\ ~Viewing(r)
    BY <2>2 DEF Viewing
  <2>5. l \in LikesOf(a)
    BY DEF LikesBy
  <2>6. Loads(r) = {l}
    BY <2>4, <2>5 DEF Loads, LikesOf
  <2>7. a \notin shaken => LikesBy(u, a) \subseteq {l}
    BY <2>1 DEF LikesInv, OneLike
  <2>8. RequestKnows(u, r)
    <3>1. likes[l].user = u
      BY DEF LikesBy
    <3> QED BY <3>1, <2>4, <2>5, <2>6, <2>7, JustRead DEF RequestKnows
  <2>9. \A v \in Users : Apart(r, act[v])
    BY <2>4, <2>5, <2>6, JustRead DEF Apart
  <2> QED BY <1>1, <2>3, <2>8, <2>9, LikesMove
<1> QED BY <1>2, <1>3 DEF FindLike

-----------------------------------------------------------------------------
\* A save relinks nothing, unless a toggle came between: the likes of the view
\* and those of the save's select are the article's.
LEMMA SaveLikes ==
    ASSUME LikesInv, NEW u \in Users, SaveArticle(u)
    PROVE  LikesInv'
<1>0. PICK q, r, b : /\ q = act[u] /\ b = q.on
                     /\ r = IF Counts(q) THEN [op |-> "mark", on |-> q.on] ELSE Quiet
  OBVIOUS
<1>1. /\ q.op = "update" /\ act' = [act EXCEPT ![u] = r] /\ UNCHANGED <<used, liked, shaken>>
      /\ likes' = likes \/ (Counts(q) /\ likes' = Relinked(q))
  BY <1>0 DEF SaveArticle, Goes, toggles
<1>2. r.op \in Aside
  BY <1>0 DEF Aside, Quiet
<1>3. CASE likes' = likes
  BY <1>1, <1>2, <1>3, AsideMove
<1>4. CASE Counts(q) /\ likes' = Relinked(q)
  <2>1. /\ RequestKnows(u, q) /\ Viewing(q) /\ b \in ArticleIds
        /\ q.likes \subseteq LikeIds /\ q.baseLikes \subseteq LikeIds
    BY <1>0, <1>1, <1>4 DEF LikesInv, RequestKnows, Viewing
  <2>2. Loads(q) = q.likes \cup q.baseLikes
    BY <1>1, <2>1 DEF Loads, Viewing
  <2>3. \A l \in LikeIds :
          /\ likes'[l] # likes[l] => likes[l] # None /\ l \in Loads(q)
          /\ likes[l] # None /\ l \in q.likes \ q.baseLikes => likes'[l] = [likes[l] EXCEPT !.on = b]
          /\ likes[l] # None /\ l \in q.baseLikes \ q.likes => likes'[l] = [likes[l] EXCEPT !.on = None]
          /\ ~(likes[l] # None /\ l \in (q.likes \ q.baseLikes) \cup (q.baseLikes \ q.likes))
               => likes'[l] = likes[l]
    BY <1>0, <1>4, <2>2 DEF Relinked
  <2>4. \A l \in LikeIds : likes[l] # None => likes[l] \in LikeRow /\ l \in used
    BY DEF LikesInv, LikesType
  <2>5. \A l \in LikeIds : likes'[l] # likes[l] =>
          /\ likes'[l] \in LikeRow /\ likes'[l].on \in {b, None} /\ likes'[l].user = likes[l].user
          /\ likes[l] # None /\ l \in used /\ l \in Loads(q)
    <3> SUFFICES ASSUME NEW l \in LikeIds, likes'[l] # likes[l]
                 PROVE  /\ likes'[l] \in LikeRow /\ likes'[l].on \in {b, None}
                        /\ likes'[l].user = likes[l].user
                        /\ likes[l] # None /\ l \in used /\ l \in Loads(q)
      OBVIOUS
    <3>1. likes[l] # None /\ l \in Loads(q) /\ likes[l] \in LikeRow /\ l \in used
      BY <2>3, <2>4
    <3>2. PICK x \in {b, None} : likes'[l] = [likes[l] EXCEPT !.on = x]
      BY <2>3
    <3>3. /\ [likes[l] EXCEPT !.on = x] \in LikeRow /\ [likes[l] EXCEPT !.on = x].on = x
          /\ [likes[l] EXCEPT !.on = x].user = likes[l].user
      BY <2>1, <3>1 DEF LikeRow
    <3> QED BY <3>1, <3>2, <3>3
  <2>6. LikesType'
    <3>1. likes' \in [LikeIds -> LikeRow \cup {None}]
      <4>1. \A l \in LikeIds : likes'[l] \in LikeRow \cup {None}
        BY <2>5 DEF LikesInv, LikesType
      <4>2. likes' = [l \in LikeIds |-> likes'[l]]
        BY <1>4 DEF Relinked
      <4> QED BY <4>1, <4>2
    <3>2. act' = [v \in Users |-> act'[v]]
      BY <1>1 DEF LikesInv, LikesType
    <3>3. \A l \in LikeIds : likes'[l] # None => l \in used'
      BY <1>1, <2>4, <2>5
    <3> QED BY <3>1, <3>2, <3>3 DEF LikesType
  <2>7. Touch(b)
    <3>1. ASSUME NEW l \in LikeIds \cap used, likes'[l] # likes[l]
          PROVE  /\ likes[l] # None /\ likes[l].on \in {b, None}
                 /\ likes'[l] # None => likes'[l].on \in {b, None} /\ likes'[l].user = likes[l].user
                 /\ \A v \in Users : l \in Loads(act[v]) => act[v].on = b
      <4>1. /\ likes[l] # None /\ l \in Loads(q)
            /\ likes'[l].on \in {b, None} /\ likes'[l].user = likes[l].user
        BY <2>5, <3>1
      <4>2. likes[l].on \in {b, None}
        BY <1>0, <2>1, <4>1 DEF RequestKnows
      <4>3. \A v \in Users : l \in Loads(act[v]) => act[v].on = b
        BY <1>0, <4>1 DEF LikesInv, Apart
      <4> QED BY <4>1, <4>2, <4>3
    <3>2. \A l \in LikeIds \ used : likes'[l] = None
      BY <2>4, <2>5
    <3> QED BY <3>1, <3>2 DEF Touch
  <2>8. CASE b \in shaken
    BY <1>1, <1>2, <2>1, <2>6, <2>7, <2>8, LikesTouch
  <2>9. CASE b \notin shaken
    <3>1. Live(q.likes) = Live(q.baseLikes)
      BY <1>0, <1>1, <2>1, <2>9 DEF RequestKnows
    <3>2. \A l \in LikeIds : likes'[l] = likes[l]
      BY <2>3, <3>1 DEF Live
    <3>3. likes' = likes
      BY <2>6, <3>2 DEF LikesType, LikesInv
    <3> QED BY <1>3, <3>3
  <2> QED BY <2>8, <2>9
<1> QED BY <1>1, <1>3, <1>4

\* An article that goes takes its likes with it.
LEMMA DeleteLikes ==
    ASSUME LikesInv, NEW u \in Users, NEW a \in ArticleIds, DeleteArticle(u, a)
    PROVE  LikesInv'
<1>1. /\ act' = [act EXCEPT ![u] = Quiet] /\ UNCHANGED <<used, shaken>>
      /\ likes' = [l \in LikeIds |-> IF l \in LikesOf(a) THEN None ELSE likes[l]]
      /\ liked' = {p \in liked : p[2] # a}
  BY DEF DeleteArticle, Begins
<1>2. Quiet.op \in Aside
  BY DEF Aside, Quiet
<1>3. LikesType'
  <2>1. act' = [v \in Users |-> act'[v]]
    BY <1>1 DEF LikesInv, LikesType
  <2> QED BY <1>1, <2>1 DEF LikesInv, LikesType
<1>4. Touch(a)
  BY <1>1, JustRead DEF Touch, LikesInv, LikesType
<1>5. LikesOf(a)' = {} /\ \A v : LikesBy(v, a)' = {}
  BY <1>1 DEF LikesOf, LikesBy
<1>6. \A s \in SUBSET LikeIds : Live(s) = LikesOf(a) => {l \in s : likes'[l] # None} = {}
  <2> SUFFICES ASSUME NEW s \in SUBSET LikeIds, Live(s) = LikesOf(a), NEW l \in s, likes'[l] # None
               PROVE  FALSE
    OBVIOUS
  <2>1. CASE l \in LikesOf(a)
    BY <1>1, <2>1 DEF LikesOf
  <2>2. CASE l \notin LikesOf(a)
    <3>1. likes[l] = None
      BY <2>2 DEF Live
    <3> QED BY <1>1, <2>2, <3>1 DEF LikesInv, LikesType
  <2> QED BY <2>1, <2>2
<1>7. \A v \in Users : OneLike(v, a)'
  BY <1>1, <1>5 DEF OneLike
<1>8. \A b \in ArticleIds \ {a}, v \in Users : <<v, b>> \in liked' <=> <<v, b>> \in liked
  BY <1>1
<1> QED BY <1>1, <1>2, <1>3, <1>4, <1>5, <1>6, <1>7, <1>8, LikesTouch

\* A toggle shakes the articles somebody is viewing; the like removed is the
\* only one its reader has.
LEMMA RemoveLikes ==
    ASSUME LikesInv, NEW u \in Users, RemoveLike(u)
    PROVE  LikesInv'
<1>0. PICK q, l, b : q = act[u] /\ l = q.like /\ b = q.on
  OBVIOUS
<1>1. /\ act' = [act EXCEPT ![u] = Quiet] /\ UNCHANGED used /\ q.op = "unlike"
      /\ likes' = [likes EXCEPT ![l] = None]
      /\ liked' = liked \ {<<u, b>>}
  BY <1>0 DEF RemoveLike, Ends, Goes
<1>2. /\ shaken \subseteq shaken'
      /\ b \notin shaken' => \A v \in Users : ~(Viewing(act[v]) /\ act[v].on = b)
  BY <1>0 DEF RemoveLike, Shakes, Viewing
<1>3. RequestKnows(u, q) /\ b \in ArticleIds /\ Quiet.op \in Aside
  BY <1>0, <1>1 DEF LikesInv, RequestKnows, Aside, Quiet
<1>4. \A k \in LikeIds : likes'[k] = IF k = l THEN None ELSE likes[k]
  BY <1>1 DEF LikesInv, LikesType
<1>5. l \in LikeIds => l \in Loads(q)
  BY <1>0, <1>1 DEF Loads
<1>6. LikesType'
  <2>1. act' = [v \in Users |-> act'[v]] /\ likes' \in [LikeIds -> LikeRow \cup {None}]
    BY <1>1 DEF LikesInv, LikesType
  <2> QED BY <1>1, <1>4, <2>1 DEF LikesInv, LikesType
<1>7. Touch(b)
  <2>1. ASSUME NEW k \in LikeIds \cap used, likes'[k] # likes[k]
        PROVE  /\ likes[k] # None /\ likes[k].on \in {b, None} /\ likes'[k] = None
               /\ \A v \in Users : k \in Loads(act[v]) => act[v].on = b
    <3>1. k = l /\ k \in Loads(q) /\ likes[k] # None /\ likes'[k] = None
      BY <1>4, <1>5, <2>1
    <3>2. likes[k].on \in {b, None}
      BY <1>0, <1>3, <3>1 DEF RequestKnows
    <3>3. \A v \in Users : k \in Loads(act[v]) => act[v].on = b
      BY <1>0, <3>1 DEF LikesInv, Apart
    <3> QED BY <3>1, <3>2, <3>3
  <2>2. \A k \in LikeIds \ used : likes'[k] = None
    BY <1>4 DEF LikesInv, LikesType
  <2> QED BY <2>1, <2>2 DEF Touch
<1>8. \A v \in Users : LikesBy(v, b)' = LikesBy(v, b) \ {l}
  BY <1>4 DEF LikesBy, LikesOf
<1>9. b \notin shaken' => \A v \in Users : OneLike(v, b)'
  <2> SUFFICES ASSUME b \notin shaken', NEW v \in Users PROVE OneLike(v, b)'
    OBVIOUS
  <2>1. b \notin shaken
    BY <1>2
  <2>2. CASE v = u
    <3>1. LikesBy(u, b) \subseteq {l}
      BY <1>0, <1>1, <1>3, <2>1 DEF RequestKnows
    <3>2. LikesBy(u, b)' = {}
      BY <1>8, <3>1
    <3> QED BY <1>1, <2>2, <3>2 DEF OneLike
  <2>3. CASE v # u
    <3>1. OneLike(v, b) /\ (<<v, b>> \in liked' <=> <<v, b>> \in liked)
      BY <1>1, <1>3, <2>1, <2>3 DEF LikesInv
    <3>2. l \notin LikesBy(v, b)
      <4>1. l \in LikesBy(v, b) => likes[l] # None /\ likes[l].user = v
        BY DEF LikesBy, LikesOf
      <4>2. likes[l] # None => likes[l].user = u
        BY <1>0, <1>1, <1>3 DEF RequestKnows
      <4> QED BY <2>3, <4>1, <4>2
    <3>3. LikesBy(v, b)' = LikesBy(v, b)
      BY <1>8, <3>2
    <3> QED BY <3>1, <3>3 DEF OneLike
  <2> QED BY <2>2, <2>3
<1>10. \A a \in ArticleIds \ {b}, v \in Users : <<v, a>> \in liked' <=> <<v, a>> \in liked
  BY <1>1
<1> QED BY <1>1, <1>2, <1>3, <1>6, <1>7, <1>8, <1>9, <1>10, LikesTouch

LEMMA StoreLikes ==
    ASSUME LikesInv, NEW u \in Users, NEW l \in LikeIds, StoreLike(u, l)
    PROVE  LikesInv'
<1>0. PICK q, r, b : /\ q = act[u] /\ b = q.on
                     /\ r = [op |-> "tell", to |-> q.author, about |-> l]
  OBVIOUS
<1>1. /\ act' = [act EXCEPT ![u] = r] /\ used' = used \cup {l} /\ q.op = "like"
      /\ likes' = [likes EXCEPT ![l] = [user |-> u, on |-> b]]
      /\ liked' = liked \cup {<<u, b>>} /\ l \notin used
  BY <1>0 DEF StoreLike, Goes
<1>2. /\ shaken \subseteq shaken'
      /\ b \notin shaken' => \A v \in Users : ~(Viewing(act[v]) /\ act[v].on = b)
  BY <1>0 DEF StoreLike, Shakes, Viewing
<1>3. RequestKnows(u, q) /\ b \in ArticleIds /\ r.op \in Aside
  BY <1>0, <1>1 DEF LikesInv, RequestKnows, Aside
<1>4. \A k \in LikeIds : likes'[k] = IF k = l THEN [user |-> u, on |-> b] ELSE likes[k]
  BY <1>1 DEF LikesInv, LikesType
<1>5. [user |-> u, on |-> b] \in LikeRow /\ [user |-> u, on |-> b] # None
  BY <1>3 DEF LikeRow
<1>6. LikesType'
  <2>1. act' = [v \in Users |-> act'[v]] /\ likes' \in [LikeIds -> LikeRow \cup {None}]
    BY <1>1, <1>5 DEF LikesInv, LikesType
  <2> QED BY <1>1, <1>4, <2>1 DEF LikesInv, LikesType
<1>7. Touch(b)
  <2>1. \A k \in LikeIds \cap used : likes'[k] = likes[k]
    BY <1>1, <1>4
  <2>2. \A k \in LikeIds \ used : likes'[k] # None => likes'[k].on = b
    BY <1>4 DEF LikesInv, LikesType
  <2> QED BY <2>1, <2>2 DEF Touch
<1>8. likes[l] = None
  BY <1>1 DEF LikesInv, LikesType
<1>9. /\ \A v \in Users \ {u} : LikesBy(v, b)' = LikesBy(v, b)
      /\ LikesBy(u, b)' = LikesBy(u, b) \cup {l}
  BY <1>4, <1>5, <1>8 DEF LikesBy, LikesOf
<1>10. b \notin shaken' => \A v \in Users : OneLike(v, b)'
  <2> SUFFICES ASSUME b \notin shaken', NEW v \in Users PROVE OneLike(v, b)'
    OBVIOUS
  <2>1. b \notin shaken
    BY <1>2
  <2>2. CASE v = u
    <3>1. LikesBy(u, b) = {}
      BY <1>0, <1>1, <1>3, <2>1 DEF RequestKnows
    <3>2. LikesBy(u, b)' = {l}
      BY <1>9, <3>1
    <3> QED BY <1>1, <2>2, <3>2 DEF OneLike
  <2>3. CASE v # u
    <3>1. OneLike(v, b) /\ (<<v, b>> \in liked' <=> <<v, b>> \in liked)
      BY <1>1, <1>3, <2>1, <2>3 DEF LikesInv
    <3> QED BY <1>9, <2>3, <3>1 DEF OneLike
  <2> QED BY <2>2, <2>3
<1>11. \A a \in ArticleIds \ {b}, v \in Users : <<v, a>> \in liked' <=> <<v, a>> \in liked
  BY <1>1
<1>12. used \subseteq used'
  BY <1>1
<1> QED BY <1>1, <1>2, <1>3, <1>6, <1>7, <1>9, <1>10, <1>11, <1>12, LikesTouch

LEMMA LikesUnchanged ==
    LikesInv /\ UNCHANGED <<likes, used, act, liked, shaken>> => LikesInv'
<1> SUFFICES ASSUME LikesInv, UNCHANGED <<likes, used, act, liked, shaken>> PROVE LikesInv'
  OBVIOUS
<1>1. \A u \in Users : RequestKnows(u, act[u])'
  <2> SUFFICES ASSUME NEW u \in Users PROVE RequestKnows(u, act[u])'
    OBVIOUS
  <2>1. PICK q : q = act[u]
    OBVIOUS
  <2>2. RequestKnows(u, q)'
    BY <2>1, KnowsStill DEF LikesInv
  <2> QED BY <2>1, <2>2
<1>2. LikesType'
  BY DEF LikesInv, LikesType
<1>3. \A u, v \in Users : Apart(act[u], act[v])'
  BY DEF LikesInv, Apart, Loads, Viewing, Counts
<1>4. \A a \in ArticleIds \ shaken, u \in Users : OneLike(u, a)'
  <2>1. \A a, u : LikesBy(u, a)' = LikesBy(u, a)
    BY DEF LikesBy, LikesOf
  <2> QED BY <2>1 DEF LikesInv, OneLike
<1> QED BY <1>1, <1>2, <1>3, <1>4 DEF LikesInv

LEMMA LikesStep == LikesInv /\ CommentsNext => LikesInv'
<1> SUFFICES ASSUME LikesInv, CommentsNext PROVE LikesInv'
  OBVIOUS
<1>1. Quiet.op \in Aside
  BY DEF Quiet, Aside
<1>2. ASSUME NEW u \in Users,
             CountView(u) \/ SelectArticle(u) \/ SaveArticle(u) \/ RemoveLike(u)
      PROVE  LikesInv'
  BY <1>2, CountLikes, SelectLikes, SaveLikes, RemoveLikes
<1>3. ASSUME NEW u \in Users, NEW a \in ArticleIds,
             ReadArticle(u, a) \/ UpdateArticle(u, a) \/ DeleteArticle(u, a) \/ FindLike(u, a)
      PROVE  LikesInv'
  BY <1>3, ReadLikes, UpdateLikes, DeleteLikes, FindLikes
\* A handler that ends, and the likes stay as they are.
<1>4. ASSUME NEW u \in Users, act' = [act EXCEPT ![u] = Quiet],
             UNCHANGED <<likes, liked, shaken>>, used \subseteq used'
      PROVE  LikesInv'
  BY <1>1, <1>4, AsideMove
<1>5. ASSUME NEW u \in Users, MarkViewed(u) \/ Fails(u) \/ TellLike(u)
      PROVE  LikesInv'
  <2>1. act' = [act EXCEPT ![u] = Quiet] /\ UNCHANGED <<likes, liked, shaken, used>>
    BY <1>5 DEF MarkViewed, Fails, TellLike, Ends, Goes, rows, toggles
  <2> QED BY <1>4, <2>1
<1>6. ASSUME NEW u \in Users, NEW a \in ArticleIds, CreateArticle(u, a) PROVE LikesInv'
  <2>1. /\ act' = [act EXCEPT ![u] = Quiet] /\ UNCHANGED <<likes, liked, shaken>>
        /\ used' = used \cup {a}
    BY <1>6 DEF CreateArticle, Begins, toggles
  <2> QED BY <1>4, <2>1
<1>7. ASSUME NEW u \in Users, NEW a \in ArticleIds, ExpireMark(u, a) PROVE LikesInv'
  <2>1. UNCHANGED <<likes, used, act, liked, shaken>>
    BY <1>7 DEF ExpireMark, rows, toggles
  <2> QED BY <2>1, LikesUnchanged
<1>8. ASSUME NEW u \in Users, NEW c \in CommentIds,
             CommitComment(u, c) \/ DeleteComment(u, c) \/ UpdateComment(u, c)
      PROVE  LikesInv'
  <2>1. /\ act' = [act EXCEPT ![u] = Quiet] /\ UNCHANGED <<likes, liked, shaken>>
        /\ used' = used \cup {c} \/ used' = used
    BY <1>8 DEF CommitComment, DeleteComment, UpdateComment, Begins, Ends, Goes, rows, toggles
  <2> QED BY <1>4, <2>1
<1>9. ASSUME NEW e, SaveComment(e) PROVE LikesInv'
  <2>1. UNCHANGED <<likes, used, act, liked, shaken>>
    BY <1>9 DEF SaveComment, articlesVars, rows, toggles
  <2> QED BY <2>1, LikesUnchanged
<1>10. ASSUME NEW u \in Users, NEW a \in ArticleIds, NEW p \in CommentIds \cup {None},
              BeginComment(u, a, p)
       PROVE  LikesInv'
  <2>0. PICK r : r = [op |-> "comment", on |-> a, parent |-> p, author |-> Author(a)]
    OBVIOUS
  <2>1. act' = [act EXCEPT ![u] = r] /\ UNCHANGED <<likes, liked, shaken, used>>
    BY <1>10, <2>0 DEF BeginComment, Begins, rows, toggles
  <2>2. r.op \in Aside
    BY <2>0 DEF Aside
  <2> QED BY <2>1, <2>2, AsideMove
<1>11. ASSUME InboxNext, UNCHANGED <<articlesVars, commentsVars>> PROVE LikesInv'
  <2>1. UNCHANGED <<likes, used, act, liked, shaken>>
    BY <1>11 DEF articlesVars, rows, toggles
  <2> QED BY <2>1, LikesUnchanged
<1>12. ASSUME ArticlesNext PROVE LikesInv'
  BY <1>2, <1>3, <1>5, <1>6, <1>7, <1>12, StoreLikes DEF ArticlesNext
<1> QED BY <1>5, <1>8, <1>9, <1>10, <1>11, <1>12 DEF CommentsNext

LEMMA LikesAlways == Spec => []LikesInv
<1>1. Init => LikesInv
  BY LikesInit DEF Init
<1>2. LikesInv /\ [Next]_siteVars => LikesInv'
  <2>1. [Next]_siteVars => CommentsNext \/ UNCHANGED <<likes, used, act, liked, shaken>>
    BY DEF Next, siteVars, People, SignUps, Posts, Browse, Chats, Pages, Queries, posts,
           articlesVars, rows, toggles
  <2> QED BY <2>1, LikesStep, LikesUnchanged
<1> QED BY <1>1, <1>2, PTL DEF Spec

(* For any readers, likes and articles: unless the save of a view came     *)
(* around a toggle, a reader has exactly the like her last toggle left.    *)
(* Such a save finds in the table the likes its view had loaded, and       *)
(* relinks none; likes loaded for one article are never another's; and a   *)
(* like is only removed by its reader or with its article                  *)
(* (article.service.ts 259-279).                                           *)
THEOREM LikesAreToggled == Spec => []LikeStands
<1>1. LikesInv => LikeStands
  <2> SUFFICES ASSUME LikesInv, NEW a \in ArticleIds \ shaken, NEW u \in Users
               PROVE  Cardinality(LikesBy(u, a)) = (IF <<u, a>> \in liked THEN 1 ELSE 0)
    BY DEF LikeStands
  <2>1. CASE <<u, a>> \in liked
    <3>1. PICK l : LikesBy(u, a) = {l}
      BY <2>1 DEF LikesInv, OneLike
    <3> QED BY <2>1, <3>1, FS_Singleton
  <2>2. CASE <<u, a>> \notin liked
    <3>1. LikesBy(u, a) = {}
      BY <2>2 DEF LikesInv, OneLike
    <3> QED BY <2>2, <3>1, FS_EmptySet
  <2> QED BY <2>1, <2>2
<1> QED BY <1>1, LikesAlways, PTL
=============================================================================
