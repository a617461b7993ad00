--------------------------- MODULE CalendarProofs ---------------------------
(***************************************************************************)
(* What a mentee is shown, for any rows, sessions and reservations: the    *)
(* loop that cuts the reservations out of the rows leaves exactly the      *)
(* unbroken runs of free minutes, and the slots are counted from their     *)
(* starts.                                                                 *)
(***************************************************************************)
EXTENDS Calendar, FiniteSetTheorems, TLAPS

Time == [start : Int, end : Int]

-----------------------------------------------------------------------------
(* The fold over the cuts has a value: subtractIntervals is a recursive    *)
(* function of the set of cuts, and its equation has a solution on the     *)
(* subsets of a finite set, found one size after the other.                *)

CutAll(cut, segs) == UNION {Pieces(seg, cut) : seg \in segs}

Pick(s) == CHOOSE x \in s : TRUE

Solves(F, D, base) ==
    F = [s \in D |-> IF s = {} THEN base ELSE CutAll(Pick(s), F[s \ {Pick(s)}])]

UpTo(n, cuts) == {s \in SUBSET cuts : Cardinality(s) <= n}

LEMMA LeastNatural ==
    ASSUME NEW T \in SUBSET Nat, T # {}
    PROVE  \E n \in T : \A m \in T : n <= m
<1> DEFINE Less == {p \in Nat \X Nat : p[1] < p[2]}
<1>1. OpToRel(<, Nat) = Less
  BY Zenon DEF OpToRel
<1>2. IsWellFoundedOn(Less, Nat)
  BY Zenon, <1>1, NatLessThanWellFounded
<1>3. \E n \in T : \A m \in T : <<m, n>> \notin Less
  <2> HIDE DEF Less
  <2> QED BY <1>2, WFMin
<1>4. \A m, n \in Nat : <<m, n>> \in Less <=> m < n
  OBVIOUS
<1> HIDE DEF Less
<1>5. PICK n \in T : \A m \in T : <<m, n>> \notin Less
  BY <1>3
<1>6. \A m \in T : n <= m
  <2> TAKE m \in T
  <2>1. m \in Nat /\ n \in Nat
    OBVIOUS
  <2>2. ~(m < n)
    BY <1>4, <1>5, <2>1
  <2> QED BY <2>1, <2>2
<1> QED BY <1>6

LEMMA SolvedUpTo ==
    ASSUME NEW cuts, IsFiniteSet(cuts), NEW base
    PROVE  \A n \in Nat : \E F : Solves(F, UpTo(n, cuts), base)
<1> DEFINE Unsolved == {n \in Nat : \A F : ~Solves(F, UpTo(n, cuts), base)}
<1> SUFFICES ASSUME Unsolved # {} PROVE FALSE
  OBVIOUS
<1>1. PICK n \in Unsolved : \A m \in Unsolved : n <= m
  <2> HIDE DEF Unsolved
  <2>1. Unsolved \subseteq Nat
    BY DEF Unsolved
  <2> QED BY <2>1, LeastNatural
<1>2. \A s \in SUBSET cuts : IsFiniteSet(s) /\ Cardinality(s) \in Nat
  BY FS_Subset, FS_CardinalityType
<1>3. \A s \in SUBSET cuts : s # {} =>
        /\ Pick(s) \in s
        /\ Cardinality(s \ {Pick(s)}) = Cardinality(s) - 1
  BY <1>2, FS_RemoveElement DEF Pick
<1>4. \A s \in SUBSET cuts : Cardinality(s) = 0 => s = {}
  BY <1>2, FS_EmptySet
<1>5. CASE n = 0
  <2> DEFINE F == [s \in UpTo(0, cuts) |-> base]
  <2>1. \A s \in UpTo(0, cuts) : s = {}
    BY <1>2, <1>4 DEF UpTo
  <2>2. Solves(F, UpTo(0, cuts), base)
    BY <2>1 DEF Solves
  <2> QED BY <1>1, <1>5, <2>2
<1>6. CASE n # 0
  <2>1. n \in Nat /\ n - 1 \in Nat /\ n - 1 \notin Unsolved
    <3> HIDE DEF Unsolved
    <3>1. Unsolved \subseteq Nat
      BY DEF Unsolved
    <3> QED BY <1>1, <1>6, <3>1
  <2>2. PICK F : Solves(F, UpTo(n - 1, cuts), base)
    BY <2>1
  <2> DEFINE G == [s \in UpTo(n, cuts) |->
                    IF s = {} THEN base ELSE CutAll(Pick(s), F[s \ {Pick(s)}])]
  <2>3. ASSUME NEW s \in UpTo(n, cuts), s # {}
        PROVE  s \ {Pick(s)} \in UpTo(n - 1, cuts) /\ s \ {Pick(s)} \in UpTo(n, cuts)
    BY <1>2, <1>3, <2>1, <2>3 DEF UpTo
  <2>4. ASSUME NEW t \in UpTo(n - 1, cuts), t \in UpTo(n, cuts) PROVE G[t] = F[t]
    BY <2>2, <2>4 DEF Solves
  <2>5. \A s \in UpTo(n, cuts) : s # {} => G[s \ {Pick(s)}] = F[s \ {Pick(s)}]
    <3> HIDE DEF G
    <3> QED BY <2>3, <2>4
  <2>6. G = [s \in UpTo(n, cuts) |->
                IF s = {} THEN base ELSE CutAll(Pick(s), G[s \ {Pick(s)}])]
    <3> DEFINE H == G
    <3>1. \A s \in UpTo(n, cuts) : s # {} => H[s \ {Pick(s)}] = F[s \ {Pick(s)}]
      BY <2>5
    <3> HIDE DEF H
    <3>2. G = [s \in UpTo(n, cuts) |->
                IF s = {} THEN base ELSE CutAll(Pick(s), H[s \ {Pick(s)}])]
      BY <3>1
    <3> QED BY <3>2 DEF H
  <2>7. Solves(G, UpTo(n, cuts), base)
    <3> HIDE DEF G
    <3> QED BY <2>6 DEF Solves
  <2> QED BY <1>1, <2>7
<1> QED BY <1>5, <1>6

LEMMA CutsSolved ==
    ASSUME NEW cuts, IsFiniteSet(cuts), NEW base
    PROVE  \E F : /\ Solves(F, SUBSET cuts, base)
                  /\ subtractIntervals(base, cuts) = {s \in F[cuts] : s.end - s.start > 0}
<1>1. UpTo(Cardinality(cuts), cuts) = SUBSET cuts /\ Cardinality(cuts) \in Nat
  BY FS_Subset, FS_CardinalityType DEF UpTo
<1>2. \E F : Solves(F, SUBSET cuts, base)
  <2>1. \E F : Solves(F, UpTo(Cardinality(cuts), cuts), base)
    BY <1>1, SolvedUpTo
  <2> QED BY <1>1, <2>1
<1>3. FoldSet(CutAll, base, cuts) = (CHOOSE F : Solves(F, SUBSET cuts, base))[cuts]
  BY Zenon DEF FoldSet, MapThenFoldSet, Solves, Pick
<1>4. subtractIntervals(base, cuts) =
        {s \in FoldSet(CutAll, base, cuts) : s.end - s.start > 0}
  BY DEF subtractIntervals, FoldSet, MapThenFoldSet, CutAll
<1> QED BY <1>2, <1>3, <1>4
-----------------------------------------------------------------------------
(* The segments are the runs of free minutes *)

Minutes(x) == x.start .. x.end - 1

\* The minutes of a row that no cut takes.
Free(row, cuts) == {m \in Minutes(row) : \A c \in cuts : m \notin Minutes(c)}

\* An unbroken run of them that cannot be made longer.
RunOf(seg, row, cuts) ==
    /\ seg.start < seg.end
    /\ Minutes(seg) \subseteq Free(row, cuts)
    /\ seg.start - 1 \notin Free(row, cuts)
    /\ seg.end \notin Free(row, cuts)

\* The segments left are runs, but for rows that end before they start, and
\* no free minute is lost.
Cut(segs, base, cuts) ==
    /\ segs \subseteq Time
    /\ \A seg \in segs : seg.start < seg.end => \E row \in base : RunOf(seg, row, cuts)
    /\ \A row \in base : \A m \in Free(row, cuts) :
          \E seg \in segs : m \in Minutes(seg) /\ RunOf(seg, row, cuts)

LEMMA IntervalFacts ==
    \A a, b \in Int : /\ Interval(a, b) \in Time
                      /\ Interval(a, b).start = a /\ Interval(a, b).end = b
BY DEF Interval, Time

LEMMA PieceOfRun ==
    ASSUME NEW seg \in Time, NEW cut \in Time, cut.start < cut.end,
           NEW row \in Time, NEW cuts, NEW piece \in Pieces(seg, cut),
           RunOf(seg, row, cuts)
    PROVE  RunOf(piece, row, cuts \cup {cut})
<1>1. /\ seg.start \in Int /\ seg.end \in Int /\ seg.start < seg.end
      /\ cut.start \in Int /\ cut.end \in Int
      /\ row.start \in Int /\ row.end \in Int
  BY DEF Time, RunOf
<1>2. \A m : m \in Free(row, cuts \cup {cut}) <=> m \in Free(row, cuts) /\ m \notin Minutes(cut)
  BY DEF Free
<1>3. \A m \in Minutes(seg) : m \in Int /\ m \in Free(row, cuts)
  BY <1>1 DEF RunOf, Minutes
<1>4. CASE Untouched(seg, cut)
  <2>1. piece = seg
    BY <1>4 DEF Pieces
  <2>2. \A m \in Minutes(seg) : m \notin Minutes(cut)
    BY <1>1, <1>4 DEF Untouched, Minutes
  <2> QED BY <1>2, <2>1, <2>2 DEF RunOf
<1>5. CASE ~Untouched(seg, cut) /\ cut.start > seg.start /\ piece = Interval(seg.start, cut.start)
  <2>1. piece.start = seg.start /\ piece.end = cut.start
    BY <1>1, <1>5, IntervalFacts
  <2>2. cut.start < seg.end
    BY <1>1, <1>5 DEF Untouched
  <2>3. Minutes(piece) \subseteq Minutes(seg) /\ cut.start \in Minutes(cut)
        /\ \A m \in Minutes(piece) : m \notin Minutes(cut)
    BY <1>1, <2>1, <2>2 DEF Minutes
  <2> QED BY <1>1, <1>2, <1>3, <1>5, <2>1, <2>3 DEF RunOf
<1>6. CASE ~Untouched(seg, cut) /\ cut.end < seg.end /\ piece = Interval(cut.end, seg.end)
  <2>1. piece.start = cut.end /\ piece.end = seg.end
    BY <1>1, <1>6, IntervalFacts
  <2>2. cut.end > seg.start
    BY <1>1, <1>6 DEF Untouched
  <2>3. Minutes(piece) \subseteq Minutes(seg) /\ cut.end - 1 \in Minutes(cut)
        /\ \A m \in Minutes(piece) : m \notin Minutes(cut)
    BY <1>1, <2>1, <2>2 DEF Minutes
  <2> QED BY <1>1, <1>2, <1>3, <1>6, <2>1, <2>3 DEF RunOf
<1> QED BY <1>4, <1>5, <1>6 DEF Pieces

\* A reversed row is left as it is or disappears; pieces have times.
LEMMA PieceOfAny ==
    ASSUME NEW seg \in Time, NEW cut \in Time, cut.start < cut.end,
           NEW piece \in Pieces(seg, cut)
    PROVE  piece \in Time /\ (piece.start < piece.end => seg.start < seg.end)
BY IntervalFacts DEF Pieces, Untouched, Time

LEMMA MinuteIsKept ==
    ASSUME NEW seg \in Time, NEW cut \in Time, NEW m \in Minutes(seg), m \notin Minutes(cut)
    PROVE  \E piece \in Pieces(seg, cut) : m \in Minutes(piece)
<1>1. /\ seg.start \in Int /\ seg.end \in Int /\ cut.start \in Int /\ cut.end \in Int
      /\ m \in Int
  BY DEF Time, Minutes
<1>2. CASE Untouched(seg, cut)
  BY <1>2 DEF Pieces
<1>3. CASE ~Untouched(seg, cut) /\ m < cut.start
  <2>1. Interval(seg.start, cut.start) \in Pieces(seg, cut)
    BY <1>1, <1>3 DEF Pieces, Minutes
  <2> QED BY <1>1, <1>3, <2>1, IntervalFacts DEF Minutes
<1>4. CASE ~Untouched(seg, cut) /\ m >= cut.end
  <2>1. Interval(cut.end, seg.end) \in Pieces(seg, cut)
    BY <1>1, <1>4 DEF Pieces, Minutes
  <2> QED BY <1>1, <1>4, <2>1, IntervalFacts DEF Minutes
<1> QED BY <1>1, <1>2, <1>3, <1>4 DEF Minutes

LEMMA CutOnce ==
    ASSUME NEW base \in SUBSET Time, NEW cuts, NEW segs, Cut(segs, base, cuts),
           NEW cut \in Time, cut.start < cut.end
    PROVE  Cut(CutAll(cut, segs), base, cuts \cup {cut})
<1>1. segs \subseteq Time
  BY DEF Cut
<1>2. CutAll(cut, segs) \subseteq Time
  BY <1>1, PieceOfAny DEF CutAll
<1>3. ASSUME NEW piece \in CutAll(cut, segs), piece.start < piece.end
      PROVE  \E row \in base : RunOf(piece, row, cuts \cup {cut})
  <2>1. PICK seg \in segs : piece \in Pieces(seg, cut)
    BY DEF CutAll
  <2>2. seg.start < seg.end
    BY <1>1, <1>3, <2>1, PieceOfAny
  <2>3. PICK row \in base : RunOf(seg, row, cuts)
    BY <2>2 DEF Cut
  <2> QED BY <1>1, <2>1, <2>3, PieceOfRun
<1>4. ASSUME NEW row \in base, NEW m \in Free(row, cuts \cup {cut})
      PROVE  \E piece \in CutAll(cut, segs) :
                m \in Minutes(piece) /\ RunOf(piece, row, cuts \cup {cut})
  <2>1. m \in Free(row, cuts) /\ m \notin Minutes(cut)
    BY DEF Free
  <2>2. PICK seg \in segs : m \in Minutes(seg) /\ RunOf(seg, row, cuts)
    BY <2>1 DEF Cut
  <2>3. PICK piece \in Pieces(seg, cut) : m \in Minutes(piece)
    BY <1>1, <2>1, <2>2, MinuteIsKept
  <2>4. piece \in CutAll(cut, segs)
    BY DEF CutAll
  <2> QED BY <1>1, <2>2, <2>3, <2>4, PieceOfRun
<1> QED BY <1>2, <1>3, <1>4 DEF Cut

LEMMA NothingCut ==
    ASSUME NEW base \in SUBSET Time PROVE Cut(base, base, {})
BY DEF Cut, RunOf, Free, Minutes, Time

\* By the smallest set of cuts that would leave something else.
LEMMA SegmentsAreRuns ==
    ASSUME NEW base \in SUBSET Time, NEW cuts \in SUBSET Time, IsFiniteSet(cuts),
           \A c \in cuts : c.start < c.end
    PROVE  LET segs == subtractIntervals(base, cuts)
           IN  /\ segs \subseteq Time
               /\ \A seg \in segs : \E row \in base : RunOf(seg, row, cuts)
               /\ \A row \in base : \A m \in Free(row, cuts) :
                    \E seg \in segs : m \in Minutes(seg) /\ RunOf(seg, row, cuts)
<1>1. PICK F : /\ Solves(F, SUBSET cuts, base)
               /\ subtractIntervals(base, cuts) = {s \in F[cuts] : s.end - s.start > 0}
  BY CutsSolved
<1>2. F[{}] = base
  BY <1>1 DEF Solves
<1>3. ASSUME NEW s \in SUBSET cuts, s # {}
      PROVE  F[s] = CutAll(Pick(s), F[s \ {Pick(s)}]) /\ Pick(s) \in s
  BY <1>1, <1>3 DEF Solves, Pick
<1> DEFINE Wrong == {s \in SUBSET cuts : ~Cut(F[s], base, s)}
<1>4. Wrong = {}
  <2> SUFFICES ASSUME Wrong # {} PROVE FALSE
    OBVIOUS
  <2>1. IsWellFoundedOn(StrictSubsetOrdering(cuts), SUBSET cuts)
    BY FS_StrictSubsetOrderingWellFounded, FS_FiniteSubsetsOfFinite
  <2>2. PICK s \in Wrong : \A t \in Wrong : <<t, s>> \notin StrictSubsetOrdering(cuts)
    <3>1. Wrong \subseteq SUBSET cuts
      OBVIOUS
    <3> HIDE DEF Wrong
    <3> QED BY <2>1, <3>1, WFMin
  <2>3. s # {}
    BY <1>2, NothingCut
  <2> DEFINE t == s \ {Pick(s)}
  <2>4. Pick(s) \in s /\ t \in SUBSET cuts /\ s = t \cup {Pick(s)}
    BY <1>3, <2>3
  <2>5. <<t, s>> \in StrictSubsetOrdering(cuts)
    BY <2>4 DEF StrictSubsetOrdering
  <2>6. Cut(F[t], base, t)
    BY <2>2, <2>4, <2>5
  <2>7. Cut(CutAll(Pick(s), F[t]), base, t \cup {Pick(s)})
    <3> HIDE DEF t
    <3>1. Pick(s) \in Time /\ Pick(s).start < Pick(s).end
      BY <2>4
    <3> QED BY <2>6, <3>1, CutOnce
  <2> QED BY <1>3, <2>2, <2>3, <2>4, <2>7
<1>5. Cut(F[cuts], base, cuts)
  BY <1>4
<1> QED BY <1>1, <1>5 DEF Cut, RunOf, Time
-----------------------------------------------------------------------------
(* The slots *)

LEMMA RunInRow ==
    ASSUME NEW seg \in Time, NEW row \in Time, NEW cuts, RunOf(seg, row, cuts)
    PROVE  row.start <= seg.start /\ seg.end <= row.end
<1>1. seg.start \in Minutes(seg) /\ seg.end - 1 \in Minutes(seg)
  BY DEF Minutes, Time, RunOf
<1>2. seg.start \in Minutes(row) /\ seg.end - 1 \in Minutes(row)
  BY <1>1 DEF RunOf, Free
<1> QED BY <1>2 DEF Minutes, Time

LEMMA OfferedIsFree ==
    ASSUME NEW base \in SUBSET Time, NEW cuts \in SUBSET Time, IsFiniteSet(cuts),
           \A c \in cuts : c.start < c.end,
           NEW d \in Nat \ {0}, NEW slot \in availableTimes(base, cuts, d)
    PROVE  /\ slot \in Time /\ slot.end = slot.start + d
           /\ \E row \in base, seg \in Time :
                /\ RunOf(seg, row, cuts)
                /\ row.start <= seg.start /\ seg.start <= slot.start
                /\ slot.end <= seg.end /\ seg.end <= row.end
                /\ (slot.start - seg.start) % d = 0
<1>1. PICK seg \in subtractIntervals(base, cuts) : slot \in Slots(seg, d)
  BY DEF availableTimes
<1>2. PICK row \in base : RunOf(seg, row, cuts)
  BY SegmentsAreRuns
<1>3. seg \in Time
  BY SegmentsAreRuns
<1>4. PICK t \in seg.start .. seg.end - d : (t - seg.start) % d = 0 /\ slot = Interval(t, t + d)
  BY <1>1 DEF Slots
<1>5. t \in Int /\ seg.start \in Int /\ seg.end \in Int /\ d \in Int
  BY <1>3 DEF Time
<1>6. slot \in Time /\ slot.start = t /\ slot.end = t + d
  BY <1>4, <1>5, IntervalFacts
<1>7. row.start <= seg.start /\ seg.end <= row.end
  BY <1>2, <1>3, RunInRow
<1>8. seg.start <= slot.start /\ slot.end <= seg.end
  BY <1>4, <1>5, <1>6
<1>9. (slot.start - seg.start) % d = 0
  BY <1>4, <1>6
<1> QED BY <1>2, <1>3, <1>6, <1>7, <1>8, <1>9

\* The start of the run is the only one RunStart can choose.
LEMMA RunStartIs ==
    ASSUME NEW seg \in Time, NEW row \in Time, NEW cuts, RunOf(seg, row, cuts),
           NEW m \in Minutes(seg)
    PROVE  RunStart(Free(row, cuts), m) = seg.start
<1> DEFINE free == Free(row, cuts)
<1>1. /\ seg.start \in Int /\ seg.end \in Int /\ m \in Int /\ seg.start <= m /\ m < seg.end
      /\ free \subseteq Int
  BY DEF Time, Minutes, Free
<1>2. seg.start \in free /\ seg.start .. m \subseteq free /\ seg.start - 1 \notin free
  BY <1>1 DEF RunOf, Minutes
<1>3. ASSUME NEW a \in free, a <= m, a .. m \subseteq free, a - 1 \notin free
      PROVE  a = seg.start
  <2>1. a \in Int
    BY <1>1
  <2>2. ~(a < seg.start)
    <3> SUFFICES ASSUME a < seg.start PROVE FALSE
      OBVIOUS
    <3>1. seg.start - 1 \in a .. m
      BY <1>1, <2>1
    <3> QED BY <1>2, <1>3, <3>1
  <2>3. ~(a > seg.start)
    <3> SUFFICES ASSUME a > seg.start PROVE FALSE
      OBVIOUS
    <3>1. a - 1 \in seg.start .. m
      BY <1>1, <1>3, <2>1
    <3> QED BY <1>2, <1>3, <3>1
  <2> QED BY <1>1, <2>1, <2>2, <2>3
<1> QED BY <1>2, <1>3 DEF RunStart

LEMMA FreeIsOffered ==
    ASSUME NEW base \in SUBSET Time, NEW cuts \in SUBSET Time, IsFiniteSet(cuts),
           \A c \in cuts : c.start < c.end,
           NEW d \in Nat \ {0}, NEW row \in base, NEW m \in Free(row, cuts),
           m .. m + d - 1 \subseteq Free(row, cuts),
           (m - RunStart(Free(row, cuts), m)) % d = 0
    PROVE  Interval(m, m + d) \in availableTimes(base, cuts, d)
<1>1. PICK seg \in subtractIntervals(base, cuts) : m \in Minutes(seg) /\ RunOf(seg, row, cuts)
  BY SegmentsAreRuns
<1>2. seg \in Time
  BY SegmentsAreRuns
<1>3. seg.start \in Int /\ seg.end \in Int /\ m \in Int /\ seg.start <= m /\ m < seg.end
  BY <1>1, <1>2 DEF Time, Minutes
<1>4. m + d <= seg.end
  <2> SUFFICES ASSUME seg.end < m + d PROVE FALSE
    BY <1>3
  <2>1. seg.end \in m .. m + d - 1
    BY <1>3
  <2> QED BY <1>1, <2>1 DEF RunOf
<1>5. (m - seg.start) % d = 0
  BY <1>1, <1>2, RunStartIs
<1>6. Interval(m, m + d) \in Slots(seg, d)
  <2>1. m \in seg.start .. seg.end - d
    BY <1>3, <1>4
  <2> QED BY <1>5, <2>1 DEF Slots
<1> QED BY <1>6 DEF availableTimes

\* Two times that do not overlap share no minute, and the other way round.
LEMMA OverlapIsShared ==
    ASSUME NEW x, NEW y, {x.start, x.end, y.start, y.end} \subseteq Int,
           x.start < x.end, y.start < y.end
    PROVE  Overlap(x, y) <=> \E m \in Int : m \in Minutes(x) /\ m \in Minutes(y)
<1>1. CASE Overlap(x, y) /\ x.start <= y.start
  <2>1. y.start \in Minutes(x) /\ y.start \in Minutes(y) /\ y.start \in Int
    BY <1>1 DEF Overlap, Minutes
  <2> QED BY <1>1, <2>1
<1>2. CASE Overlap(x, y) /\ y.start <= x.start
  <2>1. x.start \in Minutes(x) /\ x.start \in Minutes(y) /\ x.start \in Int
    BY <1>2 DEF Overlap, Minutes
  <2> QED BY <1>2, <2>1
<1>3. ASSUME NEW m \in Int, m \in Minutes(x), m \in Minutes(y) PROVE Overlap(x, y)
  BY <1>3 DEF Overlap, Minutes
<1> QED BY <1>1, <1>2, <1>3

-----------------------------------------------------------------------------
(* Types, and a little more *)

Busy == [pc : {"picked", "insert"}, session : SessionIds, slot : [start : Nat, end : Nat]]

CalendarInv ==
    /\ TypeOK
    /\ session = [s \in DOMAIN session |-> session[s]] /\ IsFiniteSet(DOMAIN session)
    /\ client \in [Clients -> {Idle} \cup Busy]
    /\ IsFiniteSet(booked)
    /\ \A b \in booked : b.start < b.end

USE DurationAssumption, RowAssumption

LEMMA TimesOfDay ==
    ASSUME CalendarInv
    PROVE  /\ baseRanges \in SUBSET Time
           /\ \A row \in baseRanges : row.start \in Nat
           /\ cutRanges \in SUBSET Time /\ IsFiniteSet(cutRanges)
           /\ \A c \in cutRanges : c.start < c.end
           /\ \A s \in DOMAIN session : session[s] \in Int
<1>1. \A i \in DOMAIN schedule : schedule[i] \in RowBodies
  BY DEF CalendarInv, TypeOK, IsPartial, Range
<1>2. baseRanges \in SUBSET Time /\ \A row \in baseRanges : row.start \in Nat
  BY <1>1 DEF baseRanges, TimeOf, Interval, Time
<1>3. cutRanges \in SUBSET Time /\ \A c \in cutRanges : c.start < c.end
  BY DEF cutRanges, TimeOf, Interval, Time, CalendarInv, TypeOK, Bookable
<1>4. IsFiniteSet(cutRanges)
  <2> DEFINE f == [b \in booked |-> TimeOf(b)]
  <2>1. f \in Surjection(booked, cutRanges)
    BY DEF Surjection, cutRanges
  <2> HIDE DEF f
  <2> QED BY <2>1, FS_Surjection DEF CalendarInv
<1>5. \A s \in DOMAIN session : session[s] \in Int
  BY DEF CalendarInv, TypeOK, IsPartial, Range
<1> QED BY <1>2, <1>3, <1>4, <1>5

LEMMA CalendarInit == Init => CalendarInv
<1> SUFFICES ASSUME Init PROVE CalendarInv
  OBVIOUS
<1>1. DOMAIN schedule = {} /\ Range(schedule) = {} /\ DOMAIN session = {} /\ Range(session) = {}
  BY DEF Init, Range
<1>2. session = [s \in DOMAIN session |-> session[s]]
  BY DEF Init
<1>3. TypeOK
  BY <1>1 DEF Init, TypeOK, IsPartial
<1> QED BY <1>1, <1>2, <1>3, FS_EmptySet DEF Init, CalendarInv

\* The tables after an edit; the clients do not notice.
LEMMA EditKeeps ==
    ASSUME CalendarInv, MentorKeeps, grid' \in BOOLEAN,
           IsPartial(schedule', ScheduleIds, RowBodies),
           IsPartial(session', SessionIds, Durations \cup NewDurations),
           session' = [s \in DOMAIN session' |-> session'[s]],
           IsFiniteSet(DOMAIN session'),
           booked' \subseteq booked, \A b \in booked' : b.session \in DOMAIN session'
    PROVE  CalendarInv'
<1>1. IsFiniteSet(booked')
  BY FS_Subset DEF CalendarInv
<1> QED BY <1>1 DEF CalendarInv, TypeOK, MentorKeeps

LEMMA PartialFacts ==
    /\ \A D, R : \A f \in Partial(D, R) : IsPartial(f, D, R)
    /\ \A f, D, R, ids : IsPartial(f, D, R) => IsPartial(Drop(f, ids), D, R)
    /\ \A f, D, R, id, v : IsPartial(f, D, R) /\ id \in D /\ v \in R
            => IsPartial(With(f, id, v), D, R)
<1>1. ASSUME NEW D, NEW R, NEW f \in Partial(D, R) PROVE IsPartial(f, D, R)
  BY DEF Partial, IsPartial, Range
<1>2. ASSUME NEW f, NEW D, NEW R, NEW ids, IsPartial(f, D, R)
      PROVE  IsPartial(Drop(f, ids), D, R)
  BY <1>2 DEF IsPartial, Range, Drop, Restrict
<1>3. ASSUME NEW f, NEW D, NEW R, NEW id \in D, NEW v \in R, IsPartial(f, D, R)
      PROVE  IsPartial(With(f, id, v), D, R)
  BY <1>3 DEF IsPartial, Range, With
<1> QED BY <1>1, <1>2, <1>3

LEMMA MentorKeepsTypes == ASSUME CalendarInv, MentorEdits PROVE CalendarInv'
<1>1. /\ IsPartial(schedule, ScheduleIds, RowBodies)
      /\ IsPartial(session, SessionIds, Durations \cup NewDurations)
      /\ session = [s \in DOMAIN session |-> session[s]] /\ IsFiniteSet(DOMAIN session)
      /\ \A b \in booked : b.session \in DOMAIN session
  BY DEF CalendarInv, TypeOK
<1>2. MentorKeeps /\ grid' \in BOOLEAN
  BY DEF MentorEdits, Track
<1>3. ASSUME IsPartial(schedule', ScheduleIds, RowBodies), UNCHANGED <<session, booked>>
      PROVE  CalendarInv'
  BY <1>1, <1>2, <1>3, EditKeeps
<1>4. CASE CreateSchedule
  <2>1. PICK i \in ScheduleIds \ DOMAIN schedule, row \in RowBodies :
          schedule' = With(schedule, i, row)
    BY <1>4 DEF CreateSchedule
  <2> QED BY <1>1, <1>3, <1>4, <2>1, PartialFacts DEF CreateSchedule
<1>5. CASE UpdateSchedule
  BY <1>3, <1>5, PartialFacts DEF UpdateSchedule
<1>6. CASE DeleteSchedule
  BY <1>1, <1>3, <1>6, PartialFacts DEF DeleteSchedule
<1>7. CASE CreateSession
  <2>1. PICK s \in SessionIds \ DOMAIN session, d \in Durations :
          session' = With(session, s, d) /\ UNCHANGED <<schedule, booked>>
    BY <1>7 DEF CreateSession
  <2>2. IsPartial(session', SessionIds, Durations \cup NewDurations)
    BY <1>1, <2>1, PartialFacts
  <2>3. DOMAIN session' = DOMAIN session \cup {s} /\ session' = [t \in DOMAIN session' |-> session'[t]]
    BY <2>1 DEF With
  <2>4. IsFiniteSet(DOMAIN session')
    BY <1>1, <2>3, FS_AddElement
  <2> QED BY <1>1, <1>2, <2>1, <2>2, <2>3, <2>4, EditKeeps
<1>8. CASE UpdateSession
  <2>1. PICK s \in DOMAIN session, d \in NewDurations :
          session' = [session EXCEPT ![s] = d] /\ UNCHANGED <<schedule, booked>>
    BY <1>8 DEF UpdateSession
  <2>2. DOMAIN session' = DOMAIN session /\ session' = [t \in DOMAIN session' |-> session'[t]]
    BY <2>1
  <2>3. \A t \in DOMAIN session : session'[t] \in {session[t], d}
    BY <2>1
  <2>4. IsPartial(session', SessionIds, Durations \cup NewDurations)
    BY <1>1, <2>2, <2>3 DEF IsPartial, Range
  <2> QED BY <1>1, <1>2, <2>1, <2>2, <2>4, EditKeeps
<1>9. CASE DeleteSession
  <2>1. PICK s \in DOMAIN session :
          /\ session' = Drop(session, {s}) /\ booked' = {b \in booked : b.session # s}
          /\ UNCHANGED schedule
    BY <1>9 DEF DeleteSession
  <2>2. IsPartial(session', SessionIds, Durations \cup NewDurations)
    BY <1>1, <2>1, PartialFacts
  <2>3. DOMAIN session' = DOMAIN session \ {s} /\ session' = [t \in DOMAIN session' |-> session'[t]]
    BY <2>1 DEF Drop, Restrict
  <2>4. IsFiniteSet(DOMAIN session')
    BY <1>1, <2>3, FS_RemoveElement
  <2> QED BY <1>1, <1>2, <2>1, <2>2, <2>3, <2>4, EditKeeps
<1> QED BY <1>4, <1>5, <1>6, <1>7, <1>8, <1>9 DEF MentorEdits

\* What Ask puts before a mentee.
LEMMA OfferFits ==
    ASSUME CalendarInv, NEW s \in DOMAIN session, session[s] > 0, NEW slot \in Offers(s)
    PROVE  /\ slot \in [start : Nat, end : Nat] /\ slot.end = slot.start + session[s]
           /\ \E row \in baseRanges, seg \in Time :
                /\ RunOf(seg, row, cutRanges)
                /\ row.start <= seg.start /\ seg.start <= slot.start
                /\ slot.end <= seg.end /\ seg.end <= row.end
                /\ (slot.start - seg.start) % session[s] = 0
<1>1. session[s] \in Nat \ {0}
  BY TimesOfDay
<1>2. /\ slot \in Time /\ slot.end = slot.start + session[s]
      /\ \E row \in baseRanges, seg \in Time :
                /\ RunOf(seg, row, cutRanges)
                /\ row.start <= seg.start /\ seg.start <= slot.start
                /\ slot.end <= seg.end /\ seg.end <= row.end
                /\ (slot.start - seg.start) % session[s] = 0
  BY <1>1, TimesOfDay, OfferedIsFree DEF Offers
<1>3. slot \in [start : Nat, end : Nat]
  BY <1>1, <1>2, TimesOfDay DEF Time
<1> QED BY <1>2, <1>3

LEMMA ClientKeepsTypes ==
    ASSUME CalendarInv, ClientKeeps, NEW c \in Clients, NEW r \in {Idle} \cup Busy,
           r # Idle => r.slot.start < r.slot.end, client' = [client EXCEPT ![c] = r],
           booked' \in SUBSET Bookable, IsFiniteSet(booked'),
           \A b \in booked' : b.start < b.end /\ b.session \in DOMAIN session
    PROVE  CalendarInv'
<1>1. client' \in [Clients -> {Idle} \cup Busy]
  BY DEF CalendarInv
<1>2. \A d \in Clients : client'[d] = Idle \/ client'[d].slot.start < client'[d].slot.end
  BY DEF CalendarInv, TypeOK
<1>3. \A d \in Clients : client'[d] # Idle =>
        /\ client'[d].pc \in {"picked", "insert"} /\ client'[d].session \in SessionIds
  BY <1>1 DEF Busy
<1> QED BY <1>1, <1>2, <1>3 DEF CalendarInv, TypeOK, ClientKeeps

LEMMA IdleIsIdle == Idle \notin Busy /\ Idle.pc = "idle"
BY DEF Idle, Busy

LEMMA CalendarStep == CalendarInv /\ [Next]_vars => CalendarInv'
<1> SUFFICES ASSUME CalendarInv, [Next]_vars PROVE CalendarInv'
  OBVIOUS
<1>0. /\ booked \in SUBSET Bookable /\ IsFiniteSet(booked)
      /\ \A b \in booked : b.start < b.end /\ b.session \in DOMAIN session
      /\ DOMAIN session \subseteq SessionIds
      /\ \A c \in Clients : client[c] \in {Idle} \cup Busy
      /\ \A c \in Clients : client[c] # Idle => client[c].slot.start < client[c].slot.end
  BY DEF CalendarInv, TypeOK, IsPartial
<1>1. ASSUME NEW c \in Clients, NEW s \in SessionIds, Ask(c, s) PROVE CalendarInv'
  <2>1. /\ s \in DOMAIN session /\ session[s] > 0 /\ UNCHANGED booked /\ ClientKeeps
    BY <1>1 DEF Ask
  <2>2. PICK slot \in Offers(s) :
          client' = [client EXCEPT ![c] = [pc |-> "picked", session |-> s, slot |-> slot]]
    BY <1>1 DEF Ask
  <2>3. slot \in [start : Nat, end : Nat] /\ slot.start < slot.end
    BY <2>1, <2>2, OfferFits, TimesOfDay
  <2> DEFINE r == [pc |-> "picked", session |-> s, slot |-> slot]
  <2>4. r \in {Idle} \cup Busy /\ r.slot = slot
    BY <2>3 DEF Busy
  <2> HIDE DEF r
  <2> QED BY <1>0, <2>1, <2>2, <2>3, <2>4, ClientKeepsTypes DEF r
<1>2. ASSUME NEW c \in Clients, NEW s \in SessionIds, AskForever(c, s) PROVE CalendarInv'
  BY <1>2 DEF AskForever, CalendarInv, TypeOK
<1>3. ASSUME NEW c \in Clients, ReserveCheck(c) PROVE CalendarInv'
  <2> DEFINE r == IF client[c].session \in DOMAIN session /\ ~isReserved(c)
                  THEN [client[c] EXCEPT !.pc = "insert"] ELSE Idle
  <2>1. /\ client[c].pc = "picked" /\ UNCHANGED booked /\ ClientKeeps
        /\ client' = [client EXCEPT ![c] = r]
    BY <1>3 DEF ReserveCheck, CalendarInv
  <2>2. client[c] \in Busy
    BY <1>0, <2>1, IdleIsIdle
  <2>3. r \in {Idle} \cup Busy /\ (r # Idle => r.slot = client[c].slot)
    BY <2>2 DEF Busy
  <2> HIDE DEF r
  <2> QED BY <1>0, <2>1, <2>2, <2>3, IdleIsIdle, ClientKeepsTypes
<1>4. ASSUME NEW c \in Clients, ReserveInsert(c) PROVE CalendarInv'
  <2>1. /\ client[c].pc = "insert" /\ ClientKeeps
        /\ client' = [client EXCEPT ![c] = Idle]
        /\ booked' = IF client[c].session \in DOMAIN session
                     THEN booked \cup {Place(c)} ELSE booked
    BY <1>4 DEF ReserveInsert
  <2>2. client[c] \in Busy /\ client[c].slot.start < client[c].slot.end
    BY <1>0, <2>1, IdleIsIdle
  <2>3. Place(c) \in Bookable /\ Place(c).start < Place(c).end
        /\ Place(c).session = client[c].session
    BY <2>2 DEF Place, Bookable, Busy
  <2>4. IsFiniteSet(booked')
    BY <1>0, <2>1, FS_AddElement
  <2> QED BY <1>0, <2>1, <2>3, <2>4, ClientKeepsTypes
<1>5. CASE UNCHANGED vars
  BY <1>5 DEF vars, CalendarInv, TypeOK
<1> QED BY <1>1, <1>2, <1>3, <1>4, <1>5, MentorKeepsTypes DEF Next

LEMMA CalendarAlways == Spec => []CalendarInv
BY CalendarInit, CalendarStep, PTL DEF Spec

(* The rows, sessions, reservations and pages are always values the tables *)
(* and the handlers allow, and no reservation outlives its session         *)
(* (schedule.entity.ts, mentoring-session.entity.ts, reservation.entity.ts).*)
THEOREM CalendarTypeCorrect == Spec => []TypeOK
<1>1. CalendarInv => TypeOK
  BY DEF CalendarInv
<1> QED BY <1>1, CalendarAlways, PTL

-----------------------------------------------------------------------------
(* What is shown is free, and what is free is shown *)

LEMMA ShownIsFree == CalendarInv => SlotsAreFree
<1> SUFFICES ASSUME CalendarInv, NEW s \in DOMAIN session, session[s] > 0,
                    NEW slot \in Offers(s)
             PROVE  /\ slot.end - slot.start = session[s]
                    /\ \E row \in baseRanges : row.start <= slot.start /\ slot.end <= row.end
                    /\ \A b \in booked : ~Overlap(slot, b)
  BY DEF SlotsAreFree
<1>1. PICK row \in baseRanges, seg \in Time :
        /\ RunOf(seg, row, cutRanges)
        /\ row.start <= seg.start /\ seg.start <= slot.start
        /\ slot.end <= seg.end /\ seg.end <= row.end
  BY OfferFits
<1>2. /\ slot.start \in Nat /\ slot.end \in Nat /\ slot.end = slot.start + session[s]
      /\ session[s] \in Int /\ row.start \in Int /\ row.end \in Int
      /\ seg.start \in Int /\ seg.end \in Int
  BY OfferFits, TimesOfDay DEF Time
<1>3. ASSUME NEW b \in booked PROVE ~Overlap(slot, b)
  <2>1. TimeOf(b) \in cutRanges /\ TimeOf(b).start = b.start /\ TimeOf(b).end = b.end
        /\ b.start \in Int /\ b.end \in Int /\ b.start < b.end
    BY DEF cutRanges, TimeOf, Interval, CalendarInv, TypeOK, Bookable
  <2>2. ASSUME NEW m \in Int, m \in Minutes(slot) PROVE m \notin Minutes(b)
    <3>1. m \in Minutes(seg)
      BY <1>1, <1>2, <2>2 DEF Minutes
    <3>2. m \notin Minutes(TimeOf(b))
      BY <1>1, <2>1, <3>1 DEF RunOf, Free
    <3> QED BY <2>1, <3>2 DEF Minutes
  <2> QED BY <1>2, <2>1, <2>2, OverlapIsShared
<1> QED BY <1>1, <1>2, <1>3

\* The free minutes of the property are those of the runs.
LEMMA SameMinutes ==
    ASSUME CalendarInv, NEW row \in baseRanges
    PROVE  FreeMinutes(row) = Free(row, cutRanges)
<1>1. /\ \A b \in booked : TimeOf(b) \in cutRanges
      /\ \A c \in cutRanges : \E b \in booked : c = TimeOf(b)
      /\ \A b \in booked : /\ b.start \in Int /\ b.end \in Int
                          /\ TimeOf(b).start = b.start /\ TimeOf(b).end = b.end
  BY DEF cutRanges, TimeOf, Interval, CalendarInv, TypeOK, Bookable
<1>2. row.start \in Int /\ row.end \in Int
  BY TimesOfDay DEF Time
<1>3. \A m \in Int, b \in booked : m \notin Minutes(TimeOf(b)) <=> ~(b.start <= m /\ m < b.end)
  BY <1>1 DEF Minutes
<1> QED BY <1>1, <1>2, <1>3 DEF FreeMinutes, Free, Minutes

LEMMA FreeIsShown == CalendarInv => SlotsAreAll
<1> DEFINE Counted(row, d) ==
        {Interval(m, m + d) : m \in
            {x \in FreeMinutes(row) : /\ x .. x + d - 1 \subseteq FreeMinutes(row)
                                     /\ (x - RunStart(FreeMinutes(row), x)) % d = 0}}
<1> SUFFICES ASSUME CalendarInv, NEW s \in DOMAIN session, session[s] > 0
             PROVE  Offers(s) = UNION {Counted(row, session[s]) : row \in baseRanges}
  BY DEF SlotsAreAll
<1> DEFINE d == session[s]
<1>1. d \in Nat \ {0}
  BY TimesOfDay
<1>2. ASSUME NEW row \in baseRanges, NEW slot \in Counted(row, d) PROVE slot \in Offers(s)
  <2>1. PICK m \in FreeMinutes(row) :
          /\ slot = Interval(m, m + d) /\ m .. m + d - 1 \subseteq FreeMinutes(row)
          /\ (m - RunStart(FreeMinutes(row), m)) % d = 0
    OBVIOUS
  <2> HIDE DEF d, Counted
  <2> QED BY <1>1, <2>1, SameMinutes, TimesOfDay, FreeIsOffered DEF Offers, d
<1>3. ASSUME NEW slot \in Offers(s)
      PROVE  \E row \in baseRanges : slot \in Counted(row, d)
  <2>1. PICK row \in baseRanges, seg \in Time :
        /\ RunOf(seg, row, cutRanges)
        /\ seg.start <= slot.start /\ slot.end <= seg.end
        /\ (slot.start - seg.start) % d = 0
    BY OfferFits
  <2> DEFINE m == slot.start
  <2>2. /\ m \in Int /\ slot = Interval(m, m + d) /\ row \in Time
        /\ seg.start \in Int /\ seg.end \in Int /\ d \in Int /\ d > 0
        /\ slot.end = m + d
    BY <1>1, OfferFits, TimesOfDay DEF Interval, Time
  <2>3. m \in Minutes(seg) /\ m .. m + d - 1 \subseteq Minutes(seg)
    BY <2>1, <2>2 DEF Minutes
  <2>4. RunStart(Free(row, cutRanges), m) = seg.start
    BY <2>1, <2>2, <2>3, RunStartIs
  <2>5. Minutes(seg) \subseteq FreeMinutes(row) /\ RunStart(FreeMinutes(row), m) = seg.start
    BY <2>1, <2>4, SameMinutes DEF RunOf
  <2> QED BY <2>1, <2>2, <2>3, <2>5
<1> QED BY <1>2, <1>3

(* What a mentee is shown is bookable, whatever rows, durations and        *)
(* reservations there are: a time of the session's length, inside one of   *)
(* the mentor's rows, that meets no reservation of the mentor              *)
(* (getAvailableTimes, reservation.service.ts 100-157).                    *)
THEOREM ShownSlotsAreFree == Spec => []SlotsAreFree
BY ShownIsFree, CalendarAlways, PTL

(* Nothing bookable is withheld: the slots shown are all those of the      *)
(* session's length that are free minute by minute and lie a whole number  *)
(* of sessions after the start of their run of free minutes                *)
(* (subtractIntervals 58-86 and the slot loop 137-147 of                   *)
(* reservation.service.ts).                                                *)
THEOREM FreeSlotsAreShown == Spec => []SlotsAreAll
BY FreeIsShown, CalendarAlways, PTL
-----------------------------------------------------------------------------
(* One grid: reserving from old pages makes no two reservations overlap *)

LEMMA Division ==
    ASSUME NEW a \in Int, NEW d \in Int, d > 0 PROVE a = d * (a \div d) + (a % d)
OBVIOUS

LEMMA WholeNumber ==
    ASSUME NEW a \in Int, NEW d \in Nat \ {0}, a % d = 0
    PROVE  \E k \in Int : a = k * d
<1>1. a = d * (a \div d) + (a % d)
  BY Division
<1>2. a \div d \in Int
  OBVIOUS
<1>3. a = (a \div d) * d
  BY <1>1, <1>2
<1> QED BY <1>2, <1>3

\* Two multiples less than one step apart are one.
LEMMA SameMultiple ==
    ASSUME NEW k \in Int, NEW j \in Int, NEW d \in Nat \ {0},
           k * d - j * d < d, j * d - k * d < d
    PROVE  k = j
<1>1. CASE k > j
  <2>1. (k - j) >= 1 /\ (k - j) * d >= d
    BY <1>1
  <2> QED BY <2>1
<1>2. CASE j > k
  <2>1. (j - k) >= 1 /\ (j - k) * d >= d
    BY <1>2
  <2> QED BY <2>1
<1> QED BY <1>1, <1>2

\* A whole number of durations after the start of a row of the day.
OnGrid(t, d) ==
    /\ d > 0 /\ t.end = t.start + d
    /\ \E row \in baseRanges, k \in Int :
          /\ t.start = row.start + k * d
          /\ row.start <= t.start /\ t.end <= row.end

ClientTimes == {client[c].slot : c \in Pages}

GridInv ==
    grid => /\ OneGrid(schedule, session)
            /\ \E d \in Int : /\ Range(session) \subseteq {d}
                             /\ \A t \in cutRanges \cup ClientTimes : OnGrid(t, d)

LEMMA RowsDisjoint ==
    ASSUME CalendarInv, OneGrid(schedule, session),
           NEW r1 \in baseRanges, NEW r2 \in baseRanges,
           NEW m \in Int, m \in Minutes(r1), m \in Minutes(r2)
    PROVE  r1 = r2
<1>1. PICK i \in DOMAIN schedule : schedule[i].day = Today /\ r1 = TimeOf(schedule[i])
  BY DEF baseRanges
<1>2. PICK j \in DOMAIN schedule : schedule[j].day = Today /\ r2 = TimeOf(schedule[j])
  BY DEF baseRanges
<1>3. /\ r1.start = schedule[i].start /\ r1.end = schedule[i].end
      /\ r2.start = schedule[j].start /\ r2.end = schedule[j].end
      /\ r1.start \in Int /\ r1.end \in Int /\ r2.start \in Int /\ r2.end \in Int
  BY <1>1, <1>2, TimesOfDay DEF TimeOf, Interval, Time
<1>4. Overlap(schedule[i], schedule[j])
  BY <1>3 DEF Minutes, Overlap
<1>5. i = j
  BY <1>1, <1>2, <1>4 DEF OneGrid
<1> QED BY <1>1, <1>2, <1>5

\* A run starts on the grid: where its row does, or where a reservation ends.
LEMMA RunOnGrid ==
    ASSUME CalendarInv, OneGrid(schedule, session), NEW d \in Nat \ {0},
           \A t \in cutRanges : OnGrid(t, d),
           NEW row \in baseRanges, NEW seg \in Time, RunOf(seg, row, cutRanges)
    PROVE  \E k \in Int : seg.start = row.start + k * d
<1>1. /\ seg.start \in Int /\ seg.end \in Int /\ row.start \in Int /\ row.end \in Int
      /\ row.start <= seg.start /\ seg.end <= row.end /\ seg.start < seg.end
  BY TimesOfDay, RunInRow DEF Time, RunOf
<1>2. CASE seg.start = row.start
  <2>1. seg.start = row.start + 0 * d
    BY <1>1, <1>2
  <2> QED BY <2>1
<1>3. CASE seg.start > row.start
  <2>1. seg.start - 1 \in Minutes(row) /\ seg.start \in Minutes(seg)
    BY <1>1, <1>3 DEF Minutes
  <2>2. PICK c \in cutRanges : seg.start - 1 \in Minutes(c) /\ seg.start \notin Minutes(c)
    BY <2>1 DEF RunOf, Free
  <2>3. c.start \in Int /\ c.end \in Int
    BY TimesOfDay DEF Time
  <2>4. c.end = seg.start /\ c.start < c.end
    BY <1>1, <2>2, <2>3 DEF Minutes
  <2>5. PICK r \in baseRanges, k \in Int :
          /\ c.end = c.start + d
          /\ c.start = r.start + k * d /\ r.start <= c.start /\ c.end <= r.end
    BY DEF OnGrid
  <2>6. r.start \in Int /\ r.end \in Int
    BY TimesOfDay DEF Time
  <2>7. seg.start - 1 \in Minutes(r) /\ seg.start - 1 \in Int
    BY <1>1, <2>3, <2>4, <2>5, <2>6 DEF Minutes
  <2>8. r = row
    BY <2>1, <2>7, RowsDisjoint
  <2>9. seg.start = row.start + (k + 1) * d
    BY <1>1, <2>3, <2>4, <2>5, <2>8
  <2> QED BY <2>9
<1> QED BY <1>1, <1>2, <1>3

LEMMA OfferOnGrid ==
    ASSUME CalendarInv, OneGrid(schedule, session), NEW s \in DOMAIN session,
           session[s] > 0, \A t \in cutRanges : OnGrid(t, session[s]),
           NEW slot \in Offers(s)
    PROVE  OnGrid(slot, session[s])
<1> DEFINE d == session[s]
<1>1. d \in Nat \ {0}
  BY TimesOfDay
<1>2. PICK row \in baseRanges, seg \in Time :
        /\ RunOf(seg, row, cutRanges)
        /\ row.start <= seg.start /\ seg.start <= slot.start
        /\ slot.end <= seg.end /\ seg.end <= row.end
        /\ (slot.start - seg.start) % d = 0
  BY OfferFits
<1>3. /\ slot.start \in Int /\ slot.end \in Int /\ slot.end = slot.start + d
      /\ seg.start \in Int /\ seg.end \in Int /\ row.start \in Int /\ row.end \in Int
  BY OfferFits, TimesOfDay DEF Time
<1> HIDE DEF d
<1>4. PICK k \in Int : slot.start - seg.start = k * d
  <2>1. slot.start - seg.start \in Int
    BY <1>3
  <2>2. (slot.start - seg.start) % d = 0
    BY <1>2
  <2> QED BY <1>1, <2>1, <2>2, WholeNumber
<1>5. PICK j \in Int : seg.start = row.start + j * d
  BY <1>1, <1>2, RunOnGrid DEF d
<1>6. slot.start = row.start + (k + j) * d
  BY <1>1, <1>3, <1>4, <1>5
<1>7. row.start <= slot.start /\ slot.end <= row.end /\ k + j \in Int
  BY <1>2, <1>3
<1> QED BY <1>1, <1>3, <1>6, <1>7 DEF OnGrid, d

LEMMA GridInit == Init => GridInv
<1> SUFFICES ASSUME Init PROVE GridInv
  OBVIOUS
<1>1. Range(session) = {} /\ DOMAIN schedule = {} /\ cutRanges = {} /\ ClientTimes = {}
  BY DEF Init, Range, cutRanges, ClientTimes, Pages
<1>2. Cardinality(Range(session)) = 0
  BY <1>1, FS_EmptySet
<1>3. OneGrid(schedule, session)
  BY <1>1, <1>2 DEF OneGrid
<1> QED BY <1>1, <1>3 DEF GridInv

\* Durations of which there is at most one.
LEMMA OneDuration ==
    ASSUME NEW f, f = [s \in DOMAIN f |-> f[s]], IsFiniteSet(DOMAIN f),
           Range(f) \subseteq Int, Cardinality(Range(f)) <= 1
    PROVE  \E d \in Int : Range(f) \subseteq {d}
<1>1. IsFiniteSet(Range(f))
  <2>1. f \in Surjection(DOMAIN f, Range(f))
    BY DEF Surjection, Range
  <2> QED BY <2>1, FS_Surjection
<1>2. Cardinality(Range(f)) \in Nat
  BY <1>1, FS_CardinalityType
<1>3. CASE Cardinality(Range(f)) = 0
  BY <1>1, <1>3, FS_EmptySet
<1>4. CASE Cardinality(Range(f)) = 1
  <2>1. PICK x : Range(f) = {x}
    BY <1>1, <1>4, FS_Singleton
  <2> QED BY <2>1
<1> QED BY <1>2, <1>3, <1>4

LEMMA MentorKeepsGrid ==
    ASSUME CalendarInv, CalendarInv', GridInv, MentorEdits PROVE GridInv'
<1> SUFFICES ASSUME grid' PROVE GridInv'
  BY DEF GridInv
<1>1. /\ grid /\ OneGrid(schedule', session') /\ MentorKeeps
      /\ booked # {} \/ Pages # {} =>
            schedule' = schedule /\ Range(session') \subseteq Range(session)
  BY DEF MentorEdits, Track
<1>2. booked' \subseteq booked /\ UNCHANGED client
  BY <1>1 DEF MentorKeeps, MentorEdits, CreateSchedule, UpdateSchedule, DeleteSchedule,
              CreateSession, UpdateSession, DeleteSession
<1>3. cutRanges' \subseteq cutRanges /\ ClientTimes' = ClientTimes
  BY <1>2 DEF cutRanges, ClientTimes, Pages
<1>4. CASE booked = {} /\ Pages = {}
  <2>1. cutRanges' = {} /\ ClientTimes' = {}
    BY <1>3, <1>4 DEF cutRanges, ClientTimes
  <2>2. /\ session' = [s \in DOMAIN session' |-> session'[s]] /\ IsFiniteSet(DOMAIN session')
        /\ Range(session') \subseteq Int /\ Cardinality(Range(session')) <= 1
    BY <1>1 DEF CalendarInv, TypeOK, IsPartial, OneGrid
  <2>3. \E d \in Int : Range(session') \subseteq {d}
    BY <2>2, OneDuration
  <2> QED BY <1>1, <2>1, <2>3 DEF GridInv
<1>5. CASE booked # {} \/ Pages # {}
  <2>1. baseRanges' = baseRanges /\ Range(session') \subseteq Range(session)
    BY <1>1, <1>5 DEF baseRanges
  <2>2. PICK d \in Int : /\ Range(session) \subseteq {d}
                         /\ \A t \in cutRanges \cup ClientTimes : OnGrid(t, d)
    BY <1>1 DEF GridInv
  <2>3. \A t \in (cutRanges \cup ClientTimes)' : OnGrid(t, d)'
    BY <1>3, <2>1, <2>2 DEF OnGrid
  <2> QED BY <1>1, <2>1, <2>2, <2>3 DEF GridInv
<1> QED BY <1>4, <1>5

\* The rows and the sessions stay; a time that appears is on their grid.
LEMMA ClientKeepsGrid ==
    ASSUME GridInv, UNCHANGED <<schedule, session, grid>>,
           \A t \in (cutRanges \cup ClientTimes)' :
             \/ t \in cutRanges \cup ClientTimes
             \/ \A d \in Int : /\ grid /\ Range(session) \subseteq {d}
                               /\ \A x \in cutRanges \cup ClientTimes : OnGrid(x, d)
                               => OnGrid(t, d)
    PROVE  GridInv'
<1> SUFFICES ASSUME grid' PROVE GridInv'
  BY DEF GridInv
<1>1. UNCHANGED <<schedule, session, grid, baseRanges>>
  BY DEF baseRanges
<1>2. PICK d \in Int : /\ Range(session) \subseteq {d}
                       /\ \A t \in cutRanges \cup ClientTimes : OnGrid(t, d)
  BY <1>1 DEF GridInv
<1>3. \A t \in (cutRanges \cup ClientTimes)' : OnGrid(t, d)
  BY <1>1, <1>2
<1>4. \A t \in (cutRanges \cup ClientTimes)' : OnGrid(t, d)'
  BY <1>1, <1>3 DEF OnGrid
<1> QED BY <1>1, <1>2, <1>4 DEF GridInv

LEMMA GridStep == CalendarInv /\ CalendarInv' /\ GridInv /\ [Next]_vars => GridInv'
<1> SUFFICES ASSUME CalendarInv, CalendarInv', GridInv, [Next]_vars PROVE GridInv'
  OBVIOUS
<1>0. \A c \in Clients : client[c] \in {Idle} \cup Busy
  BY DEF CalendarInv
<1>1. ASSUME NEW c \in Clients, NEW s \in SessionIds, Ask(c, s) PROVE GridInv'
  <2>1. s \in DOMAIN session /\ session[s] > 0 /\ UNCHANGED booked /\ ClientKeeps
    BY <1>1 DEF Ask
  <2>2. PICK slot \in Offers(s) :
          client' = [client EXCEPT ![c] = [pc |-> "picked", session |-> s, slot |-> slot]]
    BY <1>1 DEF Ask
  <2>3. cutRanges' = cutRanges /\ ClientTimes' \subseteq ClientTimes \cup {slot}
    BY <2>1, <2>2 DEF cutRanges, ClientTimes, Pages, CalendarInv
  <2>4. ASSUME NEW d \in Int, grid, Range(session) \subseteq {d},
               \A x \in cutRanges \cup ClientTimes : OnGrid(x, d)
        PROVE  OnGrid(slot, d)
    <3>1. session[s] = d
      BY <2>1, <2>4 DEF Range
    <3>2. OneGrid(schedule, session)
      BY <2>4 DEF GridInv
    <3> QED BY <2>1, <2>4, <3>1, <3>2, OfferOnGrid
  <2> QED BY <2>1, <2>3, <2>4, ClientKeepsGrid DEF ClientKeeps
<1>2. ASSUME NEW c \in Clients, NEW s \in SessionIds, AskForever(c, s) PROVE GridInv'
  <2>1. UNCHANGED <<schedule, session, booked, client, grid>>
    BY <1>2 DEF AskForever
  <2>2. UNCHANGED <<cutRanges, ClientTimes>>
    BY <2>1 DEF cutRanges, ClientTimes, Pages
  <2> QED BY <2>1, <2>2, ClientKeepsGrid
<1>3. ASSUME NEW c \in Clients, ReserveCheck(c) PROVE GridInv'
  <2>1. /\ client[c].pc = "picked" /\ UNCHANGED booked /\ ClientKeeps
        /\ client' = [client EXCEPT ![c] =
                        IF client[c].session \in DOMAIN session /\ ~isReserved(c)
                        THEN [client[c] EXCEPT !.pc = "insert"] ELSE Idle]
    BY <1>3 DEF ReserveCheck, CalendarInv
  <2>2. client[c] \in Busy /\ client[c] # Idle
    BY <1>0, <2>1, IdleIsIdle
  <2>3. client'[c] = Idle \/ client'[c].slot = client[c].slot
    BY <2>1, <2>2 DEF CalendarInv, Busy
  <2>4. \A e \in Clients \ {c} : client'[e] = client[e]
    BY <2>1 DEF CalendarInv
  <2>5. cutRanges' = cutRanges /\ ClientTimes' \subseteq ClientTimes
    BY <2>1, <2>2, <2>3, <2>4 DEF cutRanges, ClientTimes, Pages
  <2> QED BY <2>1, <2>5, ClientKeepsGrid DEF ClientKeeps
<1>4. ASSUME NEW c \in Clients, ReserveInsert(c) PROVE GridInv'
  <2>1. /\ client[c].pc = "insert" /\ ClientKeeps
        /\ client' = [client EXCEPT ![c] = Idle]
        /\ booked' \subseteq booked \cup {Place(c)}
    BY <1>4 DEF ReserveInsert
  <2>2. client[c] \in Busy /\ client[c] # Idle
    BY <1>0, <2>1, IdleIsIdle
  <2>3. TimeOf(Place(c)) = client[c].slot
    BY <2>2 DEF TimeOf, Interval, Place, Busy
  <2>4. client[c].slot \in ClientTimes
    BY <2>2 DEF ClientTimes, Pages
  <2>5. ClientTimes' \subseteq ClientTimes
    BY <2>1 DEF ClientTimes, Pages, CalendarInv
  <2>6. cutRanges' \subseteq cutRanges \cup ClientTimes
    BY <2>1, <2>3, <2>4 DEF cutRanges
  <2> QED BY <2>1, <2>5, <2>6, ClientKeepsGrid DEF ClientKeeps
<1>5. CASE UNCHANGED vars
  <2>1. UNCHANGED <<schedule, session, booked, client, grid>>
    BY <1>5 DEF vars
  <2>2. UNCHANGED <<cutRanges, ClientTimes>>
    BY <2>1 DEF cutRanges, ClientTimes, Pages
  <2> QED BY <2>1, <2>2, ClientKeepsGrid
<1> QED BY <1>1, <1>2, <1>3, <1>4, <1>5, MentorKeepsGrid DEF Next

LEMMA GridMeans == CalendarInv /\ GridInv => SameSessionDisjoint
<1> SUFFICES ASSUME CalendarInv, GridInv, grid, NEW b1 \in booked, NEW b2 \in booked,
                    b1 # b2, b1.session = b2.session, Overlap(b1, b2)
             PROVE  FALSE
  BY DEF SameSessionDisjoint
<1>1. PICK d \in Int : \A t \in cutRanges : OnGrid(t, d)
  BY DEF GridInv
<1>2. /\ OnGrid(TimeOf(b1), d) /\ OnGrid(TimeOf(b2), d)
      /\ TimeOf(b1).start = b1.start /\ TimeOf(b1).end = b1.end
      /\ TimeOf(b2).start = b2.start /\ TimeOf(b2).end = b2.end
  BY <1>1 DEF cutRanges, TimeOf, Interval
<1>3. b1 \in Bookable /\ b2 \in Bookable
  BY DEF CalendarInv, TypeOK
<1>4. PICK r1 \in baseRanges, k1 \in Int :
        b1.start = r1.start + k1 * d /\ r1.start <= b1.start /\ b1.end <= r1.end
  BY <1>2 DEF OnGrid
<1>5. PICK r2 \in baseRanges, k2 \in Int :
        b2.start = r2.start + k2 * d /\ r2.start <= b2.start /\ b2.end <= r2.end
  BY <1>2 DEF OnGrid
<1>6. /\ d > 0 /\ b1.end = b1.start + d /\ b2.end = b2.start + d
      /\ b1.start \in Int /\ b2.start \in Int
      /\ r1.start \in Int /\ r1.end \in Int /\ r2.start \in Int /\ r2.end \in Int
  BY <1>2, <1>3, TimesOfDay DEF OnGrid, Bookable, Time
<1>7. r1 = r2
  <2>1. PICK m \in Int : m \in Minutes(b1) /\ m \in Minutes(b2)
    <3>1. b1.start < b1.end /\ b2.start < b2.end
          /\ {b1.start, b1.end, b2.start, b2.end} \subseteq Int
      BY <1>6
    <3> QED BY <3>1, OverlapIsShared
  <2>2. m \in Minutes(r1) /\ m \in Minutes(r2)
    BY <1>4, <1>5, <1>6, <2>1 DEF Minutes
  <2>3. OneGrid(schedule, session)
    BY DEF GridInv
  <2> QED BY <2>2, <2>3, RowsDisjoint
<1>8. k1 * d \in Int /\ k2 * d \in Int
  BY <1>6
<1>9. k1 * d - k2 * d < d /\ k2 * d - k1 * d < d
  BY <1>4, <1>5, <1>6, <1>7, <1>8 DEF Overlap
<1>10. k1 = k2
  BY <1>6, <1>9, SameMultiple
<1>11. b1.start = b2.start /\ b1.end = b2.end
  BY <1>4, <1>5, <1>6, <1>7, <1>10
<1> QED BY <1>3, <1>11 DEF Bookable

(* The duplicate check of exact times is enough while the calendar keeps   *)
(* one grid: no two reservations of a session overlap, however old the     *)
(* page a mentee books from, for any number of mentees, rows and bookings  *)
(* (createReservation, reservation.service.ts 159-229).                    *)
THEOREM ReservationsDisjoint == Spec => []SameSessionDisjoint
<1>1. Spec => []GridInv
  BY CalendarAlways, GridInit, GridStep, PTL DEF Spec
<1> QED BY <1>1, CalendarAlways, GridMeans, PTL
=============================================================================
