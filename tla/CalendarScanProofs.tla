------------------------- MODULE CalendarScanProofs -------------------------
(***************************************************************************)
(* The bounds taken from a filter cover it: for every filter, every set of  *)
(* events, every order of the conjuncts and every length of the day that    *)
(* exceeds the time zones' offsets.  And the scan delivers what its range   *)
(* lists, wherever pages and chunks end.                                    *)
(***************************************************************************)
EXTENDS CalendarScan, SequenceTheorems, FiniteSetTheorems, TLAPS

\* What the bounds rest on: the conjuncts still to be looked at are the filter's.
PlanOK ==
    /\ query \in SUBSET Conjunct
    /\ todo \in SUBSET query
    /\ bind \in Bounds

\* The bounds that the service can read leave the event in.
Leaves(e, b) ==
    /\ b.has_lower /\ b.time_min # NoInstant => e.last > b.time_min
    /\ b.has_upper /\ b.time_max # NoInstant => e.first < b.time_max

\* Why a bound is looked at only where the service can read it: one it refuses may be
\* overwritten by another conjunct's before the request is made.
Covered == \A e \in Events : Matches(e, query) => Leaves(e, bind)

LEMMA FormatType ==
    ASSUME NEW t, NEW d
    PROVE  FormatWithBuffer(t, d) \in Rfc \cup {NoInstant}
BY DEF FormatWithBuffer, Printed

\* A timestamp a day away that prints as an instant is not one that has wrapped
\* round: int64 reaches much further than the years 1 to 9999.
LEMMA FormatExact ==
    ASSUME NEW t \in Ts, NEW d \in {-Day, Day}, FormatWithBuffer(t, d) # NoInstant
    PROVE  FormatWithBuffer(t, d) = t + d
<1>1. /\ Day \in Nat /\ TsMax \in Nat /\ RfcMin \in Int /\ RfcMax \in Int
      /\ -TsMax <= 2 * (RfcMin - Day) /\ 2 * (RfcMax + Day) <= TsMax
      /\ t \in Int /\ -TsMax - 1 <= t /\ t <= TsMax
  BY ScanAssumption DEF Ts
<1>2. Wrapped(t + d) \in Rfc /\ FormatWithBuffer(t, d) = Wrapped(t + d)
  BY DEF FormatWithBuffer, Printed
<1>3. RfcMin <= Wrapped(t + d) /\ Wrapped(t + d) <= RfcMax
  BY <1>1, <1>2 DEF Rfc
<1>4. ~(t + d > TsMax)
  BY <1>1, <1>3 DEF Wrapped
<1>5. ~(t + d < -TsMax - 1)
  BY <1>1, <1>3 DEF Wrapped
<1> QED BY <1>1, <1>2, <1>4, <1>5 DEF Wrapped

\* A lower bound on the SQL start leaves in every event at or after it.
LEMMA LowerCovers ==
    ASSUME NEW e \in Events, NEW t \in Ts, t <= e.start, NEW b \in Bounds, Leaves(e, b)
    PROVE  ApplyLowerBound(t, b) \in Bounds /\ Leaves(e, ApplyLowerBound(t, b))
<1> DEFINE m == FormatWithBuffer(t, -Day)
<1>1. m # NoInstant => m = t - Day
  BY FormatExact, ScanAssumption DEF Ts
<1>2. /\ e.start \in Int /\ e.first \in Int /\ e.last \in Int /\ Day \in Int /\ t \in Int
      /\ e.first <= e.last /\ e.start - Day < e.first
  BY ScanAssumption DEF Ts
<1>3. m # NoInstant => e.last > m
  BY <1>1, <1>2
<1>4. m \in Rfc \cup {NoInstant}
  BY FormatType
<1> HIDE DEF m
<1>5. ApplyLowerBound(t, b) = [b EXCEPT !.has_lower = TRUE, !.time_min = m]
  BY DEF ApplyLowerBound, m
<1> QED BY <1>3, <1>4, <1>5 DEF Bounds, Leaves

\* An upper bound on the SQL start leaves in every event at or before it.
LEMMA UpperCovers ==
    ASSUME NEW e \in Events, NEW t \in Ts, e.start <= t, NEW b \in Bounds, Leaves(e, b)
    PROVE  ApplyUpperBound(t, b) \in Bounds /\ Leaves(e, ApplyUpperBound(t, b))
<1> DEFINE m == FormatWithBuffer(t, Day)
<1>1. m # NoInstant => m = t + Day
  BY FormatExact
<1>2. e.start \in Int /\ e.first \in Int /\ Day \in Int /\ t \in Int /\ e.first < e.start + Day
  BY ScanAssumption DEF Ts
<1>3. m # NoInstant => e.first < m
  BY <1>1, <1>2
<1>4. m \in Rfc \cup {NoInstant}
  BY FormatType
<1> HIDE DEF m
<1>5. ApplyUpperBound(t, b) = [b EXCEPT !.has_upper = TRUE, !.time_max = m]
  BY DEF ApplyUpperBound, m
<1> QED BY <1>3, <1>4, <1>5 DEF Bounds, Leaves

\* Bounds stay bounds, whatever the conjunct.
LEMMA ExtractType ==
    ASSUME NEW c \in Conjunct, NEW b \in Bounds
    PROVE  ExtractTimeBound(c, b) \in Bounds
<1>1. ASSUME NEW t \in Ts, NEW d \in Bounds
      PROVE  ApplyLowerBound(t, d) \in Bounds /\ ApplyUpperBound(t, d) \in Bounds
  BY FormatType DEF ApplyLowerBound, ApplyUpperBound, Bounds
<1> QED BY <1>1 DEF ExtractTimeBound, Conjunct

\* One conjunct's bounds leave in every event that satisfies the conjunct.
LEMMA ExtractCovers ==
    ASSUME NEW c \in Conjunct, NEW b \in Bounds,
           NEW e \in Events, Satisfies(e, c), Leaves(e, b)
    PROVE  Leaves(e, ExtractTimeBound(c, b))
<1>1. c.lit \in Ts /\ c.lit2 \in Ts /\ c.lit \in Int /\ e.start \in Int /\ c.op \in Ops
  BY ScanAssumption DEF Conjunct, Ts
<1> DEFINE low == ApplyLowerBound(c.lit, b)
<1>2. c.lit <= e.start => low \in Bounds /\ Leaves(e, low)
  BY <1>1, LowerCovers
<1>3. ASSUME NEW d \in Bounds, Leaves(e, d), e.start <= c.lit
      PROVE  Leaves(e, ApplyUpperBound(c.lit, d))
  BY <1>1, <1>3, UpperCovers
<1>4. ASSUME NEW d \in Bounds, Leaves(e, d), e.start <= c.lit2
      PROVE  Leaves(e, ApplyUpperBound(c.lit2, d))
  BY <1>1, <1>4, UpperCovers
<1> HIDE DEF low
<1>5. CASE c.column /\ c.op = "between"
  <2> DEFINE mid == IF c.folds THEN low ELSE b
  <2>1. mid \in Bounds /\ Leaves(e, mid)
    BY <1>2, <1>5 DEF Satisfies, Comparisons
  <2>2. ExtractTimeBound(c, b) = IF c.folds2 THEN ApplyUpperBound(c.lit2, mid) ELSE mid
    BY <1>5 DEF ExtractTimeBound, low, Comparisons
  <2>3. c.folds2 => e.start <= c.lit2
    BY <1>5 DEF Satisfies, Comparisons
  <2> HIDE DEF mid
  <2> QED BY <1>4, <2>1, <2>2, <2>3
<1>6. CASE c.column /\ c.op \in Comparisons /\ c.folds
  <2> DEFINE op == IF c.flipped THEN FlipComparison(c.op) ELSE c.op
             mid == IF op \in {">", ">=", "="} THEN low ELSE b
  <2>1. /\ op \in {">", ">=", "="} => c.lit <= e.start
        /\ op \in {"<", "<=", "="} => e.start <= c.lit
    BY <1>1, <1>6 DEF Satisfies, Compares, FlipComparison, Comparisons
  <2>2. ExtractTimeBound(c, b) = IF op \in {"<", "<=", "="} THEN ApplyUpperBound(c.lit, mid) ELSE mid
    BY <1>6 DEF ExtractTimeBound, low, Comparisons
  <2> HIDE DEF op
  <2>3. mid \in Bounds /\ Leaves(e, mid)
    BY <1>2, <2>1
  <2> HIDE DEF mid
  <2> QED BY <1>3, <2>1, <2>2, <2>3
<1>7. CASE ~(c.column /\ c.op = "between") /\ ~(c.column /\ c.op \in Comparisons /\ c.folds)
  BY <1>7 DEF ExtractTimeBound
<1> QED BY <1>5, <1>6, <1>7

\* The bounds cover the filter at every point of planning.
LEMMA Inductive == Spec => [](PlanOK /\ Covered)
<1>1. Init => PlanOK /\ Covered
  BY DEF Init, PlanOK, Covered, NoBounds, Bounds, Leaves
<1>2. PlanOK /\ Covered /\ [Next]_vars => (PlanOK /\ Covered)'
  <2> SUFFICES ASSUME PlanOK, Covered, [Next]_vars
               PROVE  PlanOK' /\ Covered'
    OBVIOUS
  <2>1. CASE Plan
    BY <2>1, ScanAssumption DEF Plan, PlanOK, Covered, NoBounds, Bounds, Leaves
  <2>2. CASE Extract
    <3>1. PICK c \in todo : todo' = todo \ {c} /\ bind' = ExtractTimeBound(c, bind)
      BY <2>2 DEF Extract
    <3>2. c \in query /\ c \in Conjunct /\ query' = query
      BY <2>2 DEF PlanOK, Extract
    <3>3. PlanOK'
      BY <3>1, <3>2, ExtractType DEF PlanOK
    <3>4. ASSUME NEW e \in Events, Matches(e, query)
          PROVE  Leaves(e, bind')
      <4>1. Satisfies(e, c)
        BY <3>2, <3>4 DEF Matches
      <4>2. Leaves(e, bind) /\ bind \in Bounds
        BY <3>4 DEF Covered, PlanOK
      <4> QED BY <3>1, <3>2, <4>1, <4>2, ExtractCovers
    <3>5. Covered'
      BY <3>2, <3>4 DEF Covered, Matches
    <3> QED BY <3>3, <3>5
  <2>3. CASE UNCHANGED <<query, todo, bind>>
    BY <2>3 DEF PlanOK, Covered, Matches
  <2>4. Attach \/ InitGlobal \/ InitGlobalFails \/ FetchPage \/ FetchFails \/ EmitRow \/ LastPageEnds
          \/ ReturnChunk \/ TakeChunk \/ UNCHANGED vars => UNCHANGED <<query, todo, bind>>
    BY DEF Attach, InitGlobal, InitGlobalFails, FetchPage, FetchFails, EmitRow, LastPageEnds, ReturnChunk,
           TakeChunk, vars, planVars, scanVars
  <2> QED BY <2>1, <2>2, <2>3, <2>4 DEF Next
<1> QED BY <1>1, <1>2, PTL DEF Spec

\* "exactness is guaranteed": no event that matches the filter is outside bounds that
\* the service accepts, whatever timestamps the filter compares with.
THEOREM BoundsSound == Spec => []BoundsCoverFilter
<1>1. Covered => BoundsCoverFilter
  BY DEF Covered, Leaves, Accepted, BoundsCoverFilter, InRange
<1> QED BY <1>1, Inductive, PTL

-----------------------------------------------------------------------------
(***************************************************************************)
(* The scan itself.  What is delivered, what is in the chunk, what is left  *)
(* of the page and what the page token stands for make up, at every point,  *)
(* one of the listings that the service may give for the range asked for.   *)
(***************************************************************************)
PlanningPcs == {"attach", "plan", "extract"}
ScanningPcs == {"scan", "chunk", "done"}

\* The events of the page that are not rows yet.
Unread == SubSeq(items, item_index + 1, Len(items))

\* In the order in which they become rows.
Whole == rows \o (chunk \o (Unread \o rest))

\* Where the range asked for comes from.
RangeOK ==
    /\ win.kind = "error" => pc = "failed"
    /\ win.lo \in Ts /\ win.hi \in Ts
    /\ pc \in ScanningPcs => Accepted(range)
    /\ pc \in ScanningPcs =>
          \/ (bind.has_lower \/ bind.has_upper) /\ range = bind
          \/ /\ ~bind.has_lower /\ ~bind.has_upper /\ win.kind # "none"
             /\ \E now \in Nows : range = DefaultRange(win, now)

\* The stages of a scan.
StageOK ==
    /\ pc \in PlanningPcs => rows = << >> /\ chunk = << >> /\ ~finished
    /\ ~next_page_token => rest = << >>
    /\ finished => item_index = Len(items) /\ ~next_page_token
    /\ pc \in {"chunk", "done"} => finished \/ Len(chunk) = ChunkSize
    /\ pc = "done" => chunk = << >>

ListingOK == pc \in ScanningPcs => Whole \in Listings(range)

\* The events in a range are finitely many, and a listing names each once.
LEMMA ListingFacts ==
    ASSUME NEW r, NEW s \in Listings(r)
    PROVE  /\ s \in Seq(Events)
           /\ \A e \in Events : InRange(e, r) => \E k \in DOMAIN s : s[k] = e
           /\ \A j, k \in DOMAIN s : s[j] = s[k] => j = k
           /\ Ordered(s)
<1> DEFINE S == {e \in Events : InRange(e, r)}
<1>1. IsFiniteSet(S) /\ Cardinality(S) \in Nat
  BY ScanAssumption, FS_Subset, FS_CardinalityType
<1>2. s \in [1 .. Cardinality(S) -> S] /\ {s[k] : k \in DOMAIN s} = S /\ Ordered(s)
  BY DEF Listings
<1> HIDE DEF S
<1>3. s \in Seq(S) /\ DOMAIN s = 1 .. Cardinality(S)
  BY <1>1, <1>2
<1>4. s \in Seq(Events)
  BY <1>3, SeqMonotonic DEF S
<1>5. s \in Surjection(1 .. Cardinality(S), S)
  BY <1>2 DEF Surjection
<1>6. IsFiniteSet(1 .. Cardinality(S)) /\ Cardinality(1 .. Cardinality(S)) = Cardinality(S)
  BY <1>1, FS_Interval
<1>7. s \in Injection(1 .. Cardinality(S), S)
  BY <1>5, <1>6, FS_SurjSameCardinalityImpliesInj
<1>8. \A j, k \in DOMAIN s : s[j] = s[k] => j = k
  BY <1>3, <1>7 DEF Injection, IsInjective
<1>9. \A e \in Events : InRange(e, r) => \E k \in DOMAIN s : s[k] = e
  BY <1>2 DEF S
<1> QED BY <1>2, <1>4, <1>8, <1>9

\* A page and what comes after it are what was left.
LEMMA PageFacts ==
    ASSUME NEW left \in Seq(Events), Page(left)
    PROVE  /\ items' \in Seq(Events) /\ rest' \in Seq(Events) /\ Len(items') <= PageSize
           /\ item_index' = 0 /\ next_page_token' \in BOOLEAN
           /\ ~next_page_token' => rest' = << >>
           /\ Unread' \o rest' = left
<1>1. PICK n \in 0 .. PageSize :
          /\ n <= Len(left)
          /\ items' = SubSeq(left, 1, n)
          /\ rest' = SubSeq(left, n + 1, Len(left))
          /\ next_page_token' = (n < Len(left))
          /\ item_index' = 0
  BY DEF Page
<1>2. n \in Nat /\ n <= PageSize /\ Len(left) \in Nat /\ \A k \in 1 .. Len(left) : left[k] \in Events
  BY ScanAssumption, LenProperties, ElementOfSeq
<1>3. items' \in Seq(Events) /\ Len(items') = n
  BY <1>1, <1>2, SubSeqProperties
<1>4. rest' \in Seq(Events)
  BY <1>1, <1>2, SubSeqProperties
<1>5. ASSUME ~next_page_token'
      PROVE  rest' = << >>
  <2>1. ~(n < Len(left))
    BY <1>1, <1>5
  <2>2. n + 1 \in Int /\ Len(left) < n + 1
    BY <1>2, <2>1
  <2> QED BY <1>1, <1>2, <2>2, SubSeqEmpty
<1>6. Unread' = items'
  BY <1>1, <1>3, SubSeqFull DEF Unread
<1>7. items' \o rest' = left
  <2>1. 1 \in 1 .. Len(left) + 1 /\ n \in 1 - 1 .. Len(left) /\ Len(left) \in n .. Len(left)
    BY <1>1, <1>2
  <2>2. SubSeq(left, 1, n) \o SubSeq(left, n + 1, Len(left)) = SubSeq(left, 1, Len(left))
    BY <2>1, ConcatAdjacentSubSeq
  <2> QED BY <1>1, <2>2, SubSeqFull
<1>8. Unread' \o rest' = left
  BY <1>6, <1>7
<1>9. next_page_token' \in BOOLEAN
  BY <1>1
<1>10. Len(items') <= PageSize
  BY <1>2, <1>3
<1> QED BY <1>1, <1>3, <1>4, <1>5, <1>8, <1>9, <1>10

\* A default window is given by timestamps.
LEMMA WindowType ==
    ASSUME NEW o \in Option
    PROVE  /\ ResolveWindow(o) \in [kind : {"none", "dynamic", "static", "error"}, lo : Int, hi : Int]
           /\ ResolveWindow(o).lo \in Ts /\ ResolveWindow(o).hi \in Ts
<1> DEFINE W == [kind : {"none", "dynamic", "static", "error"}, lo : Ts, hi : Ts]
<1>1. o.s \in Ts /\ o.e \in Ts /\ o.w \in Ts /\ 0 \in Ts
  BY ScanAssumption DEF Option, Ts
<1>2. \A lo, hi : StaticWindow(lo, hi) \in W
  BY <1>1 DEF StaticWindow
<1>3. ResolveWindow(o) \in W
  BY <1>1, <1>2 DEF ResolveWindow
<1>4. Ts \subseteq Int
  BY ScanAssumption DEF Ts
<1> QED BY <1>3, <1>4

LEMMA HalfBound ==
    ASSUME NEW x \in Int
    PROVE  /\ Half(x) \in Int
           /\ x >= 0 => 0 <= Half(x) /\ 2 * Half(x) <= x
           /\ x < 0 => Half(x) <= 0 /\ x <= 2 * Half(x)
BY DEF Half

\* So are its ends at any time the clock may show: half of an int64 is far from
\* its end, and so is the clock.
LEMMA DefaultType ==
    ASSUME win.lo \in Ts, win.hi \in Ts, NEW now \in Nows
    PROVE  /\ DefaultLo(win, now) \in Ts /\ DefaultHi(win, now) \in Ts
           /\ DefaultRange(win, now) \in Bounds
<1>1. /\ Day \in Nat /\ TsMax \in Nat /\ RfcMin \in Int /\ RfcMax \in Int
      /\ -TsMax <= 2 * (RfcMin - Day) /\ 2 * (RfcMax + Day) <= TsMax
      /\ now \in Int /\ RfcMin <= now /\ now <= RfcMax
      /\ win.lo \in Int /\ -TsMax - 1 <= win.lo /\ win.lo <= TsMax
  BY ScanAssumption DEF Rfc, Ts
<1> DEFINE h == Half(win.lo)
<1>2. h \in Int /\ -TsMax - 1 <= 2 * h /\ 2 * h <= TsMax
  BY <1>1, HalfBound
<1> HIDE DEF h
<1>3. now - h \in Ts /\ now + h \in Ts
  BY <1>1, <1>2 DEF Ts
<1>4. DefaultLo(win, now) \in Ts /\ DefaultHi(win, now) \in Ts
  BY <1>3 DEF DefaultLo, DefaultHi, h
<1>5. DefaultRange(win, now) \in Bounds
  BY FormatType DEF DefaultRange, Bounds
<1> QED BY <1>4, <1>5

ScanInv == TypeOK /\ RangeOK /\ StageOK /\ ListingOK

LEMMA InitScan == Init => ScanInv
<1> SUFFICES ASSUME Init PROVE ScanInv
  OBVIOUS
<1>1. /\ << >> \in Seq(Events) /\ Len(<< >>) = 0
      /\ 0 <= PageSize /\ 0 <= ChunkSize /\ 0 \in 0 .. 0
  BY ScanAssumption, EmptySeq
<1>2. win \in [kind : {"none", "dynamic", "static", "error"}, lo : Int, hi : Int]
  BY DEF Init
<1>3. bind \in Bounds /\ range \in Bounds
  BY DEF Init, NoBounds, Bounds
<1>4. TypeOK
  BY <1>1, <1>2, <1>3 DEF Init, TypeOK
<1>5. 0 \in Ts
  BY ScanAssumption DEF Ts
<1> QED BY <1>4, <1>5 DEF Init, ScanInv, RangeOK, StageOK, ListingOK, ScanningPcs

\* Planning.
LEMMA PlanSteps ==
    ASSUME ScanInv, Attach \/ Plan \/ Extract
    PROVE  ScanInv'
<1>1. pc \in PlanningPcs /\ pc' \in {"plan", "extract", "failed"}
  BY DEF Attach, Plan, Extract, PlanningPcs
<1>2. UNCHANGED <<range, scanVars>>
  BY DEF Attach, Plan, Extract
<1>3. TypeOK'
  <2>1. /\ win' \in [kind : {"none", "dynamic", "static", "error"}, lo : Int, hi : Int]
        /\ query' \in SUBSET Conjunct /\ todo' \in SUBSET query' /\ bind' \in Bounds
    <3>1. CASE Attach
      BY <3>1, WindowType, ScanAssumption DEF Attach, ScanInv, TypeOK
    <3>2. CASE Plan
      BY <3>2, ScanAssumption DEF Plan, ScanInv, TypeOK, NoBounds, Bounds
    <3>3. CASE Extract
      BY <3>3, ExtractType DEF Extract, ScanInv, TypeOK
    <3> QED BY <3>1, <3>2, <3>3
  <2> QED BY <1>1, <1>2, <2>1 DEF ScanInv, TypeOK, scanVars
<1>4. RangeOK'
  <2>1. /\ win'.kind = "error" => pc' = "failed"
        /\ win'.lo \in Ts /\ win'.hi \in Ts
    BY WindowType, ScanAssumption DEF Attach, Plan, Extract, ScanInv, RangeOK
  <2> QED BY <1>1, <2>1 DEF RangeOK, ScanningPcs
<1>5. StageOK' /\ ListingOK'
  BY <1>1, <1>2 DEF ScanInv, StageOK, ListingOK, PlanningPcs, ScanningPcs, scanVars
<1> QED BY <1>3, <1>4, <1>5 DEF ScanInv

\* The first page.
LEMMA InitGlobalStep ==
    ASSUME ScanInv, InitGlobal, pc' = "scan"
    PROVE  ScanInv'
<1>1. /\ pc = "extract" /\ rows = << >> /\ chunk = << >> /\ ~finished
      /\ UNCHANGED <<planVars, finished, chunk, rows>>
  BY DEF InitGlobal, ScanInv, StageOK, PlanningPcs
<1>2. /\ \/ (bind.has_lower \/ bind.has_upper) /\ range' = bind
         \/ /\ ~bind.has_lower /\ ~bind.has_upper /\ win.kind # "none"
            /\ \E now \in Nows : range' = DefaultRange(win, now)
      /\ Accepted(range')
      /\ \E s \in Listings(range') : Page(s)
  BY DEF InitGlobal
<1>3. PICK s \in Listings(range') : Page(s)
  BY <1>2
<1>4. s \in Seq(Events)
  BY ListingFacts
<1>5. /\ items' \in Seq(Events) /\ rest' \in Seq(Events) /\ Len(items') <= PageSize
      /\ item_index' = 0 /\ next_page_token' \in BOOLEAN
      /\ ~next_page_token' => rest' = << >>
      /\ Unread' \o rest' = s
  BY <1>3, <1>4, PageFacts
<1>6. range' \in Bounds
  BY <1>2, DefaultType DEF ScanInv, TypeOK, RangeOK
<1>7. TypeOK'
  BY <1>1, <1>5, <1>6, LenProperties DEF ScanInv, TypeOK, planVars
<1>8. RangeOK'
  BY <1>1, <1>2 DEF ScanInv, RangeOK, planVars, DefaultRange, DefaultLo, DefaultHi
<1>9. StageOK'
  BY <1>1, <1>5 DEF StageOK, PlanningPcs
<1>10. Whole' = s
  BY <1>1, <1>4, <1>5, ConcatEmptySeq DEF Whole
<1> QED BY <1>3, <1>7, <1>8, <1>9, <1>10 DEF ScanInv, ListingOK

\* What is left of a page is a sequence, empty when the page is used up.
LEMMA UnreadFacts ==
    ASSUME TypeOK
    PROVE  /\ Unread \in Seq(Events)
           /\ item_index >= Len(items) => Unread = << >>
           /\ item_index < Len(items) =>
                 /\ items[item_index + 1] \in Events
                 /\ SubSeq(items, item_index + 2, Len(items)) \in Seq(Events)
                 /\ Unread = <<items[item_index + 1]>> \o SubSeq(items, item_index + 2, Len(items))
<1>1. /\ items \in Seq(Events) /\ Len(items) \in Nat /\ item_index \in 0 .. Len(items)
      /\ \A k \in 1 .. Len(items) : items[k] \in Events
  BY LenProperties, ElementOfSeq DEF TypeOK
<1>2. Unread \in Seq(Events)
  BY <1>1, SubSeqProperties DEF Unread
<1>3. item_index >= Len(items) => Unread = << >>
  BY <1>1, SubSeqEmpty DEF Unread
<1>4. ASSUME item_index < Len(items)
      PROVE  /\ items[item_index + 1] \in Events
             /\ SubSeq(items, item_index + 2, Len(items)) \in Seq(Events)
             /\ Unread = <<items[item_index + 1]>> \o SubSeq(items, item_index + 2, Len(items))
  <2>1. item_index + 1 \in 1 .. Len(items) /\ Len(items) \in item_index + 1 .. Len(items)
        /\ (item_index + 1) + 1 = item_index + 2 /\ item_index + 2 \in Int
    BY <1>1, <1>4
  <2>2. SubSeq(items, item_index + 2, Len(items)) \in Seq(Events)
    BY <1>1, <2>1, SubSeqProperties
  <2> QED BY <1>1, <2>1, <2>2, SubSeqRecursiveFirst DEF Unread
<1> QED BY <1>2, <1>3, <1>4

\* The next page.
LEMMA FetchStep ==
    ASSUME ScanInv, FetchPage
    PROVE  ScanInv'
<1>1. /\ pc = "scan" /\ ~finished /\ item_index >= Len(items) /\ Page(rest)
      /\ UNCHANGED <<pc, planVars, range, finished, chunk, rows>>
  BY DEF FetchPage
<1>2. /\ rest \in Seq(Events) /\ chunk \in Seq(Events) /\ rows \in Seq(Events)
      /\ Unread = << >>
  BY <1>1, UnreadFacts DEF ScanInv, TypeOK
<1>3. /\ items' \in Seq(Events) /\ rest' \in Seq(Events) /\ Len(items') <= PageSize
      /\ item_index' = 0 /\ next_page_token' \in BOOLEAN
      /\ ~next_page_token' => rest' = << >>
      /\ Unread' \o rest' = rest
  BY <1>1, <1>2, PageFacts
<1>4. TypeOK'
  BY <1>1, <1>3, LenProperties DEF ScanInv, TypeOK, planVars
<1>5. RangeOK'
  BY <1>1 DEF ScanInv, RangeOK, planVars, DefaultRange, DefaultLo, DefaultHi
<1>6. StageOK'
  BY <1>1, <1>3 DEF ScanInv, StageOK, PlanningPcs
<1>7. Whole' = Whole
  BY <1>1, <1>2, <1>3, ConcatEmptySeq DEF Whole
<1> QED BY <1>1, <1>4, <1>5, <1>6, <1>7 DEF ScanInv, ListingOK

\* The next row.
LEMMA EmitStep ==
    ASSUME ScanInv, EmitRow
    PROVE  ScanInv'
<1> DEFINE x == items[item_index + 1]
           more == SubSeq(items, item_index + 2, Len(items))
<1>1. /\ pc = "scan" /\ ~finished /\ item_index < Len(items) /\ Len(chunk) < ChunkSize
      /\ chunk' = Append(chunk, x) /\ item_index' = item_index + 1
      /\ UNCHANGED <<pc, planVars, range, rest, items, next_page_token, finished, rows>>
  BY DEF EmitRow
<1>2. x \in Events /\ more \in Seq(Events) /\ Unread = <<x>> \o more
  BY <1>1, UnreadFacts DEF ScanInv
<1>3. /\ rest \in Seq(Events) /\ chunk \in Seq(Events) /\ rows \in Seq(Events)
      /\ items \in Seq(Events) /\ Len(items) \in Nat /\ item_index \in 0 .. Len(items)
      /\ Len(chunk) \in Nat /\ ChunkSize \in Nat
  BY ScanAssumption, LenProperties DEF ScanInv, TypeOK
<1>4. Unread' = more
  <2>1. item_index' + 1 = item_index + 2
    BY <1>1, <1>3
  <2> QED BY <1>1, <2>1 DEF Unread
<1>5. /\ chunk' \in Seq(Events) /\ Len(chunk') = Len(chunk) + 1 /\ chunk' = chunk \o <<x>>
  BY <1>1, <1>2, <1>3, AppendProperties, AppendIsConcat
<1>6. <<x>> \in Seq(Events)
  BY <1>2
<1> HIDE DEF x, more
<1>7. TypeOK'
  <2>1. item_index' \in 0 .. Len(items') /\ Len(chunk') <= ChunkSize
    BY <1>1, <1>3, <1>5
  <2> QED BY <1>1, <1>5, <2>1 DEF ScanInv, TypeOK, planVars
<1>8. RangeOK' /\ StageOK'
  BY <1>1 DEF ScanInv, RangeOK, StageOK, planVars, PlanningPcs, DefaultRange, DefaultLo, DefaultHi
<1>9. Whole' = Whole
  <2> DEFINE tail == more \o rest
             one == <<x>>
  <2>1. tail \in Seq(Events) /\ one \in Seq(Events)
    BY <1>2, <1>3, <1>6, ConcatProperties
  <2>2. (one \o more) \o rest = one \o tail
    BY <1>2, <1>3, <2>1, ConcatAssociative
  <2> HIDE DEF tail
  <2>3. \A u \in Seq(Events) : (chunk \o u) \o tail = chunk \o (u \o tail)
    <3>1. chunk \in Seq(Events)
      BY <1>3
    <3> QED BY <2>1, <3>1, ConcatAssociative
  <2>4. (chunk \o one) \o tail = chunk \o (one \o tail)
    BY <2>1, <2>3
  <2> QED BY <1>1, <1>2, <1>4, <1>5, <2>2, <2>4 DEF Whole, tail
<1> QED BY <1>1, <1>7, <1>8, <1>9 DEF ScanInv, ListingOK

\* The chunk is taken.
LEMMA TakeStep ==
    ASSUME ScanInv, TakeChunk
    PROVE  ScanInv'
<1>1. /\ pc = "chunk" /\ pc' = (IF chunk = << >> THEN "done" ELSE "scan")
      /\ rows' = rows \o chunk /\ chunk' = << >>
      /\ UNCHANGED <<planVars, range, rest, items, item_index, next_page_token, finished>>
  BY DEF TakeChunk
<1>2. /\ rest \in Seq(Events) /\ chunk \in Seq(Events) /\ rows \in Seq(Events)
      /\ Unread \in Seq(Events) /\ Unread' = Unread
      /\ ChunkSize \in Nat \ {0}
  BY <1>1, UnreadFacts, ScanAssumption DEF ScanInv, TypeOK, Unread
<1>3. rows' \in Seq(Events) /\ chunk' \in Seq(Events) /\ Len(chunk') = 0
  BY <1>1, <1>2, ConcatProperties, EmptySeq
<1>4. TypeOK'
  BY <1>1, <1>2, <1>3 DEF ScanInv, TypeOK, planVars
<1>5. RangeOK'
  BY <1>1 DEF ScanInv, RangeOK, planVars, ScanningPcs, DefaultRange, DefaultLo, DefaultHi
<1>6. StageOK'
  <2>1. pc' = "done" => finished
    BY <1>1, <1>2, EmptySeq DEF ScanInv, StageOK
  <2> QED BY <1>1, <2>1 DEF ScanInv, StageOK, PlanningPcs
<1>7. Whole' = Whole
  <2> DEFINE tail == Unread \o rest
  <2>1. tail \in Seq(Events)
    BY <1>2, ConcatProperties
  <2> HIDE DEF tail
  <2>2. (rows \o chunk) \o tail = rows \o (chunk \o tail)
    BY <1>2, <2>1, ConcatAssociative
  <2>3. << >> \o tail = tail
    BY <2>1, ConcatEmptySeq
  <2> QED BY <1>1, <1>2, <2>2, <2>3 DEF Whole, tail
<1> QED BY <1>1, <1>4, <1>5, <1>6, <1>7 DEF ScanInv, ListingOK, ScanningPcs

\* A step that moves no event.
LEMMA StillStep ==
    ASSUME ScanInv,
           UNCHANGED <<planVars, rest, items, item_index, next_page_token, chunk, rows>>,
           range' \in Bounds,
           pc' = "failed" \/ range' = range,
           \/ pc' = "failed" /\ finished' = finished
           \/ /\ pc = "scan" /\ pc' = "scan"
              /\ finished' = TRUE /\ item_index >= Len(items) /\ ~next_page_token
           \/ /\ pc = "scan" /\ pc' = "chunk"
              /\ finished' = finished /\ (finished \/ Len(chunk) = ChunkSize)
    PROVE  ScanInv'
<1>1. item_index \in 0 .. Len(items) /\ Len(items) \in Nat
  BY LenProperties DEF ScanInv, TypeOK
<1>2. TypeOK'
  BY DEF ScanInv, TypeOK, planVars
<1>3. RangeOK'
  BY DEF ScanInv, RangeOK, planVars, ScanningPcs, DefaultRange, DefaultLo, DefaultHi
<1>4. StageOK'
  BY <1>1 DEF ScanInv, StageOK, PlanningPcs
<1>5. Whole' = Whole
  BY DEF Whole, Unread
<1>6. ListingOK'
  BY <1>5 DEF ScanInv, ListingOK, ScanningPcs
<1> QED BY <1>2, <1>3, <1>4, <1>6 DEF ScanInv

LEMMA StepScan == ScanInv /\ [Next]_vars => ScanInv'
<1> SUFFICES ASSUME ScanInv, [Next]_vars PROVE ScanInv'
  OBVIOUS
<1>1. CASE InitGlobal /\ pc' # "scan"
  <2>1. /\ pc' = "failed" /\ finished' = finished
        /\ range' = range \/ range' = bind \/ \E now \in Nows : range' = DefaultRange(win, now)
        /\ UNCHANGED <<planVars, rest, items, item_index, next_page_token, chunk, rows>>
    BY <1>1 DEF InitGlobal
  <2>2. range' \in Bounds
    BY <2>1, DefaultType DEF ScanInv, TypeOK, RangeOK
  <2> QED BY <2>1, <2>2, StillStep
<1>2. CASE InitGlobalFails \/ FetchFails
  <2>1. /\ pc' = "failed" /\ finished' = finished
        /\ UNCHANGED <<planVars, range, rest, items, item_index, next_page_token, chunk, rows>>
    BY <1>2 DEF InitGlobalFails, FetchFails, scanVars
  <2> QED BY <2>1, StillStep DEF ScanInv, TypeOK
<1>3. CASE LastPageEnds
  BY <1>3, StillStep DEF LastPageEnds, ScanInv, TypeOK
<1>4. CASE ReturnChunk
  <2>1. /\ pc = "scan" /\ pc' = "chunk" /\ finished' = finished
        /\ finished \/ Len(chunk) = ChunkSize
        /\ UNCHANGED <<planVars, range, rest, items, item_index, next_page_token, chunk, rows>>
    BY <1>4 DEF ReturnChunk, scanVars
  <2> QED BY <2>1, StillStep DEF ScanInv, TypeOK
<1>5. CASE UNCHANGED vars
  BY <1>5 DEF vars, planVars, scanVars, ScanInv, TypeOK, RangeOK, StageOK, ListingOK, Whole, Unread,
             DefaultRange, DefaultLo, DefaultHi
<1> QED BY <1>1, <1>2, <1>3, <1>4, <1>5, PlanSteps, InitGlobalStep, FetchStep, EmitStep, TakeStep DEF Next

LEMMA ScanInductive == Spec => []ScanInv
BY InitScan, StepScan, PTL DEF Spec

\* Every variable keeps its type: no page and no chunk is longer than it may be, and
\* the read position never leaves its page.
THEOREM TypeCorrect == Spec => []TypeOK
<1>1. ScanInv => TypeOK
  BY DEF ScanInv
<1> QED BY <1>1, ScanInductive, PTL

\* A scan that ended has delivered every event in range exactly once and in order,
\* however the service cut its answer into pages and the scan its rows into chunks;
\* and the range covers the filter.
THEOREM ScanExact == Spec => []ScanIsExact
<1>1. ScanInv /\ BoundsCoverFilter => ScanIsExact
  <2> SUFFICES ASSUME ScanInv, BoundsCoverFilter, pc = "done"
               PROVE  ScanIsExact
    BY DEF ScanIsExact
  <2>1. chunk = << >> /\ Unread = << >> /\ rest = << >> /\ rows \in Seq(Events)
    <3>1. chunk = << >>
      BY DEF ScanInv, StageOK
    <3>2. Len(chunk) # ChunkSize
      BY <3>1, EmptySeq, ScanAssumption
    <3>3. finished
      BY <3>2 DEF ScanInv, StageOK
    <3>4. item_index >= Len(items) /\ rest = << >>
      BY <3>3, LenProperties DEF ScanInv, StageOK, TypeOK
    <3> QED BY <3>1, <3>4, UnreadFacts DEF ScanInv, TypeOK
  <2>2. rows \in Listings(range)
    <3>1. Whole = rows
      BY <2>1, ConcatEmptySeq, EmptySeq DEF Whole
    <3> QED BY <3>1 DEF ScanInv, ListingOK, ScanningPcs
  <2>3. /\ \A e \in Events : InRange(e, range) => \E k \in DOMAIN rows : rows[k] = e
        /\ \A j, k \in DOMAIN rows : rows[j] = rows[k] => j = k
        /\ Ordered(rows)
    BY <2>2, ListingFacts
  <2>4. bind.has_lower \/ bind.has_upper => range = bind
    BY DEF ScanInv, RangeOK, ScanningPcs
  <2>5. bind.has_lower \/ bind.has_upper =>
            \A e \in Events : Matches(e, query) => \E k \in DOMAIN rows : rows[k] = e
    BY <2>3, <2>4 DEF BoundsCoverFilter, ScanInv, RangeOK, ScanningPcs
  <2> QED BY <2>3, <2>5 DEF ScanIsExact
<1> QED BY <1>1, ScanInductive, BoundsSound, PTL

\* Without bounds of its own a query reads the default window of ATTACH and nothing
\* else, and asks for every event that starts in it.
THEOREM DefaultWindowSound == Spec => []DefaultWindowRules
<1>1. ScanInv => DefaultWindowRules
  <2> SUFFICES ASSUME ScanInv, pc \in ScanningPcs, ~bind.has_lower, ~bind.has_upper
               PROVE  /\ win.kind \in {"dynamic", "static"}
                      /\ \E now \in Nows :
                            \A e \in Events :
                                DefaultLo(win, now) <= e.start /\ e.start <= DefaultHi(win, now)
                                    => InRange(e, range)
    BY DEF DefaultWindowRules, ScanningPcs
  <2>1. win.kind \in {"dynamic", "static"}
    BY DEF ScanInv, TypeOK, RangeOK, ScanningPcs
  <2>2. PICK now \in Nows : range = DefaultRange(win, now)
    BY DEF ScanInv, RangeOK, ScanningPcs
  <2> DEFINE lo == DefaultLo(win, now)
             hi == DefaultHi(win, now)
  <2>3. lo \in Ts /\ hi \in Ts /\ Day \in Int /\ Ts \subseteq Int
    BY DefaultType, ScanAssumption DEF ScanInv, RangeOK, Ts
  <2> DEFINE from == FormatWithBuffer(lo, -Day)
             to == FormatWithBuffer(hi, Day)
  <2>4. range = [has_lower |-> TRUE, time_min |-> from, has_upper |-> TRUE, time_max |-> to]
    BY <2>2 DEF DefaultRange
  <2>5. from # NoInstant /\ to # NoInstant
    BY <2>4 DEF ScanInv, RangeOK, Accepted, ScanningPcs
  <2> HIDE DEF lo, hi
  <2>6. from = lo - Day /\ to = hi + Day
    BY <2>3, <2>5, FormatExact
  <2> HIDE DEF from, to
  <2>7. ASSUME NEW e \in Events, lo <= e.start, e.start <= hi
        PROVE  InRange(e, range)
    <3>1. /\ e.start \in Int /\ e.first \in Int /\ e.last \in Int /\ e.first <= e.last
          /\ e.start - Day < e.first /\ e.first < e.start + Day
      BY ScanAssumption
    <3>2. lo \in Int /\ hi \in Int
      BY <2>3
    <3>3. e.last > from /\ e.first < to
      BY <2>3, <2>6, <2>7, <3>1, <3>2
    <3> QED BY <2>4, <3>3 DEF InRange
  <2> QED BY <2>1, <2>7 DEF lo, hi
<1> QED BY <1>1, ScanInductive, PTL
=============================================================================
