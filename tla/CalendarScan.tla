---------------------------- MODULE CalendarScan ----------------------------
(***************************************************************************)
(* Reading a calendar table: the default window resolved by ATTACH, the     *)
(* bounds on `start` that ExtractTimeBound finds in a query's filter, the   *)
(* window CalendarScanInitGlobal asks the service for, and the loop of      *)
(* CalendarScan that turns pages of events into chunks of rows.  The filter *)
(* itself stays in the plan and is applied to the rows again, so the scan   *)
(* is right if it leaves no matching event out and delivers none twice.     *)
(*                                                                         *)
(* Times are integers.  The SQL value of an event's `start` need not be the *)
(* instant the service goes by: an all-day event starts at midnight of the  *)
(* calendar's time zone, and ParseEventTime reads its date as UTC midnight. *)
(***************************************************************************)
EXTENDS Integers, Sequences, FiniteSets

CONSTANTS
    Events,      \* events: SQL `start`, and first and last instant for the service
    Day,         \* ONE_DAY_MICROS
    TsMax,       \* largest value of an int64 timestamp; it stands for 'infinity'
    RfcMin, RfcMax,   \* the instants whose year has four digits, which RFC3339 can write
    NoInstant,   \* a text that is no RFC3339 instant
    Queries,     \* filters: sets of conjuncts
    Options,     \* ATTACH options
    Nows,        \* possible readings of the clock
    PageSize,    \* maxResults: bound on the events in one page
    ChunkSize    \* STANDARD_VECTOR_SIZE

Ts == -TsMax - 1 .. TsMax

Rfc == RfcMin .. RfcMax

Comparisons == {">", ">=", "<", "<=", "="}
Ops == Comparisons \cup {"between", "other"}

\* One conjunct of a filter.  `column` says that it is about the `start` column,
\* `flipped` that the column is on the right-hand side; `folds`, `folds2` say that
\* the literals `lit`, `lit2` are foldable to a timestamp.
Conjunct == [op : Ops, column : BOOLEAN, flipped : BOOLEAN,
             folds : BOOLEAN, lit : Ts, folds2 : BOOLEAN, lit2 : Ts]

Option == [start : BOOLEAN, end : BOOLEAN, length : BOOLEAN, s : Ts, e : Ts, w : Ts]

ASSUME ScanAssumption ==
    /\ Day \in Nat \ {0} /\ TsMax \in Nat /\ Day < TsMax
    /\ RfcMin \in Int /\ RfcMax \in Int /\ NoInstant \notin Int
    /\ -TsMax <= 2 * (RfcMin - Day) /\ 2 * (RfcMax + Day) <= TsMax
    /\ PageSize \in Nat \ {0} /\ ChunkSize \in Nat \ {0}
    /\ Nows \subseteq Rfc
    /\ Queries \subseteq SUBSET Conjunct
    /\ Options \subseteq Option
    /\ IsFiniteSet(Events)
    /\ \A e \in Events :
          /\ e.start \in Int /\ e.first \in Int /\ e.last \in Int
          /\ e.first <= e.last
          /\ e.start - Day < e.first /\ e.first < e.start + Day

VARIABLES
    pc,
    win,        \* the catalog's default window
    query,      \* the filter
    todo,       \* conjuncts CalendarComplexFilter has still to look at
    bind,       \* has_lower, time_min, has_upper, time_max of the bind data
    range,      \* the bounds sent to the service
    rest,       \* the service: what the page token stands for
    items, item_index, next_page_token, finished,   \* CalendarScanGlobalState
    chunk,      \* the output chunk being filled
    rows        \* the rows of the chunks delivered

planVars == <<win, query, todo, bind>>
scanVars == <<rest, items, item_index, next_page_token, finished, chunk, rows>>
vars == <<pc, planVars, range, scanVars>>

-----------------------------------------------------------------------------
\* Bounds.

\* int64 addition, which wraps round in the builds at hand.
Wrapped(x) ==
    IF x > TsMax THEN x - 2 * (TsMax + 1)
    ELSE IF x < -TsMax - 1 THEN x + 2 * (TsMax + 1)
    ELSE x

\* Timestamp::ToString, the spaces made T's, and a Z: an instant of the years 1 to
\* 9999 is read as such; another has an era, a longer year or the word infinity.
Printed(t) == IF t \in Rfc THEN t ELSE NoInstant

\* The bounds of the filter sent as they are.
Bug_FormatUnbuffered(ts, buffer) == Printed(Wrapped(ts))

FormatWithBuffer(ts, buffer) == Printed(Wrapped(ts + buffer))

Bounds == [has_lower : BOOLEAN, time_min : Rfc \cup {NoInstant},
           has_upper : BOOLEAN, time_max : Rfc \cup {NoInstant}]
NoBounds == [has_lower |-> FALSE, time_min |-> NoInstant, has_upper |-> FALSE, time_max |-> NoInstant]

ApplyLowerBound(ts, b) ==
    [b EXCEPT !.has_lower = TRUE, !.time_min = FormatWithBuffer(ts, -Day)]

ApplyUpperBound(ts, b) ==
    [b EXCEPT !.has_upper = TRUE, !.time_max = FormatWithBuffer(ts, Day)]

FlipComparison(op) ==
    CASE op = ">"  -> "<"
      [] op = ">=" -> "<="
      [] op = "<"  -> ">"
      [] op = "<=" -> ">="
      [] OTHER     -> op

\* A value on the left-hand side is taken for one on the right.
Bug_ExtractUnflipped(c, b) ==
    LET low  == IF c.op \in {">", ">=", "="} THEN ApplyLowerBound(c.lit, b) ELSE b
    IN  IF c.column /\ c.op \in Comparisons /\ c.folds
          THEN IF c.op \in {"<", "<=", "="} THEN ApplyUpperBound(c.lit, low) ELSE low
          ELSE b

\* ExtractTimeBound for one conjunct; a conjunction's are taken one by one, each
\* overwriting the bounds found before.
ExtractTimeBound(c, b) ==
    LET op      == IF c.flipped THEN FlipComparison(c.op) ELSE c.op
        low     == IF op \in {">", ">=", "="} THEN ApplyLowerBound(c.lit, b) ELSE b
        between == IF c.folds THEN ApplyLowerBound(c.lit, b) ELSE b
    IN  CASE c.column /\ c.op = "between" ->
                IF c.folds2 THEN ApplyUpperBound(c.lit2, between) ELSE between
          [] c.column /\ c.op \in Comparisons /\ c.folds ->
                IF op \in {"<", "<=", "="} THEN ApplyUpperBound(c.lit, low) ELSE low
          [] OTHER -> b

\* Interval::Add throws where the sum is no timestamp.
StaticWindow(lo, hi) ==
    IF lo \in Ts /\ hi \in Ts THEN [kind |-> "static", lo |-> lo, hi |-> hi]
                              ELSE [kind |-> "error", lo |-> 0, hi |-> 0]

\* CalendarAttach: which default window the options ask for; a dynamic one is
\* given by its length.
ResolveWindow(o) ==
    CASE ~o.start /\ ~o.end /\ ~o.length -> [kind |-> "none", lo |-> 0, hi |-> 0]
      [] ~o.start /\ ~o.end /\ o.length  -> [kind |-> "dynamic", lo |-> o.w, hi |-> o.w]
      [] o.start /\ o.end /\ ~o.length   -> StaticWindow(o.s, o.e)
      [] o.start /\ ~o.end /\ o.length   -> StaticWindow(o.s, o.s + o.w)
      [] ~o.start /\ o.end /\ o.length   -> StaticWindow(o.e - o.w, o.e)
      [] OTHER                           -> [kind |-> "error", lo |-> 0, hi |-> 0]

\* int64 division by two.
Half(x) == IF x >= 0 THEN x \div 2 ELSE -((-x) \div 2)

\* The default window a scan without bounds of its own uses, at time now.
DefaultLo(w, now) == IF w.kind = "dynamic" THEN now - Half(w.lo) ELSE w.lo
DefaultHi(w, now) == IF w.kind = "dynamic" THEN now + Half(w.lo) ELSE w.hi

DefaultRange(w, now) ==
    [has_lower |-> TRUE, time_min |-> FormatWithBuffer(DefaultLo(w, now), -Day),
     has_upper |-> TRUE, time_max |-> FormatWithBuffer(DefaultHi(w, now), Day)]

\* events.list (external) refuses a timeMin or timeMax that is no RFC3339 instant.
Accepted(r) ==
    /\ r.has_lower => r.time_min # NoInstant
    /\ r.has_upper => r.time_max # NoInstant

\* events.list (external): timeMin bounds an event's end from below and timeMax
\* its start from above, both exclusively.
InRange(e, r) ==
    /\ r.has_lower => e.last > r.time_min
    /\ r.has_upper => e.first < r.time_max

\* orderBy=startTime
Ordered(s) == \A j, k \in DOMAIN s : j < k => s[j].first <= s[k].first

Listings(r) ==
    LET S == {e \in Events : InRange(e, r)}
    IN  {s \in [1 .. Cardinality(S) -> S] : {s[k] : k \in DOMAIN s} = S /\ Ordered(s)}

-----------------------------------------------------------------------------
\* Planning.

\* ATTACH resolves the default window or fails.
Attach ==
    /\ pc = "attach"
    /\ \E o \in Options :
         /\ win' = ResolveWindow(o)
         /\ pc' = IF ResolveWindow(o).kind = "error" THEN "failed" ELSE "plan"
    /\ UNCHANGED <<query, todo, bind, range, scanVars>>

\* A query is planned: the bind data starts out without bounds.
Plan ==
    /\ pc = "plan"
    /\ query' \in Queries
    /\ todo' = query'
    /\ bind' = NoBounds
    /\ pc' = "extract"
    /\ UNCHANGED <<win, range, scanVars>>

\* One more conjunct; the optimizer hands them over in whatever order.
Extract ==
    /\ pc = "extract"
    /\ \E c \in todo :
         /\ todo' = todo \ {c}
         /\ bind' = ExtractTimeBound(c, bind)
    /\ UNCHANGED <<pc, win, query, range, scanVars>>

-----------------------------------------------------------------------------
\* Scanning.

\* One answer of events.list: some of what is left, with a page token if that
\* was not all; a page may be short, or even empty.
Page(left) ==
    \E n \in 0 .. PageSize :
        /\ n <= Len(left)
        /\ items' = SubSeq(left, 1, n)
        /\ rest' = SubSeq(left, n + 1, Len(left))
        /\ next_page_token' = (n < Len(left))
        /\ item_index' = 0

\* CalendarScanInitGlobal: neither bound and no default window is an error;
\* otherwise the first page is fetched, unless the service refuses the bounds.
InitGlobal ==
    /\ pc = "extract"
    /\ todo = {}
    /\ \/ /\ ~bind.has_lower /\ ~bind.has_upper /\ win.kind = "none"
          /\ pc' = "failed"
          /\ UNCHANGED <<range, rest, items, item_index, next_page_token>>
       \/ /\ \/ /\ bind.has_lower \/ bind.has_upper
                /\ range' = bind
             \/ /\ ~bind.has_lower /\ ~bind.has_upper /\ win.kind # "none"
                /\ \E now \in Nows : range' = DefaultRange(win, now)
          /\ \/ /\ Accepted(range')
                /\ pc' = "scan"
                /\ \E s \in Listings(range') : Page(s)
             \/ /\ ~Accepted(range')
                /\ pc' = "failed"
                /\ UNCHANGED <<rest, items, item_index, next_page_token>>
    /\ UNCHANGED <<planVars, finished, chunk, rows>>

\* The first page cannot be fetched.
InitGlobalFails ==
    /\ pc = "extract"
    /\ todo = {}
    /\ bind.has_lower \/ bind.has_upper \/ win.kind # "none"
    /\ pc' = "failed"
    /\ UNCHANGED <<planVars, range, scanVars>>

\* The chunk is handed over as soon as the page that filled it ends.
Bug_FetchPageReturns ==
    /\ pc = "scan" /\ ~finished /\ Len(chunk) < ChunkSize
    /\ item_index >= Len(items)
    /\ next_page_token
    /\ Page(rest)
    /\ pc' = "chunk"
    /\ UNCHANGED <<planVars, range, finished, chunk, rows>>

\* The loop of CalendarScan at the end of a page, with another to come.
FetchPage ==
    /\ pc = "scan" /\ ~finished /\ Len(chunk) < ChunkSize
    /\ item_index >= Len(items)
    /\ next_page_token
    /\ Page(rest)
    /\ UNCHANGED <<pc, planVars, range, finished, chunk, rows>>

\* A page that could not be fetched: the exception ends the query.
FetchFails ==
    /\ pc = "scan" /\ ~finished /\ Len(chunk) < ChunkSize
    /\ item_index >= Len(items)
    /\ next_page_token
    /\ pc' = "failed"
    /\ UNCHANGED <<planVars, range, scanVars>>

\* One row more than the chunk holds.
Bug_EmitRowOverfull ==
    /\ pc = "scan" /\ ~finished /\ Len(chunk) <= ChunkSize
    /\ item_index < Len(items)
    /\ chunk' = Append(chunk, items[item_index + 1])
    /\ item_index' = item_index + 1
    /\ UNCHANGED <<pc, planVars, range, rest, items, next_page_token, finished, rows>>

\* The next event of the page becomes the next row of the chunk.
EmitRow ==
    /\ pc = "scan" /\ ~finished /\ Len(chunk) < ChunkSize
    /\ item_index < Len(items)
    /\ chunk' = Append(chunk, items[item_index + 1])
    /\ item_index' = item_index + 1
    /\ UNCHANGED <<pc, planVars, range, rest, items, next_page_token, finished, rows>>

\* The end of the last page is not noted.
Bug_LastPageGoesOn ==
    /\ pc = "scan" /\ ~finished /\ Len(chunk) < ChunkSize
    /\ item_index >= Len(items)
    /\ ~next_page_token
    /\ UNCHANGED vars

\* The last page is used up.
LastPageEnds ==
    /\ pc = "scan" /\ ~finished /\ Len(chunk) < ChunkSize
    /\ item_index >= Len(items)
    /\ ~next_page_token
    /\ finished' = TRUE
    /\ UNCHANGED <<pc, planVars, range, rest, items, item_index, next_page_token, chunk, rows>>

\* CalendarScan returns: the chunk is full, or the scan is finished.
ReturnChunk ==
    /\ pc = "scan"
    /\ finished \/ Len(chunk) = ChunkSize
    /\ pc' = "chunk"
    /\ UNCHANGED <<planVars, range, scanVars>>

\* DuckDB (external) takes the chunk and calls again; an empty one ends the scan.
TakeChunk ==
    /\ pc = "chunk"
    /\ pc' = IF chunk = << >> THEN "done" ELSE "scan"
    /\ rows' = rows \o chunk
    /\ chunk' = << >>
    /\ UNCHANGED <<planVars, range, rest, items, item_index, next_page_token, finished>>

-----------------------------------------------------------------------------
Init ==
    /\ pc = "attach"
    /\ win = [kind |-> "none", lo |-> 0, hi |-> 0]
    /\ query = {}
    /\ todo = {}
    /\ bind = NoBounds
    /\ range = NoBounds
    /\ rest = << >> /\ items = << >> /\ item_index = 0
    /\ next_page_token = FALSE /\ finished = FALSE
    /\ chunk = << >> /\ rows = << >>

Next ==
    \/ Attach \/ Plan \/ Extract \/ InitGlobal \/ InitGlobalFails
    \/ FetchPage \/ FetchFails \/ EmitRow \/ LastPageEnds \/ ReturnChunk \/ TakeChunk

Spec == Init /\ [][Next]_vars

\* DuckDB pulls chunks until the scan ends.
FairSpec == Spec /\ WF_vars(Next)

-----------------------------------------------------------------------------
\* Properties.

\* Every variable keeps its type.
TypeOK ==
    /\ pc \in {"attach", "plan", "extract", "scan", "chunk", "done", "failed"}
    /\ win \in [kind : {"none", "dynamic", "static", "error"}, lo : Int, hi : Int]
    /\ query \in SUBSET Conjunct
    /\ todo \in SUBSET query
    /\ bind \in Bounds
    /\ range \in Bounds
    /\ rest \in Seq(Events) /\ items \in Seq(Events) /\ chunk \in Seq(Events) /\ rows \in Seq(Events)
    /\ item_index \in 0 .. Len(items)
    /\ Len(items) <= PageSize /\ Len(chunk) <= ChunkSize
    /\ next_page_token \in BOOLEAN /\ finished \in BOOLEAN

\* What SQL makes of a conjunct.  Of one that is not understood (another column, a
\* disjunction, a side that does not fold) nothing is assumed: it may let any
\* event through.
Compares(x, op, y) ==
    CASE op = ">" -> x > y [] op = ">=" -> x >= y [] op = "<" -> x < y
      [] op = "<=" -> x <= y [] OTHER -> x = y

Satisfies(e, c) ==
    CASE c.column /\ c.op = "between" ->
            (c.folds => c.lit <= e.start) /\ (c.folds2 => e.start <= c.lit2)
      [] c.column /\ c.op \in Comparisons /\ c.folds ->
            IF c.flipped THEN Compares(c.lit, c.op, e.start) ELSE Compares(e.start, c.op, c.lit)
      [] OTHER -> TRUE

Matches(e, q) == \A c \in q : Satisfies(e, c)

\* "exactness is guaranteed": whatever bounds have been taken from the conjuncts
\* looked at so far, in whatever order, no event that satisfies the whole filter is
\* outside of bounds the service accepts, all-day events in any time zone and
\* literals at the ends of int64 included.
BoundsCoverFilter ==
    Accepted(bind) => \A e \in Events : Matches(e, query) => InRange(e, bind)

\* A scan that ended delivered the right rows: if the filter bounds `start`, every
\* event that satisfies it; if the default window was used, every event that starts
\* in that window; and, across page and chunk boundaries, none twice.
ScanIsExact ==
    pc = "done" =>
        /\ \A e \in Events :
              Matches(e, query) /\ InRange(e, range) => \E k \in DOMAIN rows : rows[k] = e
        /\ bind.has_lower \/ bind.has_upper =>
              \A e \in Events : Matches(e, query) => \E k \in DOMAIN rows : rows[k] = e
        /\ \A j, k \in DOMAIN rows : rows[j] = rows[k] => j = k
        /\ Ordered(rows)

\* Without a bound on `start` nothing is read, unless ATTACH gave a default window;
\* and then every event that starts in that window is asked for.
DefaultWindowRules ==
    pc \in {"scan", "chunk", "done"} /\ ~bind.has_lower /\ ~bind.has_upper =>
        /\ win.kind \in {"dynamic", "static"}
        /\ \E now \in Nows :
              \A e \in Events :
                  DefaultLo(win, now) <= e.start /\ e.start <= DefaultHi(win, now)
                      => InRange(e, range)

\* "only a best-effort API-side narrowing hint": no bound taken from a filter makes
\* the service refuse the request, and with it the query fail.
HintIsHarmless == pc = "extract" /\ todo = {} => Accepted(bind)

\* A scan ends.
ScanEnds == pc = "extract" ~> pc \in {"done", "failed"}
=============================================================================
