--------------------------- MODULE UpdateStatement ---------------------------
(***************************************************************************)
(* One UPDATE from its scan to its last write, with other programs changing *)
(* the same calendar.  The scan of CalendarScan and the sink of             *)
(* CalendarUpdate are one pipeline: pages are fetched as the sink asks for  *)
(* rows, so the sink changes the very events the scan has still to list.    *)
(* For each row the event is read again, the SET list is applied to it      *)
(* column by column (EventMapping) and the whole event is written back.     *)
(*                                                                         *)
(* The filter is Lo <= start AND start < Hi, and every value of the SET     *)
(* list is a constant.  Retries, lost answers and the other kinds of        *)
(* statement are in EventsDml, the bounds of other filters in CalendarScan. *)
(***************************************************************************)
EXTENDS EventMapping, Sequences, FiniteSets

CONSTANTS
    Ids,            \* ids of events: numbers, by which the service breaks ties
    Bodies,         \* events as other programs write them
    None,           \* no event, no page, no row
    Columns,        \* the columns of the table, in order
    Sets,           \* SET lists: sequences of name and value
    Lo, Hi,         \* the filter's bounds
    Zone,           \* how far the calendar's time zone is ahead of UTC
    PageSize,       \* bound on the events in one page
    MaxChanges      \* bound: changes by other programs

Names == {Columns[k] : k \in DOMAIN Columns}
SetNames(set) == {set[k].name : k \in DOMAIN set}
Keys == TimeColumns \cup {WritableKey(n) : n \in StringColumns \cup BoolColumns \cup JsonColumns}
IsEvent(event) ==
    /\ event = [k \in DOMAIN event |-> event[k]]
    /\ DOMAIN event \subseteq Keys
    /\ \A k \in TimeColumns \cap DOMAIN event : event[k] \in Nodes

\* The service takes an event only with both ends.
Complete(event) == TimeColumns \subseteq DOMAIN event

\* The service begins an all-day event at midnight of a date without a zone.
ASSUME DatesAssumption ==
    \A b \in Bodies : \A k \in TimeColumns \cap DOMAIN b :
        b[k].form = "date" => b[k].wall % Day = 0 /\ b[k].ahead = 0

\* A page token is told from none.
ASSUME TokenAssumption == None \notin Int \X Ids

ASSUME UpdateAssumption ==
    /\ Ids \subseteq Nat /\ IsFiniteSet(Ids) /\ Lo \in Int /\ Hi \in Int /\ Zone \in Int
    /\ PageSize \in Nat \ {0} /\ MaxChanges \in Nat
    /\ None \notin Bodies
    /\ \A b \in Bodies : IsEvent(b) /\ Complete(b) /\ b["start"].form = b["end"].form
    /\ Columns \in Seq(Schema) /\ TimeColumns \cup {"all_day"} \subseteq Names
    /\ \A set \in Sets :
          /\ Len(set) \in Nat /\ DOMAIN set = 1 .. Len(set) /\ SetNames(set) \subseteq Names
          /\ \A j, k \in DOMAIN set : set[j].name = set[k].name => j = k
          /\ \A k \in DOMAIN set :
                /\ set[k].name \in TimeColumns => set[k].val \in Int \cup {Null}
                /\ set[k].name = "all_day" => set[k].val \in BOOLEAN \cup {Null}

VARIABLES
    store,          \* the service: the event under each id
    changes,        \* number of changes by others so far
    set, returning, \* the statement
    phase,
    items, more,    \* CalendarScanGlobalState: the rest of the page, next_page_token
    cursor,         \* the service: what the page token stands for
    rows,           \* rows on their way to the sink, and those of its chunk
    got, event,     \* CalendarUpdate::Sink: what Get returned, what will be written
    c,              \* the sink's column index
    returned,       \* one row per updated event; without RETURNING only counted
    had,            \* history: what an event has been since it was listed or read
    owed, spared    \* history: events that match the filter, that do not, and
                    \* that no other program has changed

scanVars == <<items, more, cursor>>
sinkVars == <<got, event, c, returned>>
stmtVars == <<set, returning>>
history == <<had, owed, spared>>
vars == <<store, changes, stmtVars, phase, scanVars, rows, sinkVars, history>>

-----------------------------------------------------------------------------
\* The service (external).

Present == {i \in Ids : store[i] # None}

\* An all-day event begins and ends at midnight of the calendar's zone.
Instant(node) == node.wall - (IF node.form = "date" THEN Zone ELSE node.ahead)

\* timeMin and timeMax, a day wider than the filter on both sides.
InRange(e) == Instant(e["end"]) > Lo - Day /\ Instant(e["start"]) < Hi + Day

\* orderBy=startTime, with ids where that does not decide.
Key(i) == <<Instant(store[i]["start"]), i>>
Before(k, l) == k[1] < l[1] \/ (k[1] = l[1] /\ k[2] < l[2])

\* Every page is asked for as if it were the first.
Bug_PageToken == None
PageToken == cursor

\* The events that a page token has still to bring.
Left == {i \in Present : InRange(store[i]) /\ (PageToken = None \/ Before(PageToken, Key(i)))}

\* The filter, by the column's value.
Matches(e) == LET start == ParseEventTime(e, "start") IN Lo <= start /\ start < Hi

\* The day on either side makes up for time zones.
ASSUME BoundsAssumption == \A b \in Bodies : Matches(b) => InRange(b)

\* Another program writes or deletes an event.  It might do so during the loop over
\* the columns as well, but that sends no request: to the statement it is the same
\* as before the loop or after it.
OtherChanges ==
    /\ changes < MaxChanges
    /\ phase \in {"scan", "get", "put"}
    /\ \E i \in Ids, b \in Bodies \cup {None} :
         /\ b # store[i]
         /\ store' = [store EXCEPT ![i] = b]
         /\ had' = [had EXCEPT ![i] = @ \cup ({b} \ {None})]
         /\ owed' = owed \ {i}
         /\ spared' = spared \ {i}
    /\ changes' = changes + 1
    /\ UNCHANGED <<stmtVars, phase, scanVars, rows, sinkVars>>

-----------------------------------------------------------------------------
\* The scan.

\* Events with a row on its way.
Waiting == {r.id : r \in items} \cup {rows[k].id : k \in DOMAIN rows}

\* The next page is fetched before the last one has been used up.
Bug_PageDue == more
PageDue == items = {} /\ more

\* CalendarScanInitGlobal asks for the first page and CalendarScan for the next
\* when it has used up the last.
FetchPage ==
    /\ phase = "scan" /\ PageDue
    /\ \E P \in SUBSET Left :
         /\ Cardinality(P) <= PageSize
         /\ \A p \in P, q \in Left \ P : Before(Key(p), Key(q))
         /\ items' = {[id |-> i, event |-> store[i]] : i \in P}
         /\ more' = (P # Left)
         /\ cursor' \in IF P = {} THEN {cursor} ELSE {Key(p) : p \in P}
         /\ \A p \in P : ~Before(cursor', Key(p))
         /\ had' = [i \in Ids |-> IF i \in P THEN {store[i]} \cup (IF i \in Waiting THEN had[i] ELSE {})
                                  ELSE had[i]]
    /\ UNCHANGED <<store, changes, stmtVars, phase, rows, sinkVars, owed, spared>>

\* The page's next event becomes a row, which the filter keeps or drops.
EmitRow ==
    /\ phase = "scan"
    /\ \E r \in items :
         /\ \A q \in items : Instant(r.event["start"]) <= Instant(q.event["start"])
         /\ items' = items \ {r}
         /\ rows' = IF Matches(r.event) THEN Append(rows, r) ELSE rows
    /\ UNCHANGED <<store, changes, stmtVars, phase, more, cursor, sinkVars, history>>

\* DuckDB (external) hands the rows it has to the sink: how many there are depends on
\* the size of a chunk and on what the filter holds back.
TakeChunk ==
    /\ phase = "scan" /\ rows # << >>
    /\ phase' = "get"
    /\ UNCHANGED <<store, changes, stmtVars, scanVars, rows, sinkVars, history>>

\* The scan is finished and every row has been through the sink.
Finish ==
    /\ phase = "scan" /\ items = {} /\ ~more /\ rows = << >>
    /\ phase' = "done"
    /\ UNCHANGED <<store, changes, stmtVars, scanVars, rows, sinkVars, history>>

-----------------------------------------------------------------------------
\* The sink.

Row == Head(rows)

\* With RETURNING the SET list is followed by all other columns, each with the value
\* the scan saw.
Last == IF returning THEN Len(set) + Len(Columns) ELSE Len(set)
Name(k) == IF k <= Len(set) THEN set[k].name ELSE Columns[k - Len(set)]

\* The values of a row of the chunk: of its last one, whichever is being updated.
Bug_Val(k) == IF k <= Len(set) THEN set[k].val ELSE ExtractField(rows[Len(rows)].event, Name(k))
Val(k) == IF k <= Len(set) THEN set[k].val ELSE ExtractField(Row.event, Name(k))
Repeated(k) == k > Len(set) /\ Name(k) \in SetNames(set)

\* An event's own form is forgotten.
Bug_AllDay == \E k \in 1 .. Last : Name(k) = "all_day" /\ ~Repeated(k) /\ Val(k) = TRUE

\* Whether start and end are written as dates: by the list if it has all_day, else as
\* they were.
AllDay ==
    IF \E k \in 1 .. Last : Name(k) = "all_day"
      THEN \E k \in 1 .. Last : Name(k) = "all_day" /\ ~Repeated(k) /\ Val(k) = TRUE
      ELSE ExistingAllDay(got)

\* The event is read again.
GetEvent ==
    /\ phase = "get"
    /\ store[Row.id] # None
    /\ got' = store[Row.id] /\ event' = store[Row.id]
    /\ c' = 1
    /\ phase' = "apply"
    /\ UNCHANGED <<store, changes, stmtVars, scanVars, rows, returned, history>>

\* The next column of the list.  A read-only one is passed over with RETURNING.
ApplySet ==
    /\ phase = "apply" /\ c <= Last
    /\ returning \/ Writable(Name(c), TRUE)
    /\ event' = IF Repeated(c) THEN event ELSE ApplyColumn(event, Name(c), Val(c), AllDay, TRUE)
    /\ c' = c + 1
    /\ UNCHANGED <<store, changes, stmtVars, phase, scanVars, rows, got, returned, history>>

\* ApplySet throws for a read-only column.
Refuse ==
    /\ phase = "apply" /\ c <= Last
    /\ ~returning /\ ~Writable(Name(c), TRUE)
    /\ phase' = "failed"
    /\ UNCHANGED <<store, changes, stmtVars, scanVars, rows, sinkVars, history>>

\* The whole list has been applied.
Applied ==
    /\ phase = "apply" /\ c > Last
    /\ phase' = "put"
    /\ UNCHANGED <<store, changes, stmtVars, scanVars, rows, sinkVars, history>>

\* The loop runs once more at the end of the chunk.
Bug_RowsLeft == rows # << >>
RowsLeft == Tail(rows) # << >>

\* The event is written back, and the answer becomes a row.
Update ==
    /\ phase = "put"
    /\ store[Row.id] # None /\ Complete(event)
    /\ store' = [store EXCEPT ![Row.id] = event]
    /\ had' = [had EXCEPT ![Row.id] = @ \cup {event}]
    /\ returned' = Append(returned,
           [id |-> Row.id, row |-> IF returning THEN EventToRow(event, Names, "calendar") ELSE << >>])
    /\ rows' = Tail(rows)
    /\ phase' = IF RowsLeft THEN "get" ELSE "scan"
    /\ UNCHANGED <<changes, stmtVars, scanVars, got, event, c, owed, spared>>

\* A request fails, among others because the event is gone or would be refused; the
\* exception ends the statement.
Fails ==
    /\ \/ phase = "scan" /\ PageDue
       \/ phase \in {"get", "put"}
    /\ phase' = "failed"
    /\ UNCHANGED <<store, changes, stmtVars, scanVars, rows, sinkVars, history>>

-----------------------------------------------------------------------------
Init ==
    /\ store \in [Ids -> Bodies \cup {None}]
    /\ set \in Sets /\ returning \in BOOLEAN
    /\ phase = "scan"
    /\ items = {} /\ more = TRUE /\ cursor = None
    /\ rows = << >> /\ returned = << >>
    /\ got = None /\ event = None /\ c = 1
    /\ changes = 0
    /\ had = [i \in Ids |-> {}]
    /\ owed = {i \in Present : Matches(store[i])}
    /\ spared = {i \in Present : ~Matches(store[i])}

Sink == GetEvent \/ ApplySet \/ Refuse \/ Applied \/ Update
Statement == FetchPage \/ EmitRow \/ TakeChunk \/ Finish \/ Sink \/ Fails
Next == OtherChanges \/ Statement

Spec == Init /\ [][Next]_vars

\* DuckDB runs the pipeline to its end.
FairSpec == Spec /\ WF_vars(Statement)

-----------------------------------------------------------------------------
\* Properties.

\* Every variable keeps its type; what is written is an event.
TypeOK ==
    /\ \A i \in Present : IsEvent(store[i]) /\ Complete(store[i])
    /\ changes \in 0 .. MaxChanges
    /\ set \in Sets /\ returning \in BOOLEAN
    /\ phase \in {"scan", "get", "apply", "put", "done", "failed"}
    /\ \A r \in items : r.id \in Ids /\ IsEvent(r.event) /\ Complete(r.event)
    /\ Cardinality(items) <= PageSize
    /\ more \in BOOLEAN
    /\ \A k \in DOMAIN rows : rows[k].id \in Ids /\ Matches(rows[k].event)
    /\ phase \in {"get", "apply", "put"} => rows # << >>
    /\ phase \in {"apply", "put"} => IsEvent(event) /\ c \in 1 .. Last + 1

\* The ends of an event are both dates or both dateTimes, and the service refuses
\* anything else: whichever of start, end and all_day a statement sets, in whatever
\* order, with RETURNING or without, and however other programs turn the event into
\* an all-day one or back while the statement runs.
NodesAgree ==
    \A i \in Present : store[i]["start"].form = store[i]["end"].form

Writes(i) == Cardinality({k \in DOMAIN returned : returned[k].id = i})

\* A statement that succeeded has updated every event that matches its filter and
\* that nobody else changed, although it lists events while it changes them, and it
\* has left alone those that do not match.
EveryMatchUpdated ==
    /\ phase = "done" => \A i \in owed : Writes(i) >= 1
    /\ \A i \in spared : Writes(i) = 0

\* No event is updated twice unless the statement sets its time: neither the cursor nor
\* RETURNING, which writes the start again, brings it up a second time.
UpdatedOnce ==
    (TimeColumns \cup {"all_day"}) \cap SetNames(set) = {} => \A i \in owed : Writes(i) <= 1

\* Columns that the statement does not set.
Unset ==
    {n \in Names : /\ Writable(n, TRUE) /\ n \notin SetNames(set)
                   /\ "all_day" \in SetNames(set) => n \notin TimeColumns}

\* Writing back the whole event brings no column but those set to a value of another
\* moment: without RETURNING the others are as the sink has just read them; with it
\* they are no older than the page that listed the event, each at some moment since.
\* What another program writes between the sink's read and its write is lost.
UnsetColumnsKept ==
    [][Update => \A n \in Unset :
          \E b \in IF returning THEN had[Row.id] ELSE {got} :
             ExtractField(store'[Row.id], n) = ExtractField(b, n)]_vars

\* What a column reads after it has been set to val in an event that was b.  An event
\* that is now all-day keeps the day alone, and a text that is not JSON is ignored.
ReadBack(n, val, b) ==
    CASE n \in TimeColumns /\ val # Null -> IF ExistingAllDay(event) THEN Midnight(val) ELSE val
      [] n \in JsonColumns /\ val \in {Malformed, Empty} -> ExtractField(b, n)
      [] n = "all_day" -> (val = TRUE)
      [] OTHER -> val

\* Every column set reads as it was set, whatever else the list has before or after
\* it: the start and the end next to all_day, and all of it with the whole row
\* written again by RETURNING.
SetColumnsReadBack ==
    [][Update => \A k \in DOMAIN set : Writable(set[k].name, TRUE) =>
          \E b \in IF returning THEN had[Row.id] ELSE {got} :
             ExtractField(store'[Row.id], set[k].name) = ReadBack(set[k].name, set[k].val, b)]_vars

\* The statement ends.  Events that it moves forward may be listed again, but not for
\* ever.
UpdateEnds == <>(phase \in {"done", "failed"})

\* What the event just read would become without RETURNING.
PlainUpdate ==
    LET all_day == IF "all_day" \in SetNames(set) THEN AllDay ELSE ExistingAllDay(got)
        upto[k \in 0 .. Len(set)] ==
          IF k = 0 THEN got ELSE ApplyColumn(upto[k - 1], set[k].name, set[k].val, all_day, TRUE)
    IN  upto[Len(set)]

\* "RETURNING expands the SET list to the whole row (unchanged columns carry their
\* existing values)": as long as no other program changes an event, RETURNING makes no
\* difference to what is written.
ReturningOnlyReports ==
    [][Update /\ changes = 0 =>
          \A n \in Names : ExtractField(event, n) = ExtractField(PlainUpdate, n)]_vars
=============================================================================
