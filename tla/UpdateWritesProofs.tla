-------------------------- MODULE UpdateWritesProofs --------------------------
(* How often an UPDATE writes an event, and what it writes, for any number of *)
(* events, pages, columns and SET lists.  One that sets no time writes each    *)
(* event once: RETURNING has the start written again, as the instant it was,   *)
(* so that the event stays behind the cursor.  What is set reads as it was     *)
(* set, and what is not set keeps a value that it had.                         *)
EXTENDS UpdateStatementProofs

\* The statement sets neither a time nor all_day.
TimesUnset == (TimeColumns \cup {"all_day"}) \cap SetNames(set) = {}

\* The start that an event still has begins at the instant it did, as a date or not.
SameStart(e, g) ==
    "start" \in DOMAIN e => /\ e["start"].form = g["start"].form
                            /\ Instant(e["start"]) = Instant(g["start"])

\* An all-day event starts at midnight.
OnMidnight(g) == g["start"].form = "date" => g["start"].wall % Day = 0 /\ g["start"].ahead = 0

\* An event's place in the listing is known.
KeyOK(i) == i \in Ids /\ Key(i) \in Int \X Ids

\* The cursor has gone past an event.
Passed(i) == cursor # None /\ ~Before(cursor, Key(i))

\* What a row of an event says, while the event has not been updated.
ItemOK(i) == \A r \in items : r.id = i => r.event = store[i] /\ ~InRows(i) /\ ~Updated(i)
RowOK(i) == \A k \in DOMAIN rows : rows[k].id = i => rows[k].event = store[i] /\ ~Updated(i)

\* There is one row of an event, and one update.
SingleRow(i) == \A k, l \in DOMAIN rows : rows[k].id = i /\ rows[l].id = i => k = l
SingleUpdate(i) == \A k, l \in DOMAIN returned : returned[k].id = i /\ returned[l].id = i => k = l

\* An event of which there is a row, or was, is behind the cursor.
ListedOnce(i) == (\E r \in items : r.id = i) \/ InRows(i) \/ Updated(i) => Passed(i)

OnceOK == \A i \in owed : KeyOK(i) /\ ItemOK(i) /\ RowOK(i) /\ SingleRow(i) /\ SingleUpdate(i) /\ ListedOnce(i)

\* Until it is updated an event is as another program wrote it.
BodiesOK == \A i \in owed : ~Updated(i) => store[i] \in Bodies

\* The loop over the columns leaves the start where it was.
StartOK ==
    phase \in {"apply", "put"} /\ Row.id \in owed =>
        got = store[Row.id] /\ SameStart(event, got)

CursorOK ==
    /\ cursor = None \/ cursor \in Int \X Ids
    /\ \A r \in items : r = [id |-> r.id, event |-> r.event]

OnceInv == TypeInv /\ CursorOK /\ (TimesUnset => OnceOK /\ BodiesOK /\ StartOK)

-----------------------------------------------------------------------------
\* How the columns of a time are read.
LEMMA ReadTimes ==
    /\ \A e : ExtractField(e, "start") = ParseEventTime(e, "start")
    /\ \A e : ExtractField(e, "all_day") = ExistingAllDay(e)
BY DEF ExtractField, TimeColumns, StringKeys, RawKeys, BoolKeys

\* Writing a column keeps the start, if the style is that of the event and the start
\* itself is written as it is read.
LEMMA ApplySame ==
    ASSUME NEW e, NEW g, IsEvent(e), IsEvent(g), "start" \in DOMAIN g, OnMidnight(g), SameStart(e, g),
           NEW name, NEW val, NEW all_day, all_day = (g["start"].form = "date"),
           name = "start" => val = ParseEventTime(g, "start")
    PROVE  SameStart(ApplyColumn(e, name, val, all_day, TRUE), g)
<1> DEFINE r == ApplyColumn(e, name, val, all_day, TRUE)
<1>0. /\ g["start"] \in Nodes /\ g["start"].form \in {"date", "dateTime"}
      /\ g["start"].wall \in Int /\ g["start"].ahead \in Int
      /\ all_day \in BOOLEAN /\ Zone \in Int /\ Day \in Nat \ {0}
  BY UpdateAssumption, DayAssumption DEF IsEvent, TimeColumns, Nodes, Form
<1>1. CASE ~Writable(name, TRUE)
  <2>1. r = e
    BY <1>1 DEF ApplyColumn, Writable
  <2> QED BY <2>1
<1>2. CASE name = "all_day"
  <2>1. r = ApplyAllDay(e, all_day)
    BY <1>2, KeysApart, TimeKeys DEF ApplyColumn, Writable
  <2> DEFINE s == ReencodeTimeNode(e, "start", all_day)
  <2>2. DOMAIN s = DOMAIN e /\ SameStart(s, g)
    <3>1. CASE "start" \notin DOMAIN e
      BY <3>1 DEF ReencodeTimeNode, SameStart
    <3>2. CASE "start" \in DOMAIN e
      <4>1. e["start"] \in Nodes /\ e["start"].form = g["start"].form
            /\ Instant(e["start"]) = Instant(g["start"])
        BY <3>2 DEF IsEvent, TimeColumns, SameStart
      <4>2. CASE all_day
        <5>1. s = With(e, "start", Node("date", Midnight(e["start"].wall), 0))
          BY <3>2, <4>2 DEF ReencodeTimeNode
        <5>2. e["start"].wall = g["start"].wall /\ g["start"].wall % Day = 0
          <6>1. g["start"].form = "date" /\ e["start"].form = "date"
            BY <4>1, <4>2
          <6>2. e["start"].wall \in Int
            BY <4>1 DEF Nodes
          <6>3. e["start"].wall - Zone = g["start"].wall - Zone
            BY <4>1, <6>1 DEF Instant
          <6>4. e["start"].wall = g["start"].wall
            BY <1>0, <6>2, <6>3
          <6> QED BY <6>1, <6>4 DEF OnMidnight
        <5>3. Midnight(e["start"].wall) = g["start"].wall
          BY <1>0, <5>2 DEF Midnight
        <5>4. s["start"].form = "date" /\ s["start"].wall = g["start"].wall /\ DOMAIN s = DOMAIN e
          BY <3>2, <5>1, <5>3 DEF With, Node
        <5> HIDE DEF s
        <5> QED BY <4>2, <5>4 DEF SameStart, Instant
      <4>3. CASE ~all_day
        <5>1. e["start"].form = "dateTime"
          BY <1>0, <4>1, <4>3
        <5>2. s = With(e, "start", e["start"])
          BY <3>2, <4>3, <5>1 DEF ReencodeTimeNode
        <5>3. DOMAIN s = DOMAIN e /\ s["start"] = e["start"]
          BY <3>2, <5>2 DEF With
        <5> HIDE DEF s
        <5> QED BY <4>1, <5>3 DEF SameStart
      <4> QED BY <1>0, <4>2, <4>3
    <3> QED BY <3>1, <3>2
  <2>3. SameStart(ReencodeTimeNode(s, "end", all_day), g)
    <3> HIDE DEF s
    <3>1. CASE "end" \notin DOMAIN s
      BY <2>2, <3>1 DEF ReencodeTimeNode
    <3>2. CASE "end" \in DOMAIN s
      <4>1. PICK node : ReencodeTimeNode(s, "end", all_day) = With(s, "end", node)
        BY <3>2 DEF ReencodeTimeNode
      <4>2. "start" \in DOMAIN With(s, "end", node) =>
              "start" \in DOMAIN s /\ With(s, "end", node)["start"] = s["start"]
        BY DEF With
      <4> QED BY <2>2, <4>1, <4>2 DEF SameStart
    <3> QED BY <3>1, <3>2
  <2> QED BY <2>1, <2>3 DEF ApplyAllDay
<1>3. CASE name = "start"
  <2>1. name \in TimeColumns /\ name \notin StringColumns \cup BoolColumns \cup JsonColumns
        /\ name # "all_day" /\ name # "event_id" /\ WritableKey(name) = name /\ Writable(name, TRUE)
    BY <1>3, TimeKeys DEF Writable, TimeColumns
  <2>2. CASE val = Null
    <3>1. r = Without(e, "start")
      BY <1>3, <2>1, <2>2 DEF ApplyColumn
    <3> QED BY <3>1 DEF Without, SameStart
  <2>3. CASE val # Null
    <3>1. r = With(e, "start", TimeNode(val, all_day))
      BY <1>3, <2>1, <2>3 DEF ApplyColumn
    <3>2. val = g["start"].wall - g["start"].ahead
      BY <1>3 DEF ParseEventTime
    <3>3. /\ TimeNode(val, all_day).form = g["start"].form
          /\ Instant(TimeNode(val, all_day)) = Instant(g["start"])
      <4>1. CASE all_day
        <5>1. val = g["start"].wall /\ g["start"].wall % Day = 0
          <6>1. g["start"].form = "date"
            BY <4>1
          <6>2. g["start"].wall % Day = 0 /\ g["start"].ahead = 0
            BY <6>1 DEF OnMidnight
          <6> QED BY <1>0, <3>2, <6>2
        <5>2. Midnight(val) = g["start"].wall
          <6>1. val % Day = 0
            BY <5>1
          <6>2. Midnight(val) = val - 0
            BY <6>1 DEF Midnight
          <6> QED BY <1>0, <5>1, <6>2
        <5>3. TimeNode(val, all_day) = [form |-> "date", wall |-> g["start"].wall, ahead |-> 0]
          BY <4>1, <5>2 DEF TimeNode, Node
        <5>4. g["start"].form = "date"
          BY <4>1
        <5>5. TimeNode(val, all_day).form = "date" /\ TimeNode(val, all_day).wall = g["start"].wall
          BY <5>3
        <5> HIDE DEF TimeNode
        <5> QED BY <5>4, <5>5 DEF Instant
      <4>2. CASE ~all_day
        <5>1. TimeNode(val, all_day) = [form |-> "dateTime", wall |-> val, ahead |-> 0]
          BY <4>2 DEF TimeNode, Node
        <5>2. g["start"].form = "dateTime"
          BY <1>0, <4>2
        <5> QED BY <1>0, <3>2, <5>1, <5>2 DEF Instant
      <4> QED BY <1>0, <4>1, <4>2
    <3>4. r["start"] = TimeNode(val, all_day)
      BY <3>1 DEF With
    <3> HIDE DEF r
    <3>5. SameStart(r, g)
      BY <3>3, <3>4 DEF SameStart
    <3> QED BY <3>5 DEF r
  <2> QED BY <2>2, <2>3
<1>4. CASE name \in (StringColumns \cup BoolColumns \cup JsonColumns) \cup {"end"}
  <2> DEFINE key == WritableKey(name)
  <2>1. key # "start" /\ name # "all_day" /\ name # "event_id" /\ Writable(name, TRUE)
    BY <1>4, KeysApart, TimeKeys DEF Writable, TimeColumns
  <2>2. r = e \/ r = Without(e, key) \/ \E v : r = With(e, key, v)
    <3>1. CASE name = "end"
      <4>1. name \in TimeColumns /\ name \notin StringColumns \cup BoolColumns \cup JsonColumns /\ key = name
        BY <3>1, TimeKeys DEF TimeColumns
      <4> HIDE DEF key
      <4>2. CASE val = Null
        BY <2>1, <4>1, <4>2 DEF ApplyColumn, key
      <4>3. CASE val # Null
        <5>1. r = With(e, key, TimeNode(val, all_day))
          BY <2>1, <4>1, <4>3 DEF ApplyColumn
        <5> QED BY <5>1
      <4> QED BY <4>2, <4>3
    <3>2. CASE name \in StringColumns \cup BoolColumns \cup JsonColumns
      <4>1. name \notin TimeColumns
        BY <3>2, TimeKeys
      <4> HIDE DEF key
      <4>2. CASE val = Null
        BY <2>1, <3>2, <4>1, <4>2 DEF ApplyColumn, key
      <4>3. CASE val # Null /\ name \in StringColumns \cup BoolColumns
        BY <2>1, <3>2, <4>1, <4>3, KeysApart DEF ApplyColumn, key
      <4>4. CASE val # Null /\ name \in JsonColumns /\ name \notin StringColumns \cup BoolColumns
        <5>1. r = SetJsonPassthrough(e, key, val)
          BY <2>1, <3>2, <4>1, <4>4 DEF ApplyColumn, key
        <5> QED BY <5>1 DEF SetJsonPassthrough
      <4> QED BY <3>2, <4>2, <4>3, <4>4
    <3> QED BY <1>4, <3>1, <3>2
  <2> HIDE DEF r, key
  <2>3. "start" \in DOMAIN r => "start" \in DOMAIN e /\ r["start"] = e["start"]
    BY <2>1, <2>2 DEF With, Without
  <2>4. SameStart(r, g)
    BY <2>3 DEF SameStart
  <2> QED BY <2>4 DEF r
<1> QED BY <1>1, <1>2, <1>3, <1>4 DEF Writable, TimeColumns

-----------------------------------------------------------------------------
\* Keys are pairs that Before orders.
LEMMA KeyType ==
    ASSUME TypeInv, NEW i \in Present
    PROVE  Key(i) \in Int \X Ids
<1>1. i \in Ids /\ store[i]["start"] \in Nodes
  BY DEF TypeInv, TypeOK, Present, IsEvent, Complete, TimeColumns
<1>2. Instant(store[i]["start"]) \in Int
  BY <1>1, UpdateAssumption DEF Instant, Nodes
<1> QED BY <1>1, <1>2 DEF Key

LEMMA BeforeTrans ==
    ASSUME NEW k \in Int \X Ids, NEW l \in Int \X Ids, NEW m \in Int \X Ids,
           Before(k, l), Before(l, m)
    PROVE  Before(k, m)
<1>1. k[1] \in Int /\ l[1] \in Int /\ m[1] \in Int /\ k[2] \in Int /\ l[2] \in Int /\ m[2] \in Int
  <2>1. Ids \subseteq Int
    BY UpdateAssumption
  <2> QED BY <2>1
<1> QED BY <1>1 DEF Before

LEMMA OnceInit == Init => OnceInv
<1> SUFFICES ASSUME Init PROVE OnceInv
  OBVIOUS
<1>1. DOMAIN rows = {} /\ DOMAIN returned = {} /\ items = {} /\ cursor = None /\ phase = "scan"
  BY EmptySeq DEF Init
<1>2. \A i \in owed : KeyOK(i)
  BY KeyType, TypeInit DEF Init, KeyOK, Present
<1>3. OnceOK
  BY <1>1, <1>2 DEF OnceOK, ItemOK, RowOK, SingleRow, SingleUpdate, ListedOnce, InRows, Updated
<1>4. BodiesOK
  BY DEF Init, BodiesOK, Present
<1> QED BY <1>1, <1>3, <1>4, TypeInit DEF OnceInv, CursorOK, StartOK

\* The cursor is the key of an event.
LEMMA CursorStep ==
    ASSUME OnceInv, [Next]_vars
    PROVE  CursorOK'
<1>1. CASE FetchPage
  <2>1. PICK P \in SUBSET Left :
          /\ items' = {[id |-> i, event |-> store[i]] : i \in P}
          /\ cursor' \in IF P = {} THEN {cursor} ELSE {Key(p) : p \in P}
    BY <1>1 DEF FetchPage
  <2>2. \A p \in P : Key(p) \in Int \X Ids
    BY KeyType DEF Left, OnceInv
  <2>3. cursor' = None \/ cursor' \in Int \X Ids
    BY <2>1, <2>2 DEF OnceInv, CursorOK
  <2> QED BY <2>1, <2>3 DEF CursorOK
<1>2. CASE EmitRow
  BY <1>2 DEF EmitRow, OnceInv, CursorOK
<1>3. CASE OtherChanges \/ TakeChunk \/ Finish \/ Sink \/ Fails \/ UNCHANGED vars
  BY <1>3 DEF OtherChanges, TakeChunk, Finish, Sink, GetEvent, ApplySet, Refuse, Applied, Update, Fails,
              vars, scanVars, OnceInv, CursorOK
<1> QED BY <1>1, <1>2, <1>3 DEF Next, Statement

\* Fetching a page leaves passed events behind, and passes those of the page.
LEMMA FetchOnce ==
    ASSUME OnceInv, OnceOK, FetchPage
    PROVE  OnceOK'
<1>1. /\ items = {} /\ UNCHANGED <<store, rows, returned, owed>>
  BY DEF FetchPage, PageDue, sinkVars
<1>2. PICK P \in SUBSET Left :
        /\ items' = {[id |-> i, event |-> store[i]] : i \in P}
        /\ cursor' \in IF P = {} THEN {cursor} ELSE {Key(p) : p \in P}
        /\ \A p \in P : ~Before(cursor', Key(p))
  BY DEF FetchPage
<1>3. \A p \in P : Key(p) \in Int \X Ids /\ Key(p) # None
  <2>1. \A p \in P : Key(p) \in Int \X Ids
    BY KeyType DEF Left, OnceInv
  <2> QED BY <2>1, TokenAssumption
<1> SUFFICES ASSUME NEW i \in owed
             PROVE  /\ KeyOK(i)' /\ ItemOK(i)' /\ RowOK(i)' /\ SingleRow(i)' /\ SingleUpdate(i)'
                    /\ ListedOnce(i)'
  BY <1>1 DEF OnceOK
<1>4. KeyOK(i) /\ RowOK(i) /\ SingleRow(i) /\ SingleUpdate(i) /\ ListedOnce(i)
  BY DEF OnceOK
<1>5. Key(i)' = Key(i) /\ (InRows(i)' <=> InRows(i)) /\ (Updated(i)' <=> Updated(i))
  BY <1>1 DEF Key, InRows, Updated
<1>6. Passed(i) => Passed(i)'
  <2> SUFFICES ASSUME Passed(i) PROVE cursor' # None /\ ~Before(cursor', Key(i))
    BY <1>5 DEF Passed
  <2>1. CASE P = {}
    BY <1>2, <2>1 DEF Passed
  <2>2. CASE P # {}
    <3>1. PICK p \in P : cursor' = Key(p)
      BY <1>2, <2>2
    <3>2. cursor \in Int \X Ids
      BY DEF OnceInv, CursorOK, Passed
    <3>3. Before(cursor, Key(p))
      BY DEF Left, PageToken, Passed
    <3>4. ~Before(Key(p), Key(i))
      BY <1>3, <1>4, <3>2, <3>3, BeforeTrans DEF Passed, KeyOK
    <3> QED BY <1>3, <3>1, <3>4
  <2> QED BY <2>1, <2>2
<1>7. i \in P => Passed(i)' /\ ~InRows(i) /\ ~Updated(i)
  <2> SUFFICES ASSUME i \in P PROVE Passed(i)' /\ ~InRows(i) /\ ~Updated(i)
    OBVIOUS
  <2>1. ~Passed(i)
    BY DEF Left, PageToken, Passed
  <2>2. cursor' # None /\ ~Before(cursor', Key(i))
    BY <1>2, <1>3
  <2> QED BY <1>4, <1>5, <2>1, <2>2 DEF Passed, ListedOnce
<1>8. \A r \in items' : r.id = i => i \in P /\ r.event = store[i]
  BY <1>2
<1>9. ItemOK(i)'
  BY <1>1, <1>5, <1>7, <1>8 DEF ItemOK
<1>10. ListedOnce(i)'
  BY <1>4, <1>5, <1>6, <1>7, <1>8 DEF ListedOnce
<1> QED BY <1>1, <1>4, <1>5, <1>9, <1>10 DEF KeyOK, RowOK, SingleRow, SingleUpdate, Updated

\* An event of the page that becomes a row is no longer in the page.
LEMMA EmitOnce ==
    ASSUME OnceInv, OnceOK, EmitRow
    PROVE  OnceOK'
<1>1. UNCHANGED <<store, cursor, returned, owed>>
  BY DEF EmitRow, sinkVars, history
<1>2. PICK r \in items : /\ items' = items \ {r}
                         /\ rows' = IF Matches(r.event) THEN Append(rows, r) ELSE rows
  BY DEF EmitRow
<1> SUFFICES ASSUME NEW i \in owed
             PROVE  /\ KeyOK(i)' /\ ItemOK(i)' /\ RowOK(i)' /\ SingleRow(i)' /\ SingleUpdate(i)'
                    /\ ListedOnce(i)'
  BY <1>1 DEF OnceOK
<1>3. KeyOK(i) /\ ItemOK(i) /\ RowOK(i) /\ SingleRow(i) /\ SingleUpdate(i) /\ ListedOnce(i)
  BY DEF OnceOK
<1>4. /\ KeyOK(i)' /\ (Passed(i)' <=> Passed(i)) /\ (Updated(i)' <=> Updated(i))
      /\ SingleUpdate(i)'
  BY <1>1, <1>3 DEF KeyOK, Passed, Key, Updated, SingleUpdate
<1>5. \A q \in items' : q.id = i => q \in items /\ r.id # i
  <2> SUFFICES ASSUME NEW q \in items', q.id = i, r.id = i PROVE FALSE
    BY <1>2
  <2>1. q \in items /\ q # r /\ q.event = store[i] /\ r.event = store[i]
    BY <1>2, <1>3 DEF ItemOK
  <2>2. q = [id |-> q.id, event |-> q.event] /\ r = [id |-> r.id, event |-> r.event]
    BY <2>1 DEF OnceInv, CursorOK
  <2> QED BY <2>1, <2>2
<1>6. CASE Matches(r.event)
  <2>1. rows' = Append(rows, r) /\ IsSeq(rows)
    BY <1>2, <1>6 DEF OnceInv, TypeInv, NodesInv, RowsOK
  <2>2. /\ DOMAIN rows' = DOMAIN rows \cup {Len(rows) + 1} /\ Len(rows) + 1 \notin DOMAIN rows
        /\ \A k \in DOMAIN rows : rows'[k] = rows[k]
        /\ rows'[Len(rows) + 1] = r
    BY <2>1, AppendSeq
  <2>3. InRows(i)' <=> InRows(i) \/ r.id = i
    BY <2>2 DEF InRows
  <2>4. r.id = i => r.event = store[i] /\ ~InRows(i) /\ ~Updated(i) /\ Passed(i)
    BY <1>3 DEF ItemOK, ListedOnce
  <2>5. ItemOK(i)'
    BY <1>1, <1>3, <1>4, <1>5, <2>3 DEF ItemOK
  <2>6. RowOK(i)' /\ SingleRow(i)'
    BY <1>1, <1>3, <1>4, <2>2, <2>4 DEF RowOK, SingleRow, InRows
  <2>7. ListedOnce(i)'
    BY <1>3, <1>4, <1>5, <2>3, <2>4 DEF ListedOnce
  <2> QED BY <1>3, <1>4, <2>5, <2>6, <2>7
<1>7. CASE ~Matches(r.event)
  <2>1. rows' = rows
    BY <1>2, <1>7
  <2>2. (InRows(i)' <=> InRows(i)) /\ RowOK(i)' /\ SingleRow(i)'
    BY <1>1, <1>3, <1>4, <2>1 DEF InRows, RowOK, SingleRow
  <2>3. ItemOK(i)' /\ ListedOnce(i)'
    BY <1>1, <1>3, <1>4, <1>5, <2>2 DEF ItemOK, ListedOnce
  <2> QED BY <1>3, <1>4, <2>2, <2>3
<1> QED BY <1>6, <1>7

\* The style is that of the event, since all_day comes from the row alone, if at all.
LEMMA StyleKept ==
    ASSUME OnceInv, TimesUnset, Row.event = got
    PROVE  AllDay = ExistingAllDay(got)
<1>1. DOMAIN set = 1 .. Len(set) /\ Len(set) \in Nat
  BY UpdateAssumption DEF OnceInv, TypeInv, TypeOK
<1>2. \A k \in 1 .. Last : Name(k) = "all_day" => ~Repeated(k) /\ Val(k) = ExistingAllDay(got)
  <2> SUFFICES ASSUME NEW k \in 1 .. Last, Name(k) = "all_day"
               PROVE  ~Repeated(k) /\ Val(k) = ExistingAllDay(got)
    OBVIOUS
  <2>1. "all_day" \notin SetNames(set)
    BY DEF TimesUnset
  <2>2. k \in Int
    BY LastNat DEF OnceInv, TypeInv, NodesInv
  <2>3. ~(k <= Len(set))
    <3> SUFFICES ASSUME k <= Len(set) PROVE FALSE
      OBVIOUS
    <3>1. k \in DOMAIN set /\ set[k].name = "all_day"
      BY <1>1, <2>2 DEF Name
    <3> QED BY <2>1, <3>1 DEF SetNames
  <2>4. Val(k) = ExtractField(Row.event, "all_day")
    BY <2>3 DEF Val
  <2> QED BY <2>1, <2>4, ReadTimes DEF Repeated
<1>3. ExistingAllDay(got) \in BOOLEAN
  BY DEF ExistingAllDay
<1> HIDE DEF Last, Name, Val, Repeated, ExistingAllDay
<1> QED BY <1>2, <1>3 DEF AllDay

\* In the loop the event is that of the row, as it was listed.
LEMMA LoopRow ==
    ASSUME OnceInv, OnceOK, BodiesOK, phase \in {"get", "apply", "put"}, Row.id \in owed
    PROVE  /\ Row = rows[1] /\ 1 \in DOMAIN rows
           /\ Row.event = store[Row.id] /\ ~Updated(Row.id)
           /\ Row.id \in Ids /\ store[Row.id] \in Bodies
           /\ "start" \in DOMAIN store[Row.id] /\ IsEvent(store[Row.id]) /\ OnMidnight(store[Row.id])
<1>1. Row = rows[1] /\ 1 \in DOMAIN rows
  BY TailSeq DEF OnceInv, TypeInv, NodesInv, RowsOK, Row
<1>2. Row.event = store[Row.id] /\ ~Updated(Row.id) /\ Row.id \in Ids
  BY <1>1 DEF OnceOK, RowOK, KeyOK
<1>3. store[Row.id] \in Bodies
  BY <1>2 DEF BodiesOK
<1>4. \A b \in Bodies : "start" \in DOMAIN b /\ IsEvent(b) /\ OnMidnight(b)
  BY UpdateAssumption, DatesAssumption DEF Complete, TimeColumns, OnMidnight
<1> HIDE DEF Row
<1> QED BY <1>1, <1>2, <1>3, <1>4

\* A column that the statement does not set, or that the row repeats, leaves the
\* start where it was.
LEMMA ApplyStart ==
    ASSUME OnceInv, TimesUnset, OnceOK, BodiesOK, StartOK, ApplySet
    PROVE  StartOK'
<1>1. /\ phase = "apply" /\ c <= Last
      /\ UNCHANGED <<store, set, returning, phase, rows, got, owed>>
      /\ event' = IF Repeated(c) THEN event ELSE ApplyColumn(event, Name(c), Val(c), AllDay, TRUE)
  BY DEF ApplySet, stmtVars, history
<1> SUFFICES ASSUME Row.id \in owed PROVE got = store[Row.id] /\ SameStart(event', got)
  BY <1>1 DEF StartOK, Row, SameStart
<1>2. /\ Row.event = store[Row.id] /\ "start" \in DOMAIN store[Row.id]
      /\ IsEvent(store[Row.id]) /\ OnMidnight(store[Row.id])
  BY <1>1, LoopRow
<1>3. got = store[Row.id] /\ SameStart(event, got)
  BY <1>1 DEF StartOK
<1>4. AllDay = (got["start"].form = "date")
  <2>1. AllDay = ExistingAllDay(got)
    BY <1>2, <1>3, StyleKept
  <2> QED BY <1>2, <1>3, <2>1 DEF ExistingAllDay
<1>5. IsEvent(event) /\ c \in Int
  BY <1>1 DEF OnceInv, TypeInv, TypeOK, NodesInv, LoopOK
<1>6. Name(c) = "start" => Val(c) = ParseEventTime(got, "start")
  <2> SUFFICES ASSUME Name(c) = "start" PROVE Val(c) = ParseEventTime(got, "start")
    OBVIOUS
  <2>1. ~(c <= Len(set))
    <3> SUFFICES ASSUME c <= Len(set) PROVE FALSE
      OBVIOUS
    <3>1. c \in 1 .. Len(set)
      BY <1>1, <1>5 DEF OnceInv, TypeInv, NodesInv, LoopOK
    <3>2. c \in DOMAIN set /\ set[c].name = "start"
      BY <3>1, UpdateAssumption DEF Name, OnceInv, TypeInv, TypeOK
    <3> QED BY <3>2 DEF SetNames, TimesUnset, TimeColumns
  <2>2. Val(c) = ExtractField(Row.event, "start")
    BY <2>1 DEF Val
  <2> QED BY <1>2, <1>3, <2>2, ReadTimes
<1>7. SameStart(ApplyColumn(event, Name(c), Val(c), AllDay, TRUE), got)
  <2>1. IsEvent(got) /\ "start" \in DOMAIN got /\ OnMidnight(got)
    BY <1>2, <1>3
  <2> HIDE DEF Name, Val, AllDay
  <2> QED BY <1>3, <1>4, <1>5, <1>6, <2>1, ApplySame
<1> HIDE DEF Name, Val, AllDay, Row
<1> QED BY <1>1, <1>3, <1>7

\* The event written stays behind the cursor, and no row of it is left.
LEMMA UpdateOnce ==
    ASSUME OnceInv, OnceOK, BodiesOK, StartOK, Update
    PROVE  OnceOK' /\ BodiesOK'
<1>1. /\ UNCHANGED <<items, cursor, owed>> /\ phase = "put" /\ Complete(event)
      /\ store' = [store EXCEPT ![Row.id] = event] /\ store = [i \in Ids |-> store[i]]
      /\ rows' = Tail(rows)
  BY DEF Update, scanVars, OnceInv, TypeInv, NodesInv, StoreOK
<1>2. PICK new : returned' = Append(returned, new) /\ new.id = Row.id
  BY DEF Update
<1>3. IsSeq(rows) /\ rows # << >> /\ IsSeq(returned) /\ Row = rows[1] /\ 1 \in DOMAIN rows
  BY <1>1, TailSeq DEF OnceInv, TypeInv, NodesInv, RowsOK, Row
<1>4. \A k \in DOMAIN rows' : k \in Nat \ {0} /\ k + 1 \in DOMAIN rows /\ rows'[k] = rows[k + 1]
  BY <1>1, <1>3, TailSeq
<1>5. /\ DOMAIN returned' = DOMAIN returned \cup {Len(returned) + 1}
      /\ \A k \in DOMAIN returned : returned'[k] = returned[k]
      /\ returned'[Len(returned) + 1] = new
  BY <1>2, <1>3, AppendSeq
<1> HIDE DEF Row
<1>6. \A i : /\ InRows(i)' => InRows(i)
             /\ Updated(i)' <=> Updated(i) \/ i = Row.id
  BY <1>2, <1>4, <1>5 DEF InRows, Updated
<1>7. \A i \in Ids : i # Row.id => store'[i] = store[i] /\ (Passed(i)' <=> Passed(i)) /\ Key(i)' = Key(i)
  BY <1>1 DEF Passed, Key
<1>8. OnceOK'
  <2> SUFFICES ASSUME NEW i \in owed
               PROVE  /\ KeyOK(i)' /\ ItemOK(i)' /\ RowOK(i)' /\ SingleRow(i)' /\ SingleUpdate(i)'
                      /\ ListedOnce(i)'
    BY <1>1 DEF OnceOK
  <2>1. KeyOK(i) /\ ItemOK(i) /\ RowOK(i) /\ SingleRow(i) /\ SingleUpdate(i) /\ ListedOnce(i)
    BY DEF OnceOK
  <2>2. CASE i # Row.id
    <3>1. store'[i] = store[i] /\ (Passed(i)' <=> Passed(i)) /\ KeyOK(i)' /\ (Updated(i)' <=> Updated(i))
      BY <1>6, <1>7, <2>1, <2>2 DEF KeyOK
    <3>2. SingleUpdate(i)'
      BY <1>2, <1>5, <2>1, <2>2 DEF SingleUpdate
    <3>3. RowOK(i)' /\ SingleRow(i)'
      BY <1>4, <2>1, <3>1 DEF RowOK, SingleRow
    <3>4. ItemOK(i)' /\ ListedOnce(i)'
      BY <1>1, <1>6, <2>1, <3>1 DEF ItemOK, ListedOnce
    <3> QED BY <3>1, <3>2, <3>3, <3>4
  <2>3. CASE i = Row.id
    <3>1. InRows(i) /\ ~Updated(i) /\ Passed(i) /\ \A r \in items : r.id # i
      BY <1>3, <2>1, <2>3 DEF InRows, RowOK, ItemOK, ListedOnce
    <3>2. ~InRows(i)'
      BY <1>3, <1>4, <2>1, <2>3 DEF InRows, SingleRow
    <3>3. Key(i)' = Key(i)
      <4>1. store'[i] = event /\ "start" \in DOMAIN event
        BY <1>1, <2>1, <2>3 DEF KeyOK, Complete, TimeColumns
      <4>2. got = store[i] /\ SameStart(event, got)
        BY <1>1, <2>3 DEF StartOK
      <4>3. Instant(event["start"]) = Instant(store[i]["start"])
        BY <4>1, <4>2 DEF SameStart
      <4> QED BY <4>1, <4>3 DEF Key
    <3>4. KeyOK(i)' /\ Passed(i)'
      BY <1>1, <2>1, <3>1, <3>3 DEF KeyOK, Passed
    <3>5. SingleUpdate(i)'
      BY <1>5, <3>1 DEF SingleUpdate, Updated
    <3>6. ItemOK(i)' /\ RowOK(i)' /\ SingleRow(i)' /\ ListedOnce(i)'
      BY <1>1, <3>1, <3>2, <3>4 DEF ItemOK, RowOK, SingleRow, ListedOnce, InRows
    <3> QED BY <3>4, <3>5, <3>6
  <2> QED BY <2>2, <2>3
<1>9. BodiesOK'
  <2> SUFFICES ASSUME NEW i \in owed, ~Updated(i)' PROVE store'[i] \in Bodies
    BY <1>1 DEF BodiesOK
  <2>1. i # Row.id /\ ~Updated(i) /\ i \in Ids
    BY <1>6 DEF OnceOK, KeyOK
  <2> QED BY <1>7, <2>1 DEF BodiesOK
<1> QED BY <1>8, <1>9

\* Others change what is no longer owed.
LEMMA OtherOnce ==
    ASSUME OnceInv, OnceOK, BodiesOK, StartOK, OtherChanges
    PROVE  OnceOK' /\ BodiesOK' /\ StartOK'
<1>1. PICK i \in Ids, b \in Bodies \cup {None} :
        store' = [store EXCEPT ![i] = b] /\ owed' = owed \ {i}
  BY DEF OtherChanges
<1>2. UNCHANGED <<items, cursor, rows, returned, phase, got, event>>
  BY DEF OtherChanges, scanVars, sinkVars
<1>3. \A j \in owed' : j \in owed /\ KeyOK(j) /\ store'[j] = store[j] /\ Key(j)' = Key(j)
  <2> SUFFICES ASSUME NEW j \in owed' PROVE j \in owed /\ KeyOK(j) /\ store'[j] = store[j] /\ Key(j)' = Key(j)
    OBVIOUS
  <2>1. j \in owed /\ j # i /\ KeyOK(j) /\ j \in Ids
    BY <1>1 DEF OnceOK, KeyOK
  <2>2. store'[j] = store[j]
    BY <1>1, <2>1 DEF OnceInv, TypeInv, NodesInv, StoreOK
  <2> QED BY <2>1, <2>2 DEF Key
<1>4. \A j : (InRows(j)' <=> InRows(j)) /\ (Updated(j)' <=> Updated(j))
  BY <1>2 DEF InRows, Updated
<1>5. OnceOK'
  <2> SUFFICES ASSUME NEW j \in owed'
               PROVE  /\ KeyOK(j)' /\ ItemOK(j)' /\ RowOK(j)' /\ SingleRow(j)' /\ SingleUpdate(j)'
                      /\ ListedOnce(j)'
    BY DEF OnceOK
  <2>1. KeyOK(j) /\ ItemOK(j) /\ RowOK(j) /\ SingleRow(j) /\ SingleUpdate(j) /\ ListedOnce(j)
    BY <1>3 DEF OnceOK
  <2>2. KeyOK(j)' /\ (Passed(j)' <=> Passed(j)) /\ store'[j] = store[j]
    BY <1>2, <1>3, <2>1 DEF KeyOK, Passed
  <2>3. ItemOK(j)' /\ ListedOnce(j)'
    BY <1>2, <1>4, <2>1, <2>2 DEF ItemOK, ListedOnce
  <2>4. RowOK(j)' /\ SingleRow(j)' /\ SingleUpdate(j)'
    BY <1>2, <1>4, <2>1, <2>2 DEF RowOK, SingleRow, SingleUpdate
  <2> QED BY <2>2, <2>3, <2>4
<1>6. BodiesOK'
  BY <1>3, <1>4 DEF BodiesOK
<1>7. StartOK'
  <2>1. Row' = Row
    BY <1>2 DEF Row
  <2> HIDE DEF Row
  <2> QED BY <1>2, <1>3, <2>1 DEF StartOK, SameStart
<1> QED BY <1>5, <1>6, <1>7

LEMMA OnceStep == OnceInv /\ [Next]_vars => OnceInv'
<1> SUFFICES ASSUME OnceInv, [Next]_vars, TimesUnset'
             PROVE  OnceOK' /\ BodiesOK' /\ StartOK'
  BY TypeStep, CursorStep DEF OnceInv
<1>0. TimesUnset
  <2>1. set' = set
    BY DEF Next, Statement, Sink, OtherChanges, FetchPage, EmitRow, TakeChunk, Finish, GetEvent, ApplySet,
           Refuse, Applied, Update, Fails, vars, stmtVars
  <2> QED BY <2>1 DEF TimesUnset, SetNames
<1>1. OnceOK /\ BodiesOK /\ StartOK
  BY <1>0 DEF OnceInv
<1>2. CASE OtherChanges
  BY <1>1, <1>2, OtherOnce
<1>3. CASE Update
  <2>1. phase' \notin {"apply", "put"}
    BY <1>3 DEF Update
  <2> QED BY <1>1, <1>3, <2>1, UpdateOnce DEF StartOK
<1>4. CASE FetchPage \/ EmitRow
  <2>1. UNCHANGED <<store, returned, owed>> /\ phase' \notin {"apply", "put"}
    BY <1>4 DEF FetchPage, EmitRow, sinkVars, history
  <2>2. BodiesOK' /\ StartOK'
    BY <1>1, <2>1 DEF BodiesOK, StartOK, Updated
  <2> QED BY <1>1, <1>4, <2>2, FetchOnce, EmitOnce
<1>5. CASE GetEvent
  <2>1. /\ UNCHANGED <<store, items, cursor, rows, returned, owed>>
        /\ got' = store[Row.id] /\ event' = got'
    BY <1>5 DEF GetEvent, scanVars, history
  <2>2. OnceOK' /\ BodiesOK'
    BY <1>1, <2>1 DEF OnceOK, BodiesOK, KeyOK, ItemOK, RowOK, SingleRow, SingleUpdate, ListedOnce, InRows,
                      Updated, Passed, Key
  <2>3. StartOK'
    BY <2>1 DEF StartOK, SameStart, Row
  <2> QED BY <2>2, <2>3
<1>6. CASE ApplySet \/ TakeChunk \/ Finish \/ Refuse \/ Applied \/ Fails \/ UNCHANGED vars
  <2>1. UNCHANGED <<store, items, cursor, rows, returned, owed>>
    BY <1>6 DEF ApplySet, TakeChunk, Finish, Refuse, Applied, Fails, vars, scanVars, sinkVars, history
  <2>2. OnceOK' /\ BodiesOK'
    BY <1>1, <2>1 DEF OnceOK, BodiesOK, KeyOK, ItemOK, RowOK, SingleRow, SingleUpdate, ListedOnce, InRows,
                      Updated, Passed, Key
  <2>3. StartOK'
    <3>1. CASE ApplySet
      BY <1>0, <1>1, <3>1, ApplyStart
    <3>2. CASE TakeChunk \/ Finish \/ Refuse \/ Fails
      BY <3>2 DEF TakeChunk, Finish, Refuse, Fails, StartOK
    <3>3. CASE Applied \/ UNCHANGED vars
      <4>1. UNCHANGED <<got, event>> /\ (phase' \in {"apply", "put"} => phase \in {"apply", "put"})
        BY <3>3 DEF Applied, vars, sinkVars
      <4> QED BY <1>1, <2>1, <4>1 DEF StartOK, SameStart, Row
    <3> QED BY <1>6, <3>1, <3>2, <3>3
  <2> QED BY <2>2, <2>3
<1> QED BY <1>2, <1>3, <1>4, <1>5, <1>6 DEF Next, Statement, Sink

\* However many events and pages there are, whatever a statement sets but times, with
\* RETURNING or without: no event that nobody else changes is written twice
\* (CalendarScan's page token, and CalendarUpdate::Sink writing the start it listed).
THEOREM OnceCorrect == Spec => []UpdatedOnce
<1>1. OnceInv => UpdatedOnce
  <2> SUFFICES ASSUME OnceInv, TimesUnset, NEW i \in owed PROVE Writes(i) <= 1
    BY DEF UpdatedOnce, TimesUnset
  <2> DEFINE W == {k \in DOMAIN returned : returned[k].id = i}
  <2>1. \A k, l \in W : k = l
    BY DEF OnceInv, OnceOK, SingleUpdate
  <2>2. W = {} \/ \E k : W = {k}
    BY <2>1
  <2>3. Cardinality(W) <= 1
    <3> HIDE DEF W
    <3>1. Cardinality({}) = 0 /\ \A x : Cardinality({x}) = 1
      BY FS_EmptySet, FS_Singleton
    <3>2. Cardinality(W) = 0 \/ Cardinality(W) = 1
      BY <2>2, <3>1
    <3> QED BY <3>2
  <2> QED BY <2>3 DEF Writes
<1> QED BY <1>1, OnceInit, OnceStep, PTL DEF Spec
-----------------------------------------------------------------------------
\* What an UPDATE writes into the columns it sets and into the others.

\* Columns whose value is put under a key of their own, which is no time.
Plain == StringColumns \cup BoolColumns \cup JsonColumns

\* What the key of such a column has after val has been applied to it.
Stored(name, val, before) ==
    IF name \in JsonColumns /\ val \in {Empty, Malformed} THEN before ELSE val

\* The dates of an event are midnights without a zone.
OnDates(e) ==
    \A k \in TimeColumns \cap DOMAIN e :
        e[k].form = "date" => e[k].wall % Day = 0 /\ e[k].ahead = 0
Sound(e) == IsEvent(e) /\ NodesOK(e) /\ OnDates(e)

\* The columns of the list of that name that have been applied.
Did(name) == {j \in 1 .. Last : j < c /\ Name(j) = name /\ ~Repeated(j)}

\* The event in the loop, key by key: as it was read, or as the last column had it.
PlainOK ==
    \A n \in Plain :
        /\ Did(n) = {} => Get(event, WritableKey(n)) = Get(got, WritableKey(n))
        /\ \A j \in Did(n) :
              Get(event, WritableKey(n)) = Stored(n, Val(j), Get(got, WritableKey(n)))
TimesOK ==
    \A n \in TimeColumns :
        /\ Did(n) = {} /\ Did("all_day") = {} => n \in DOMAIN event /\ event[n] = got[n]
        /\ \A j \in Did(n) :
              /\ n \in DOMAIN event => Val(j) # Null /\ event[n] = TimeNode(Val(j), AllDay)

\* What was listed or read is an event the service takes, and stays in its history.
SoundOK ==
    /\ \A i \in Present : Sound(store[i])
    /\ \A r \in items : Sound(r.event)
    /\ \A k \in DOMAIN rows : Sound(rows[k].event)
HadOK ==
    /\ had = [i \in Ids |-> had[i]]
    /\ \A i \in Waiting \cap Present : store[i] \in had[i]
    /\ \A r \in items : r.event \in had[r.id]
    /\ \A k \in DOMAIN rows : rows[k].event \in had[rows[k].id]
ColumnsOK ==
    phase \in {"apply", "put"} =>
        Sound(got) /\ OnDates(event) /\ got \in had[Row.id] /\ PlainOK /\ TimesOK

ColumnsInv == TypeInv /\ SoundOK /\ HadOK /\ ColumnsOK

-----------------------------------------------------------------------------
\* The tables of keys.
LEMMA ColumnNames ==
    /\ StringColumns = {"summary", "description", "location", "status", "color_id", "transparency",
                        "visibility", "event_type"}
    /\ BoolColumns = {"anyone_can_add_self", "guests_can_invite_others", "guests_can_modify",
                      "guests_can_see_other_guests"}
    /\ JsonColumns = {"attendees", "recurrence", "reminders", "conference_data", "extended_properties",
                      "source", "attachments", "working_location_properties"}
<1>1. StringColumns = {"summary", "description", "location", "status", "color_id", "transparency",
                       "visibility", "event_type"}
  BY DEF StringColumns, WritableStringKeys
<1>2. BoolColumns = {"anyone_can_add_self", "guests_can_invite_others", "guests_can_modify",
                     "guests_can_see_other_guests"}
  BY DEF BoolColumns, WritableBoolKeys
<1>3. JsonColumns = {"attendees", "recurrence", "reminders", "conference_data", "extended_properties",
                     "source", "attachments", "working_location_properties"}
  BY DEF JsonColumns, WritableJsonKeys
<1> QED BY <1>1, <1>2, <1>3

LEMMA KeyOf ==
    /\ \A n \in StringColumns : WritableKey(n) = WritableStringKeys[n]
    /\ \A n \in BoolColumns : WritableKey(n) = WritableBoolKeys[n]
    /\ \A n \in JsonColumns : WritableKey(n) = WritableJsonKeys[n]
<1>1. \A n \in StringColumns : WritableKey(n) = WritableStringKeys[n]
  BY ColumnNames DEF WritableKey, TimeColumns
<1>2. \A n \in BoolColumns : WritableKey(n) = WritableBoolKeys[n]
  BY ColumnNames DEF WritableKey, TimeColumns
<1>3. \A n \in JsonColumns : WritableKey(n) = WritableJsonKeys[n]
  BY ColumnNames DEF WritableKey, TimeColumns
<1> QED BY <1>1, <1>2, <1>3

\* The column of a key.
ColumnOf(key) ==
    CASE key = "colorId" -> "color_id"
      [] key = "eventType" -> "event_type"
      [] key = "anyoneCanAddSelf" -> "anyone_can_add_self"
      [] key = "guestsCanInviteOthers" -> "guests_can_invite_others"
      [] key = "guestsCanModify" -> "guests_can_modify"
      [] key = "guestsCanSeeOtherGuests" -> "guests_can_see_other_guests"
      [] key = "conferenceData" -> "conference_data"
      [] key = "extendedProperties" -> "extended_properties"
      [] key = "workingLocationProperties" -> "working_location_properties"
      [] OTHER -> key

\* No two columns share a key.
LEMMA KeysDistinct ==
    \A n, m \in Plain : WritableKey(n) = WritableKey(m) => n = m
<1>1. \A n \in StringColumns : ColumnOf(WritableStringKeys[n]) = n
  BY ColumnNames DEF WritableStringKeys, ColumnOf
<1>2. \A n \in BoolColumns : ColumnOf(WritableBoolKeys[n]) = n
  BY ColumnNames DEF WritableBoolKeys, ColumnOf
<1>3. \A n \in JsonColumns : ColumnOf(WritableJsonKeys[n]) = n
  BY ColumnNames DEF WritableJsonKeys, ColumnOf
<1>4. \A n \in Plain : ColumnOf(WritableKey(n)) = n
  BY <1>1, <1>2, <1>3, KeyOf DEF Plain
<1> HIDE DEF ColumnOf
<1> QED BY <1>4

\* A column is read from the key it is written to.
LEMMA ReadPlain ==
    \A n \in Plain : \A e : ExtractField(e, n) = Get(e, WritableKey(n))
<1>1. ASSUME NEW n \in StringColumns, NEW e PROVE ExtractField(e, n) = Get(e, WritableKey(n))
  <2>1. n \in DOMAIN StringKeys /\ StringKeys[n] = WritableStringKeys[n]
    BY <1>1, ColumnNames DEF StringKeys, WritableStringKeys
  <2>2. n \notin DOMAIN RawKeys /\ n \notin DOMAIN BoolKeys /\ n \notin TimeColumns
        /\ n \notin {"original_start_time", "all_day", "sequence"}
    BY <1>1, ColumnNames DEF RawKeys, BoolKeys, TimeColumns
  <2>3. ExtractField(e, n) = Get(e, StringKeys[n])
    <3> HIDE DEF StringKeys, RawKeys, BoolKeys, TimeColumns
    <3> QED BY <2>1, <2>2 DEF ExtractField
  <2> QED BY <1>1, <2>1, <2>3, KeyOf
<1>2. ASSUME NEW n \in BoolColumns, NEW e PROVE ExtractField(e, n) = Get(e, WritableKey(n))
  <2>1. n \in DOMAIN BoolKeys /\ BoolKeys[n] = WritableBoolKeys[n]
    BY <1>2, ColumnNames DEF BoolKeys, WritableBoolKeys
  <2>2. n \notin DOMAIN RawKeys /\ n \notin DOMAIN StringKeys /\ n \notin TimeColumns
        /\ n \notin {"original_start_time", "all_day", "sequence"}
    BY <1>2, ColumnNames DEF RawKeys, StringKeys, TimeColumns
  <2>3. ExtractField(e, n) = Get(e, BoolKeys[n])
    BY <2>1, <2>2 DEF ExtractField
  <2> QED BY <1>2, <2>1, <2>3, KeyOf
<1>3. ASSUME NEW n \in JsonColumns, NEW e PROVE ExtractField(e, n) = Get(e, WritableKey(n))
  <2>1. n \in DOMAIN RawKeys /\ RawKeys[n] = WritableJsonKeys[n]
    BY <1>3, ColumnNames DEF RawKeys, WritableJsonKeys
  <2>2. n \notin DOMAIN StringKeys /\ n \notin DOMAIN BoolKeys /\ n \notin TimeColumns
        /\ n \notin {"original_start_time", "all_day", "sequence"}
    BY <1>3, ColumnNames DEF StringKeys, BoolKeys, TimeColumns
  <2>3. ExtractField(e, n) = Get(e, RawKeys[n])
    BY <2>1, <2>2 DEF ExtractField
  <2> QED BY <1>3, <2>1, <2>3, KeyOf
<1> QED BY <1>1, <1>2, <1>3 DEF Plain

LEMMA ReadEnds ==
    \A n \in TimeColumns : \A e : ExtractField(e, n) = ParseEventTime(e, n)
BY DEF ExtractField, TimeColumns, StringKeys, RawKeys, BoolKeys

\* Midnights are days apart.
LEMMA Small ==
    ASSUME NEW a \in Int, NEW d \in Nat \ {0}, 0 <= a * d, a * d < d
    PROVE  a = 0
<1>1. CASE a >= 1
  <2>1. a * d >= d
    BY <1>1
  <2> QED BY <2>1
<1>2. CASE a <= -1
  <2>1. a * d <= -d
    BY <1>2
  <2> QED BY <2>1
<1> QED BY <1>1, <1>2

LEMMA DivMod ==
    ASSUME NEW t \in Int
    PROVE  t % Day \in 0 .. Day - 1 /\ \E q \in Int : t = Day * q + (t % Day)
<1>1. t % Day \in 0 .. Day - 1 /\ t = Day * (t \div Day) + (t % Day) /\ t \div Day \in Int
  BY DayAssumption
<1> QED BY <1>1

LEMMA MidnightDate ==
    ASSUME NEW t \in Int
    PROVE  /\ Midnight(t) \in Int /\ Midnight(t) % Day = 0 /\ Midnight(Midnight(t)) = Midnight(t)
           /\ t % Day = 0 => Midnight(t) = t
<1>1. PICK q \in Int : t = Day * q + (t % Day)
  BY DivMod
<1>2. Midnight(t) = Day * q /\ Midnight(t) \in Int
  BY <1>1, DayAssumption DEF Midnight
<1>3. PICK m \in Int : m = Midnight(t)
  BY <1>2
<1>4. PICK p \in Int : m = Day * p + (m % Day)
  BY DivMod
<1>5. PICK r \in 0 .. Day - 1 : r = m % Day
  BY DivMod
<1>6. Day * q = Day * p + r
  BY <1>2, <1>3, <1>4, <1>5
<1>7. q - p \in Int /\ (q - p) * Day = r
  BY <1>6, DayAssumption
<1>8. q - p = 0
  BY <1>7, Small, DayAssumption
<1>9. r = 0
  BY <1>7, <1>8, DayAssumption
<1>10. m % Day = 0
  BY <1>5, <1>9
<1>11. \A u \in Int : u % Day = 0 => Midnight(u) = u
  BY DEF Midnight
<1> QED BY <1>3, <1>10, <1>11

-----------------------------------------------------------------------------
\* What the sink does with one column: keys of other columns are kept.
UpdateColumn(e, name, val, all_day) == ApplyColumn(e, name, val, all_day, TRUE)

Kept(r, e, key) ==
    /\ key \in DOMAIN r <=> key \in DOMAIN e
    /\ key \in DOMAIN e => r[key] = e[key]

\* Putting a key and erasing it.
LEMMA WithKey ==
    ASSUME NEW e, NEW key, NEW val
    PROVE  /\ key \in DOMAIN With(e, key, val) /\ With(e, key, val)[key] = val
           /\ \A k : k # key => Kept(With(e, key, val), e, k)
           /\ key \notin DOMAIN Without(e, key)
           /\ \A k : k # key => Kept(Without(e, key), e, k)
BY DEF With, Without, Kept

LEMMA KeptGet ==
    ASSUME NEW r, NEW e, NEW key, Kept(r, e, key)
    PROVE  Get(r, key) = Get(e, key)
BY DEF Kept, Get

\* A string, a Boolean or a JSON column.
LEMMA ApplyPlain ==
    ASSUME NEW e, NEW name \in Plain, NEW val, NEW all_day
    PROVE  /\ Get(UpdateColumn(e, name, val, all_day), WritableKey(name))
                = Stored(name, val, Get(e, WritableKey(name)))
           /\ \A k : k # WritableKey(name) => Kept(UpdateColumn(e, name, val, all_day), e, k)
<1> DEFINE r == UpdateColumn(e, name, val, all_day)
           key == WritableKey(name)
<1>1. /\ name \in StringColumns \cup BoolColumns \cup JsonColumns /\ name \notin TimeColumns
      /\ name # "all_day" /\ name # "event_id" /\ Writable(name, TRUE)
  BY KeysApart, TimeKeys DEF Plain, Writable
<1> SUFFICES Get(r, key) = Stored(name, val, Get(e, key)) /\ \A k : k # key => Kept(r, e, k)
  OBVIOUS
<1> HIDE DEF key
<1>2. CASE val = Null
  <2>1. r = Without(e, key)
    BY <1>1, <1>2 DEF UpdateColumn, ApplyColumn, key
  <2>2. Stored(name, val, Get(e, key)) = Null
    BY <1>2, NullAssumption DEF Stored
  <2> HIDE DEF r
  <2> QED BY <2>1, <2>2, WithKey DEF Get
<1>3. CASE val # Null /\ ~(name \in JsonColumns /\ val \in {Empty, Malformed})
  <2>1. r = With(e, key, val)
    <3>1. CASE name \in StringColumns \cup BoolColumns
      BY <1>1, <1>3, <3>1, KeysApart DEF UpdateColumn, ApplyColumn, key
    <3>2. CASE name \in JsonColumns /\ name \notin StringColumns \cup BoolColumns
      <4>1. r = SetJsonPassthrough(e, key, val)
        BY <1>1, <1>3, <3>2 DEF UpdateColumn, ApplyColumn, key
      <4> QED BY <1>3, <3>2, <4>1 DEF SetJsonPassthrough
    <3> QED BY <1>1, <3>1, <3>2
  <2>2. Stored(name, val, Get(e, key)) = val
    BY <1>3 DEF Stored
  <2> HIDE DEF r
  <2> QED BY <2>1, <2>2, WithKey DEF Get
<1>4. CASE val # Null /\ name \in JsonColumns /\ val \in {Empty, Malformed}
  <2>1. r = e
    <3>1. name \notin StringColumns \cup BoolColumns
      BY <1>4, KeysApart
    <3>2. r = SetJsonPassthrough(e, key, val)
      BY <1>1, <1>4, <3>1 DEF UpdateColumn, ApplyColumn, key
    <3> QED BY <1>4, <3>2 DEF SetJsonPassthrough
  <2>2. Stored(name, val, Get(e, key)) = Get(e, key)
    BY <1>4 DEF Stored
  <2> HIDE DEF r
  <2> QED BY <2>1, <2>2 DEF Kept
<1> QED BY <1>2, <1>3, <1>4

\* A start or an end.
LEMMA ApplyTime ==
    ASSUME NEW e, NEW name \in TimeColumns, NEW val, NEW all_day,
           NEW r, r = UpdateColumn(e, name, val, all_day)
    PROVE  /\ name \in DOMAIN r => val # Null /\ r[name] = TimeNode(val, all_day)
           /\ \A k : k # name => Kept(r, e, k)
<1>1. /\ name \notin StringColumns \cup BoolColumns \cup JsonColumns /\ WritableKey(name) = name
      /\ name # "all_day" /\ name # "event_id" /\ Writable(name, TRUE)
  BY TimeKeys DEF Writable
<1>2. CASE val = Null
  <2>1. r = Without(e, name)
    BY <1>1, <1>2 DEF UpdateColumn, ApplyColumn
  <2> QED BY <2>1, WithKey
<1>3. CASE val # Null
  <2>1. r = With(e, name, TimeNode(val, all_day))
    BY <1>1, <1>3 DEF UpdateColumn, ApplyColumn
  <2> QED BY <1>3, <2>1, WithKey
<1> QED BY <1>2, <1>3

\* What ReencodeTimeNode makes of a node.
Reencoded(node, all_day) ==
    CASE all_day -> Node("date", Midnight(node.wall), 0)
      [] ~all_day /\ node.form = "date" -> Node("dateTime", node.wall, 0)
      [] ~all_day /\ node.form = "dateTime" -> node

LEMMA ReencodeKey ==
    ASSUME NEW e, NEW key, NEW all_day
    PROVE  LET r == ReencodeTimeNode(e, key, all_day)
           IN  /\ key \in DOMAIN r <=> key \in DOMAIN e
               /\ key \in DOMAIN e => r[key] = Reencoded(e[key], all_day)
               /\ \A k : k # key => Kept(r, e, k)
<1> DEFINE r == ReencodeTimeNode(e, key, all_day)
<1>1. CASE key \notin DOMAIN e
  <2>1. r = e
    BY <1>1 DEF ReencodeTimeNode
  <2> HIDE DEF r
  <2>2. key \notin DOMAIN r /\ \A k : Kept(r, e, k)
    BY <1>1, <2>1 DEF Kept
  <2> QED BY <1>1, <2>2 DEF r
<1>2. CASE key \in DOMAIN e
  <2>1. r = With(e, key, Reencoded(e[key], all_day))
    BY <1>2 DEF ReencodeTimeNode, Reencoded
  <2> HIDE DEF r
  <2>2. key \in DOMAIN r /\ r[key] = Reencoded(e[key], all_day) /\ \A k : k # key => Kept(r, e, k)
    BY <2>1, WithKey
  <2> QED BY <1>2, <2>2 DEF r
<1> QED BY <1>1, <1>2

\* all_day.
LEMMA ApplyAllDayColumn ==
    ASSUME NEW e, NEW val, NEW all_day,
           NEW r, r = UpdateColumn(e, "all_day", val, all_day)
    PROVE  /\ \A k : k \notin TimeColumns => Kept(r, e, k)
           /\ \A k \in TimeColumns : k \in DOMAIN r =>
                 k \in DOMAIN e /\ r[k] = Reencoded(e[k], all_day)
<1> DEFINE s == ReencodeTimeNode(e, "start", all_day)
           t == ReencodeTimeNode(s, "end", all_day)
<1>1. r = t
  BY KeysApart, TimeKeys DEF UpdateColumn, ApplyColumn, Writable, ApplyAllDay
<1> HIDE DEF s, t
<1>2. /\ "start" \in DOMAIN s <=> "start" \in DOMAIN e
      /\ "start" \in DOMAIN e => s["start"] = Reencoded(e["start"], all_day)
      /\ \A k : k # "start" => Kept(s, e, k)
  BY ReencodeKey DEF s
<1>3. /\ "end" \in DOMAIN t <=> "end" \in DOMAIN s
      /\ "end" \in DOMAIN s => t["end"] = Reencoded(s["end"], all_day)
      /\ \A k : k # "end" => Kept(t, s, k)
  BY ReencodeKey DEF t
<1>4. \A k : k \notin TimeColumns => Kept(t, e, k)
  BY <1>2, <1>3 DEF Kept, TimeColumns
<1>5. "start" \in DOMAIN t => "start" \in DOMAIN e /\ t["start"] = Reencoded(e["start"], all_day)
  BY <1>2, <1>3 DEF Kept
<1>6. "end" \in DOMAIN t => "end" \in DOMAIN e /\ t["end"] = Reencoded(e["end"], all_day)
  BY <1>2, <1>3 DEF Kept
<1> QED BY <1>1, <1>4, <1>5, <1>6 DEF TimeColumns

\* A column that is not writable changes nothing.
LEMMA ApplyOther ==
    ASSUME NEW e, NEW name, NEW val, NEW all_day, ~Writable(name, TRUE)
    PROVE  UpdateColumn(e, name, val, all_day) = e
BY DEF UpdateColumn, ApplyColumn, Writable

\* A value once written as a time is not changed by writing it again.
LEMMA NodeStays ==
    ASSUME NEW val \in Int, NEW all_day \in BOOLEAN
    PROVE  Reencoded(TimeNode(val, all_day), all_day) = TimeNode(val, all_day)
<1>1. CASE all_day = TRUE
  <2>1. TimeNode(val, all_day) = Node("date", Midnight(val), 0)
    BY <1>1 DEF TimeNode
  <2>2. Reencoded(Node("date", Midnight(val), 0), all_day) = Node("date", Midnight(Midnight(val)), 0)
    BY <1>1 DEF Reencoded, Node
  <2> QED BY <2>1, <2>2, MidnightDate
<1>2. CASE all_day = FALSE
  <2>1. TimeNode(val, all_day) = Node("dateTime", val, 0)
    BY <1>2 DEF TimeNode
  <2>2. Reencoded(Node("dateTime", val, 0), all_day) = Node("dateTime", val, 0)
    BY <1>2 DEF Reencoded, Node
  <2> QED BY <2>1, <2>2
<1> QED BY <1>1, <1>2

-----------------------------------------------------------------------------
\* The list of columns in the loop.
LEMMA ListKept ==
    ASSUME UNCHANGED <<set, returning, rows, got>>
    PROVE  /\ AllDay' = AllDay /\ Last' = Last
           /\ \A k : Name(k)' = Name(k) /\ Val(k)' = Val(k) /\ (Repeated(k)' <=> Repeated(k))
<1>1. Row' = Row /\ Last' = Last
  BY DEF Row, Last
<1> HIDE DEF Row
<1>2. \A k : Name(k)' = Name(k)
  BY DEF Name
<1>3. \A k : Val(k)' = Val(k)
  BY <1>1, <1>2 DEF Val
<1> QED BY <1>1, <1>2, <1>3, ListFrozen

\* Columns of one name have one value, but for those that only repeat.
LEMMA SameVal ==
    ASSUME TypeInv, NEW j \in 1 .. Last, NEW k \in 1 .. Last, Name(j) = Name(k),
           ~Repeated(j), ~Repeated(k)
    PROVE  Val(j) = Val(k)
<1>1. /\ Len(set) \in Nat /\ DOMAIN set = 1 .. Len(set) /\ Last \in Nat
      /\ \A l, m \in DOMAIN set : set[l].name = set[m].name => l = m
  BY LastNat, UpdateAssumption DEF TypeInv, TypeOK, NodesInv
<1>2. j \in Int /\ k \in Int /\ j >= 1 /\ k >= 1
  BY <1>1
<1>3. CASE j <= Len(set) /\ k <= Len(set)
  <2>1. j \in DOMAIN set /\ k \in DOMAIN set /\ set[j].name = set[k].name
    BY <1>1, <1>2, <1>3 DEF Name
  <2>2. j = k
    BY <1>1, <2>1
  <2> QED BY <2>2
<1>4. CASE j > Len(set) /\ k > Len(set)
  <2>1. ~(j <= Len(set)) /\ ~(k <= Len(set))
    BY <1>1, <1>2, <1>4
  <2> HIDE DEF Name
  <2> QED BY <2>1 DEF Val
<1>5. CASE j <= Len(set) /\ k > Len(set)
  <2>1. j \in DOMAIN set /\ Name(j) = set[j].name
    BY <1>1, <1>2, <1>5 DEF Name
  <2> HIDE DEF Name
  <2> QED BY <1>5, <2>1 DEF Repeated, SetNames
<1>6. CASE k <= Len(set) /\ j > Len(set)
  <2>1. k \in DOMAIN set /\ Name(k) = set[k].name
    BY <1>1, <1>2, <1>6 DEF Name
  <2> HIDE DEF Name
  <2> QED BY <1>6, <2>1 DEF Repeated, SetNames
<1> QED BY <1>1, <1>2, <1>3, <1>4, <1>5, <1>6

\* Steps that leave the loop alone.
LEMMA LoopFrozen ==
    ASSUME UNCHANGED <<set, returning, rows, got, event, c>>, PlainOK, TimesOK
    PROVE  PlainOK' /\ TimesOK'
<1>1. /\ AllDay' = AllDay
      /\ \A k : Val(k)' = Val(k)
      /\ \A n : Did(n)' = Did(n)
  BY ListKept DEF Did
<1> HIDE DEF AllDay, Val, Did
<1>2. PlainOK'
  BY <1>1 DEF PlainOK
<1>3. TimesOK'
  BY <1>1 DEF TimesOK
<1> QED BY <1>2, <1>3

-----------------------------------------------------------------------------
\* After a step of the loop its column is among those applied.
LEMMA DidStep ==
    ASSUME TypeInv, ApplySet, NEW n
    PROVE  /\ Name(c) = n /\ ~Repeated(c) => Did(n)' = Did(n) \cup {c}
           /\ Name(c) # n \/ Repeated(c) => Did(n)' = Did(n)
<1>1. c <= Last /\ c' = c + 1 /\ UNCHANGED <<set, returning, rows, got>>
  BY DEF ApplySet, stmtVars
<1>2. Last \in Nat /\ c \in Nat \ {0}
  BY LastNat DEF TypeInv, NodesInv, LoopOK, ApplySet
<1>3. Last' = Last /\ \A k : Name(k)' = Name(k) /\ (Repeated(k)' <=> Repeated(k))
  BY <1>1, ListKept
<1>4. Did(n)' = {j \in 1 .. Last : j < c + 1 /\ Name(j) = n /\ ~Repeated(j)}
  <2> HIDE DEF Name, Repeated, Last
  <2> QED BY <1>1, <1>3 DEF Did
<1>5. \A j \in 1 .. Last : j < c + 1 <=> j < c \/ j = c
  BY <1>2
<1>6. c \in 1 .. Last
  BY <1>1, <1>2
<1> HIDE DEF Name, Repeated, Last
<1> QED BY <1>4, <1>5, <1>6 DEF Did

\* All columns of its name have given the same value.
LEMMA Given ==
    ASSUME TypeInv, ApplySet, ~Repeated(c), NEW n, Name(c) = n
    PROVE  c \in Did(n)' /\ \A j \in Did(n)' : Val(j) = Val(c)
<1>1. Did(n)' = Did(n) \cup {c}
  BY DidStep
<1>2. c \in 1 .. Last
  BY LastNat DEF TypeInv, NodesInv, LoopOK, ApplySet
<1>3. \A j \in Did(n) : j \in 1 .. Last /\ Name(j) = n /\ ~Repeated(j)
  BY DEF Did
<1> HIDE DEF Name, Repeated, Last, Val, Did
<1> QED BY <1>1, <1>2, <1>3, SameVal

\* A step keeps what the loop says of each key: its own column's, or another one's.
LEMMA PlainStep ==
    ASSUME TypeInv, ApplySet, PlainOK
    PROVE  PlainOK'
<1> DEFINE r == UpdateColumn(event, Name(c), Val(c), AllDay)
<1>1. /\ got' = got /\ event' = IF Repeated(c) THEN event ELSE r
      /\ \A k : Val(k)' = Val(k)
  BY ListKept DEF ApplySet, UpdateColumn, stmtVars
<1> HIDE DEF Name, Repeated, Last, Val, Did, AllDay
<1> SUFFICES ASSUME NEW n \in Plain
             PROVE  /\ Did(n)' = {} => Get(event', WritableKey(n)) = Get(got, WritableKey(n))
                    /\ \A j \in Did(n)' :
                          Get(event', WritableKey(n)) = Stored(n, Val(j), Get(got, WritableKey(n)))
  BY <1>1 DEF PlainOK
<1>2. /\ Did(n) = {} => Get(event, WritableKey(n)) = Get(got, WritableKey(n))
      /\ \A j \in Did(n) :
            Get(event, WritableKey(n)) = Stored(n, Val(j), Get(got, WritableKey(n)))
  BY DEF PlainOK
<1>3. CASE Repeated(c)
  BY <1>1, <1>2, <1>3, DidStep
<1>4. CASE ~Repeated(c) /\ Name(c) # n
  <2>1. Did(n)' = Did(n)
    BY <1>4, DidStep
  <2>2. event' = r
    BY <1>1, <1>4
  <2>3. Kept(r, event, WritableKey(n))
    <3>1. WritableKey(n) \notin TimeColumns
      BY KeysApart DEF Plain
    <3>2. CASE Name(c) \in Plain
      BY <1>4, <3>2, KeysDistinct, ApplyPlain
    <3>3. CASE Name(c) \in TimeColumns
      <4>1. r = UpdateColumn(event, Name(c), Val(c), AllDay)
        OBVIOUS
      <4> HIDE DEF r
      <4> QED BY <3>1, <3>3, <4>1, ApplyTime
    <3>4. CASE Name(c) = "all_day"
      <4>1. r = UpdateColumn(event, "all_day", Val(c), AllDay)
        BY <3>4
      <4> HIDE DEF r
      <4> QED BY <3>1, <4>1, ApplyAllDayColumn
    <3>5. CASE ~Writable(Name(c), TRUE)
      <4>1. r = event
        BY <3>5, ApplyOther
      <4> HIDE DEF r
      <4> QED BY <4>1 DEF Kept
    <3> QED BY <3>2, <3>3, <3>4, <3>5 DEF Writable, Plain
  <2> HIDE DEF r
  <2>4. Get(event', WritableKey(n)) = Get(event, WritableKey(n))
    BY <2>2, <2>3, KeptGet
  <2> QED BY <1>2, <2>1, <2>4
<1>5. CASE ~Repeated(c) /\ Name(c) = n
  <2> DEFINE key == WritableKey(n)
             old == Get(got, key)
  <2>1. c \in Did(n)' /\ \A j \in Did(n)' : Val(j) = Val(c)
    BY <1>5, Given
  <2>2. Did(n)' = Did(n) \cup {c}
    BY <1>5, DidStep
  <2>3. Get(event', key) = Stored(n, Val(c), Get(event, key))
    <3>1. event' = UpdateColumn(event, n, Val(c), AllDay)
      BY <1>1, <1>5
    <3> QED BY <3>1, ApplyPlain
  <2> HIDE DEF key, old
  <2>4. Get(event, key) = old \/ Get(event, key) = Stored(n, Val(c), old)
    BY <1>2, <2>1, <2>2 DEF key, old
  <2>5. Get(event', key) = Stored(n, Val(c), old)
    BY <2>3, <2>4 DEF Stored
  <2> QED BY <2>1, <2>5 DEF key, old
<1> QED BY <1>3, <1>4, <1>5

LEMMA TimesStep ==
    ASSUME TypeInv, ApplySet, TimesOK
    PROVE  TimesOK'
<1> DEFINE r == UpdateColumn(event, Name(c), Val(c), AllDay)
<1>1. /\ got' = got /\ event' = IF Repeated(c) THEN event ELSE r
      /\ AllDay' = AllDay /\ \A k : Val(k)' = Val(k)
  BY ListKept DEF ApplySet, UpdateColumn, stmtVars
<1>0. AllDay \in BOOLEAN
  BY LastNat DEF TypeInv, NodesInv
<1>2. ASSUME NEW n \in TimeColumns, NEW j \in Did(n) PROVE Val(j) \in Int \cup {Null}
  <2>1. j \in 1 .. Last /\ Name(j) = n /\ phase = "apply"
    BY <1>2 DEF Did, ApplySet
  <2> HIDE DEF Name, Last, Val
  <2> QED BY <2>1, ValType
<1> HIDE DEF Name, Repeated, Last, Val, Did, AllDay
<1> SUFFICES ASSUME NEW n \in TimeColumns
             PROVE  /\ Did(n)' = {} /\ Did("all_day")' = {} => n \in DOMAIN event' /\ event'[n] = got[n]
                    /\ \A j \in Did(n)' :
                          n \in DOMAIN event' => Val(j) # Null /\ event'[n] = TimeNode(Val(j), AllDay)
  BY <1>1 DEF TimesOK
<1>3. /\ Did(n) = {} /\ Did("all_day") = {} => n \in DOMAIN event /\ event[n] = got[n]
      /\ \A j \in Did(n) :
            n \in DOMAIN event => Val(j) # Null /\ event[n] = TimeNode(Val(j), AllDay)
  BY DEF TimesOK
<1>4. CASE Repeated(c)
  BY <1>1, <1>3, <1>4, DidStep
<1>5. CASE ~Repeated(c) /\ Name(c) # n /\ Name(c) # "all_day"
  <2>1. Did(n)' = Did(n) /\ Did("all_day")' = Did("all_day")
    BY <1>5, DidStep
  <2>2. event' = r
    BY <1>1, <1>5
  <2>3. Kept(r, event, n)
    <3>1. CASE Name(c) \in Plain
      <4>1. WritableKey(Name(c)) # n
        BY <3>1, KeysApart DEF Plain
      <4> QED BY <3>1, <4>1, ApplyPlain
    <3>2. CASE Name(c) \in TimeColumns
      <4>1. r = UpdateColumn(event, Name(c), Val(c), AllDay)
        OBVIOUS
      <4> HIDE DEF r
      <4> QED BY <1>5, <3>2, <4>1, ApplyTime
    <3>3. CASE ~Writable(Name(c), TRUE)
      <4>1. r = event
        BY <3>3, ApplyOther
      <4> HIDE DEF r
      <4> QED BY <4>1 DEF Kept
    <3> QED BY <1>5, <3>1, <3>2, <3>3 DEF Writable, Plain
  <2> HIDE DEF r
  <2> QED BY <1>3, <2>1, <2>2, <2>3 DEF Kept
<1>6. CASE ~Repeated(c) /\ Name(c) = n
  <2>1. c \in Did(n)' /\ \A j \in Did(n)' : Val(j) = Val(c)
    BY <1>6, Given
  <2>2. event' = UpdateColumn(event, n, Val(c), AllDay)
    BY <1>1, <1>6
  <2>3. n \in DOMAIN event' => Val(c) # Null /\ event'[n] = TimeNode(Val(c), AllDay)
    BY <2>2, ApplyTime
  <2> QED BY <2>1, <2>3
<1>7. CASE ~Repeated(c) /\ Name(c) = "all_day"
  <2>1. n # "all_day"
    BY TimeKeys
  <2>2. c \in Did("all_day")' /\ Did(n)' = Did(n)
    BY <1>7, <2>1, Given, DidStep
  <2>3. event' = UpdateColumn(event, "all_day", Val(c), AllDay)
    BY <1>1, <1>7
  <2>4. n \in DOMAIN event' => n \in DOMAIN event /\ event'[n] = Reencoded(event[n], AllDay)
    BY <2>3, ApplyAllDayColumn
  <2>5. ASSUME NEW j \in Did(n), n \in DOMAIN event'
        PROVE  Val(j) # Null /\ event'[n] = TimeNode(Val(j), AllDay)
    <3>1. Val(j) # Null /\ event[n] = TimeNode(Val(j), AllDay)
      BY <1>3, <2>4, <2>5
    <3>2. Val(j) \in Int
      BY <1>2, <2>5, <3>1
    <3>3. Reencoded(TimeNode(Val(j), AllDay), AllDay) = TimeNode(Val(j), AllDay)
      BY <1>0, <3>2, NodeStays
    <3> QED BY <2>4, <2>5, <3>1, <3>3
  <2> QED BY <2>2, <2>5
<1> QED BY <1>4, <1>5, <1>6, <1>7

\* A date that is written is a midnight.
LEMMA NodeDates ==
    /\ \A val \in Int, all_day \in BOOLEAN :
          TimeNode(val, all_day).form = "date" =>
              TimeNode(val, all_day).wall % Day = 0 /\ TimeNode(val, all_day).ahead = 0
    /\ \A node \in Nodes, all_day \in BOOLEAN :
          Reencoded(node, all_day).form = "date" =>
              Reencoded(node, all_day).wall % Day = 0 /\ Reencoded(node, all_day).ahead = 0
<1>1. ASSUME NEW t \in Int
      PROVE  Node("date", Midnight(t), 0).wall % Day = 0 /\ Node("date", Midnight(t), 0).ahead = 0
  <2>1. Node("date", Midnight(t), 0).wall = Midnight(t) /\ Node("date", Midnight(t), 0).ahead = 0
    BY DEF Node
  <2> QED BY <2>1, MidnightDate
<1>2. \A t \in Int : Node("dateTime", t, 0).form # "date"
  BY DEF Node
<1>3. ASSUME NEW val \in Int, NEW all_day \in BOOLEAN
      PROVE  TimeNode(val, all_day).form = "date" =>
                 TimeNode(val, all_day).wall % Day = 0 /\ TimeNode(val, all_day).ahead = 0
  <2>1. TimeNode(val, all_day) = Node("date", Midnight(val), 0)
        \/ TimeNode(val, all_day) = Node("dateTime", val, 0)
    BY DEF TimeNode
  <2> HIDE DEF TimeNode
  <2> QED BY <1>1, <1>2, <2>1
<1>4. ASSUME NEW node \in Nodes, NEW all_day \in BOOLEAN
      PROVE  Reencoded(node, all_day).form = "date" =>
                 Reencoded(node, all_day).wall % Day = 0 /\ Reencoded(node, all_day).ahead = 0
  <2>1. node.form \in {"date", "dateTime"} /\ node.wall \in Int
    BY DEF Nodes, Form
  <2>2. CASE all_day = TRUE
    <3>1. Reencoded(node, all_day) = Node("date", Midnight(node.wall), 0)
      BY <2>2 DEF Reencoded
    <3> QED BY <1>1, <2>1, <3>1
  <2>3. CASE all_day = FALSE /\ node.form = "date"
    <3>1. Reencoded(node, all_day) = Node("dateTime", node.wall, 0)
      BY <2>3 DEF Reencoded
    <3> QED BY <1>2, <2>1, <3>1
  <2>4. CASE all_day = FALSE /\ node.form = "dateTime"
    <3>1. Reencoded(node, all_day) = node
      BY <2>4 DEF Reencoded
    <3> QED BY <2>4, <3>1
  <2> QED BY <2>1, <2>2, <2>3, <2>4
<1> QED BY <1>3, <1>4

LEMMA DatesStep ==
    ASSUME TypeInv, ApplySet, OnDates(event)
    PROVE  OnDates(event')
<1> DEFINE r == UpdateColumn(event, Name(c), Val(c), AllDay)
<1>1. event' = (IF Repeated(c) THEN event ELSE r) /\ phase = "apply"
  BY DEF ApplySet, UpdateColumn
<1>2. AllDay \in BOOLEAN /\ c \in 1 .. Last
  BY LastNat DEF TypeInv, NodesInv, LoopOK, ApplySet
<1>3. \A k \in TimeColumns \cap DOMAIN event : event[k] \in Nodes
  BY <1>1 DEF TypeInv, TypeOK, IsEvent
<1>4. Name(c) \in TimeColumns => Val(c) \in Int \cup {Null}
  BY <1>1, <1>2, ValType
<1> HIDE DEF Name, Repeated, Last, Val, AllDay
<1>5. ASSUME NEW n \in TimeColumns, Name(c) = n
      PROVE  n \in DOMAIN r => Val(c) # Null /\ r[n] = TimeNode(Val(c), AllDay)
  <2>1. r = UpdateColumn(event, n, Val(c), AllDay)
    BY <1>5
  <2> HIDE DEF r
  <2> QED BY <2>1, ApplyTime
<1>6. OnDates(r)
  <2> SUFFICES ASSUME NEW k \in TimeColumns, k \in DOMAIN r, r[k].form = "date"
               PROVE  r[k].wall % Day = 0 /\ r[k].ahead = 0
    BY DEF OnDates
  <2>1. Kept(r, event, k) => r[k].wall % Day = 0 /\ r[k].ahead = 0
    BY DEF OnDates, Kept
  <2>2. CASE Name(c) \in Plain
    <3>1. WritableKey(Name(c)) # k
      BY <2>2, KeysApart DEF Plain
    <3>2. Kept(r, event, k)
      BY <2>2, <3>1, ApplyPlain
    <3> QED BY <2>1, <3>2
  <2>3. CASE Name(c) \in TimeColumns /\ Name(c) # k
    <3>1. r = UpdateColumn(event, Name(c), Val(c), AllDay)
      OBVIOUS
    <3> HIDE DEF r
    <3>2. Kept(r, event, k)
      BY <2>3, <3>1, ApplyTime
    <3> QED BY <2>1, <3>2
  <2>4. CASE Name(c) \in TimeColumns /\ Name(c) = k
    <3> HIDE DEF r
    <3>1. Val(c) # Null /\ r[k] = TimeNode(Val(c), AllDay)
      BY <1>5, <2>4
    <3>2. Val(c) \in Int
      BY <1>4, <2>4, <3>1
    <3> QED BY <1>2, <3>1, <3>2, NodeDates
  <2>5. CASE Name(c) = "all_day"
    <3>1. r = UpdateColumn(event, "all_day", Val(c), AllDay)
      BY <2>5
    <3> HIDE DEF r
    <3>2. k \in DOMAIN event /\ r[k] = Reencoded(event[k], AllDay)
      BY <3>1, ApplyAllDayColumn
    <3> QED BY <1>2, <1>3, <3>2, NodeDates
  <2>6. CASE ~Writable(Name(c), TRUE)
    <3>1. r = event
      BY <2>6, ApplyOther
    <3> HIDE DEF r
    <3>2. Kept(r, event, k)
      BY <3>1 DEF Kept
    <3> QED BY <2>1, <3>2
  <2> QED BY <2>2, <2>3, <2>4, <2>5, <2>6 DEF Writable, Plain
<1> QED BY <1>1, <1>6

-----------------------------------------------------------------------------
LEMMA ColumnsInit == Init => ColumnsInv
<1> SUFFICES ASSUME Init PROVE SoundOK /\ HadOK /\ ColumnsOK
  BY TypeInit DEF ColumnsInv
<1>1. DOMAIN rows = {} /\ items = {} /\ phase = "scan"
  BY EmptySeq DEF Init
<1>2. \A i \in Present : Sound(store[i])
  <2>1. \A b \in Bodies : IsEvent(b) /\ OnDates(b)
    BY UpdateAssumption, DatesAssumption DEF OnDates
  <2>2. \A i \in Present : store[i] \in Bodies /\ NodesOK(store[i])
    BY NodesInit DEF Init, Present, NodesInv, StoreOK
  <2> QED BY <2>1, <2>2 DEF Sound
<1>3. Waiting = {} /\ had = [i \in Ids |-> had[i]]
  BY <1>1 DEF Init, Waiting
<1> QED BY <1>1, <1>2, <1>3 DEF SoundOK, HadOK, ColumnsOK

\* What is written is as sound as what was there.
LEMMA SoundStep ==
    ASSUME ColumnsInv, [Next]_vars
    PROVE  SoundOK'
<1>1. TypeInv /\ SoundOK /\ ColumnsOK /\ TypeInv'
  BY TypeStep DEF ColumnsInv
<1>2. \A i \in Present' : IsEvent(store'[i]) /\ NodesOK(store'[i])
  BY <1>1 DEF TypeInv, TypeOK, NodesInv, StoreOK
<1>3. CASE OtherChanges
  <2>1. PICK i \in Ids, b \in Bodies \cup {None} : store' = [store EXCEPT ![i] = b]
    BY <1>3 DEF OtherChanges
  <2>2. \A e \in Bodies : OnDates(e)
    BY DatesAssumption DEF OnDates
  <2>3. store = [j \in Ids |-> store[j]]
    BY <1>1 DEF TypeInv, NodesInv, StoreOK
  <2>4. \A j \in Present' : OnDates(store'[j])
    BY <1>1, <2>1, <2>2, <2>3 DEF SoundOK, Sound, Present
  <2>5. UNCHANGED <<items, rows>>
    BY <1>3 DEF OtherChanges, scanVars
  <2> QED BY <1>1, <1>2, <2>4, <2>5 DEF SoundOK, Sound
<1>4. CASE Update
  <2>1. /\ store' = [store EXCEPT ![Row.id] = event] /\ items' = items /\ rows' = Tail(rows)
        /\ phase = "put"
    BY <1>4 DEF Update, scanVars
  <2>2. OnDates(event)
    BY <1>1, <2>1 DEF ColumnsOK
  <2>3. store = [j \in Ids |-> store[j]] /\ IsSeq(rows) /\ rows # << >>
    BY <1>1, <2>1 DEF TypeInv, NodesInv, StoreOK, RowsOK
  <2> HIDE DEF Row
  <2>4. \A j \in Present' : OnDates(store'[j])
    BY <1>1, <2>1, <2>2, <2>3 DEF SoundOK, Sound, Present
  <2>5. \A k \in DOMAIN rows' : k + 1 \in DOMAIN rows /\ rows'[k] = rows[k + 1]
    BY <2>1, <2>3, TailSeq
  <2> QED BY <1>1, <1>2, <2>1, <2>4, <2>5 DEF SoundOK, Sound
<1>5. CASE FetchPage
  <2>1. UNCHANGED <<store, rows>> /\ \A r \in items' : \E i \in Present : r.event = store[i]
    BY <1>5 DEF FetchPage, Left
  <2> QED BY <1>1, <2>1 DEF SoundOK, Present
<1>6. CASE EmitRow
  <2>1. PICK r \in items : /\ items' = items \ {r}
                           /\ rows' = IF Matches(r.event) THEN Append(rows, r) ELSE rows
    BY <1>6 DEF EmitRow
  <2>2. store' = store
    BY <1>6 DEF EmitRow
  <2>3. \A k \in DOMAIN rows' : Sound(rows'[k].event)
    <3>1. IsSeq(rows)
      BY <1>1 DEF TypeInv, NodesInv, RowsOK
    <3>2. CASE Matches(r.event)
      <4>1. /\ DOMAIN rows' = DOMAIN rows \cup {Len(rows) + 1}
            /\ \A k \in DOMAIN rows : rows'[k] = rows[k]
            /\ rows'[Len(rows) + 1] = r
        BY <2>1, <3>1, <3>2, AppendSeq
      <4> QED BY <1>1, <4>1 DEF SoundOK
    <3>3. CASE ~Matches(r.event)
      BY <1>1, <2>1, <3>3 DEF SoundOK
    <3> QED BY <3>2, <3>3
  <2> QED BY <1>1, <2>1, <2>2, <2>3 DEF SoundOK, Present
<1>7. CASE TakeChunk \/ Finish \/ GetEvent \/ ApplySet \/ Refuse \/ Applied \/ Fails \/ UNCHANGED vars
  <2>1. UNCHANGED <<store, items, rows>>
    BY <1>7 DEF TakeChunk, Finish, GetEvent, ApplySet, Refuse, Applied, Fails, vars, scanVars
  <2> QED BY <1>1, <2>1 DEF SoundOK, Present
<1> QED BY <1>3, <1>4, <1>5, <1>6, <1>7 DEF Next, Statement, Sink

\* The history of an event on its way has what its row says and what it is now.
LEMMA HadStep ==
    ASSUME ColumnsInv, [Next]_vars
    PROVE  HadOK'
<1>1. TypeInv /\ HadOK /\ had = [i \in Ids |-> had[i]] /\ store = [i \in Ids |-> store[i]]
  BY DEF ColumnsInv, HadOK, TypeInv, NodesInv, StoreOK
<1>2. /\ \A r \in items : r.id \in Ids
      /\ \A k \in DOMAIN rows : rows[k].id \in Ids
      /\ IsSeq(rows)
  BY <1>1 DEF TypeInv, NodesInv, RowsOK
<1>3. CASE OtherChanges
  <2>1. PICK i \in Ids, b \in Bodies \cup {None} :
          /\ store' = [store EXCEPT ![i] = b]
          /\ had' = [had EXCEPT ![i] = @ \cup ({b} \ {None})]
    BY <1>3 DEF OtherChanges
  <2>2. UNCHANGED <<items, rows>>
    BY <1>3 DEF OtherChanges, scanVars
  <2>3. had' = [j \in Ids |-> had'[j]] /\ \A j \in Ids : had[j] \subseteq had'[j]
    BY <1>1, <2>1
  <2>4. Waiting' = Waiting
    BY <2>2 DEF Waiting
  <2>5. \A j \in Waiting' \cap Present' : store'[j] \in had'[j]
    <3> SUFFICES ASSUME NEW j \in Waiting, j \in Ids, store'[j] # None PROVE store'[j] \in had'[j]
      BY <2>4 DEF Present
    <3>1. CASE j = i
      BY <1>1, <2>1, <3>1
    <3>2. CASE j # i
      BY <1>1, <2>1, <3>2 DEF HadOK, Present
    <3> QED BY <3>1, <3>2
  <2> QED BY <1>1, <1>2, <2>2, <2>3, <2>5 DEF HadOK
<1>4. CASE Update
  <2>1. /\ store' = [store EXCEPT ![Row.id] = event]
        /\ had' = [had EXCEPT ![Row.id] = @ \cup {event}]
        /\ items' = items /\ rows' = Tail(rows) /\ phase = "put"
    BY <1>4 DEF Update, scanVars
  <2>2. rows # << >>
    BY <1>1, <2>1 DEF TypeInv, NodesInv, RowsOK
  <2> HIDE DEF Row
  <2>3. had' = [j \in Ids |-> had'[j]] /\ \A j \in Ids : had[j] \subseteq had'[j]
    BY <1>1, <2>1
  <2>4. \A k \in DOMAIN rows' : k + 1 \in DOMAIN rows /\ rows'[k] = rows[k + 1]
    BY <1>2, <2>1, <2>2, TailSeq
  <2>5. Waiting' \subseteq Waiting
    BY <2>1, <2>4 DEF Waiting
  <2>6. \A j \in Waiting' \cap Present' : store'[j] \in had'[j]
    <3> SUFFICES ASSUME NEW j \in Waiting, j \in Ids, store'[j] # None PROVE store'[j] \in had'[j]
      BY <2>5 DEF Present
    <3>1. CASE j = Row.id
      BY <1>1, <2>1, <3>1
    <3>2. CASE j # Row.id
      BY <1>1, <2>1, <3>2 DEF HadOK, Present
    <3> QED BY <3>1, <3>2
  <2>7. \A r \in items' : r.event \in had'[r.id]
    BY <1>1, <1>2, <2>1, <2>3 DEF HadOK
  <2>8. \A k \in DOMAIN rows' : rows'[k].event \in had'[rows'[k].id]
    <3> SUFFICES ASSUME NEW k \in DOMAIN rows' PROVE rows'[k].event \in had'[rows'[k].id]
      OBVIOUS
    <3>1. rows[k + 1].event \in had[rows[k + 1].id] /\ rows[k + 1].id \in Ids
      BY <1>1, <1>2, <2>4 DEF HadOK
    <3>2. rows[k + 1].event \in had'[rows[k + 1].id]
      BY <2>3, <3>1
    <3> QED BY <2>4, <3>2
  <2> QED BY <2>3, <2>6, <2>7, <2>8 DEF HadOK
<1>5. CASE FetchPage
  <2>1. PICK P \in SUBSET Left :
          /\ items' = {[id |-> i, event |-> store[i]] : i \in P}
          /\ had' = [i \in Ids |-> IF i \in P THEN {store[i]} \cup (IF i \in Waiting THEN had[i] ELSE {})
                                   ELSE had[i]]
    BY <1>5 DEF FetchPage
  <2>2. UNCHANGED <<store, rows>> /\ P \subseteq Ids
    BY <1>5 DEF FetchPage, Left, Present
  <2>3. \A k \in DOMAIN rows : rows[k].id \in Waiting
    BY DEF Waiting
  <2>4. had' = [i \in Ids |-> had'[i]]
    BY <2>1
  <2>5. \A i \in Ids \cap Waiting : had[i] \subseteq had'[i]
    BY <2>1
  <2>6. \A i \in P : store[i] \in had'[i]
    BY <2>1, <2>2
  <2> HIDE DEF Left
  <2>7. \A i \in Waiting' : i \in P \/ i \in Waiting
    BY <2>1, <2>2 DEF Waiting
  <2>8. \A i \in Waiting' \cap Present' : store'[i] \in had'[i]
    BY <1>1, <2>2, <2>5, <2>6, <2>7 DEF HadOK, Present
  <2>9. \A r \in items' : r.event \in had'[r.id]
    <3> SUFFICES ASSUME NEW r \in items' PROVE r.event \in had'[r.id]
      OBVIOUS
    <3>1. PICK i \in P : r = [id |-> i, event |-> store[i]]
      BY <2>1
    <3>2. r.id = i /\ r.event = store[i]
      BY <3>1
    <3> QED BY <2>6, <3>2
  <2>10. \A k \in DOMAIN rows' : rows'[k].event \in had'[rows'[k].id]
    BY <1>1, <1>2, <2>2, <2>3, <2>5 DEF HadOK
  <2> QED BY <2>4, <2>8, <2>9, <2>10 DEF HadOK
<1>6. CASE EmitRow
  <2>1. PICK r \in items : /\ items' = items \ {r}
                           /\ rows' = IF Matches(r.event) THEN Append(rows, r) ELSE rows
    BY <1>6 DEF EmitRow
  <2>2. UNCHANGED <<store, had>>
    BY <1>6 DEF EmitRow, history
  <2>3. \A k \in DOMAIN rows' : (k \in DOMAIN rows /\ rows'[k] = rows[k]) \/ rows'[k] = r
    <3>1. CASE Matches(r.event)
      <4>1. /\ DOMAIN rows' = DOMAIN rows \cup {Len(rows) + 1}
            /\ \A k \in DOMAIN rows : rows'[k] = rows[k]
            /\ rows'[Len(rows) + 1] = r
        BY <1>2, <2>1, <3>1, AppendSeq
      <4> QED BY <4>1
    <3>2. CASE ~Matches(r.event)
      BY <2>1, <3>2
    <3> QED BY <3>1, <3>2
  <2>4. Waiting' \subseteq Waiting
    BY <2>1, <2>3 DEF Waiting
  <2> QED BY <1>1, <2>1, <2>2, <2>3, <2>4 DEF HadOK, Present
<1>7. CASE TakeChunk \/ Finish \/ GetEvent \/ ApplySet \/ Refuse \/ Applied \/ Fails \/ UNCHANGED vars
  <2>1. UNCHANGED <<store, items, rows, had>>
    BY <1>7 DEF TakeChunk, Finish, GetEvent, ApplySet, Refuse, Applied, Fails, vars, scanVars, history
  <2> QED BY <1>1, <2>1 DEF HadOK, Present, Waiting
<1> QED BY <1>3, <1>4, <1>5, <1>6, <1>7 DEF Next, Statement, Sink

LEMMA ColumnsStep == ColumnsInv /\ [Next]_vars => ColumnsInv'
<1> SUFFICES ASSUME ColumnsInv, [Next]_vars PROVE ColumnsOK'
  BY TypeStep, SoundStep, HadStep DEF ColumnsInv
<1>1. TypeInv /\ SoundOK /\ HadOK /\ ColumnsOK
  BY DEF ColumnsInv
<1>2. CASE GetEvent
  <2>1. /\ phase = "get" /\ store[Row.id] # None /\ got' = store[Row.id] /\ event' = store[Row.id]
        /\ c' = 1 /\ UNCHANGED <<rows, had>>
    BY <1>2 DEF GetEvent, history
  <2>2. Row = rows[1] /\ 1 \in DOMAIN rows /\ Row' = Row /\ Row.id \in Ids
    BY <1>1, <2>1, TailSeq DEF TypeInv, NodesInv, RowsOK, Row
  <2> HIDE DEF Row
  <2>3. Row.id \in Waiting \cap Present
    BY <2>1, <2>2 DEF Waiting, Present
  <2>4. Sound(got') /\ got' \in had'[Row'.id]
    BY <1>1, <2>1, <2>2, <2>3 DEF SoundOK, HadOK
  <2>5. \A n : Did(n)' = {}
    <3>1. \A n : \A j \in Did(n)' : j \in 1 .. Last' /\ j < c'
      BY DEF Did
    <3>2. Last' \in Int
      <4>1. NodesInv'
        BY <1>1, <1>2, NodesStep DEF TypeInv
      <4> QED BY <4>1, LastNat DEF NodesInv, StoreOK, Last
    <3> HIDE DEF Did, Last
    <3> QED BY <2>1, <3>1, <3>2
  <2>6. PlainOK'
    <3> HIDE DEF Did
    <3> QED BY <2>1, <2>5 DEF PlainOK
  <2>7. TimesOK'
    <3>1. \A n \in TimeColumns : n \in DOMAIN got'
      BY <2>4 DEF Sound, NodesOK, Complete
    <3> HIDE DEF Did
    <3> QED BY <2>1, <2>5, <3>1 DEF TimesOK
  <2>8. OnDates(event')
    BY <2>1, <2>4 DEF Sound
  <2> QED BY <2>4, <2>6, <2>7, <2>8 DEF ColumnsOK
<1>3. CASE ApplySet
  <2>1. UNCHANGED <<got, rows, had>> /\ phase = "apply"
    BY <1>3 DEF ApplySet, history
  <2>2. Sound(got) /\ OnDates(event) /\ got \in had[Row.id] /\ PlainOK /\ TimesOK
    BY <1>1, <2>1 DEF ColumnsOK
  <2>3. Row' = Row
    BY <2>1 DEF Row
  <2>4. OnDates(event') /\ PlainOK' /\ TimesOK'
    BY <1>1, <1>3, <2>2, DatesStep, PlainStep, TimesStep
  <2> HIDE DEF Row
  <2>5. Sound(got') /\ got' \in had'[Row'.id]
    BY <2>1, <2>2, <2>3
  <2> QED BY <2>4, <2>5 DEF ColumnsOK
<1>4. CASE OtherChanges \/ Applied \/ UNCHANGED vars
  <2> SUFFICES ASSUME phase' \in {"apply", "put"}
               PROVE  Sound(got') /\ OnDates(event') /\ got' \in had'[Row'.id] /\ PlainOK' /\ TimesOK'
    BY DEF ColumnsOK
  <2>1. /\ UNCHANGED <<set, returning, rows, got, event, c>>
        /\ phase \in {"apply", "put"}
    BY <1>4 DEF OtherChanges, Applied, vars, stmtVars, scanVars, sinkVars
  <2>2. Sound(got) /\ OnDates(event) /\ got \in had[Row.id] /\ PlainOK /\ TimesOK
    BY <1>1, <2>1 DEF ColumnsOK
  <2>3. Row' = Row /\ Row.id \in Ids
    BY <1>1, <2>1, TailSeq DEF TypeInv, NodesInv, RowsOK, Row
  <2> HIDE DEF Row
  <2>4. had[Row.id] \subseteq had'[Row.id]
    <3>1. CASE OtherChanges
      <4>1. PICK i \in Ids, b \in Bodies \cup {None} : had' = [had EXCEPT ![i] = @ \cup ({b} \ {None})]
        BY <3>1 DEF OtherChanges
      <4> QED BY <1>1, <2>3, <4>1 DEF HadOK
    <3>2. CASE Applied \/ UNCHANGED vars
      <4>1. had' = had
        BY <3>2 DEF Applied, vars, history
      <4> QED BY <4>1
    <3> QED BY <1>4, <3>1, <3>2
  <2>5. PlainOK' /\ TimesOK'
    BY <2>1, <2>2, LoopFrozen
  <2> QED BY <2>1, <2>2, <2>3, <2>4, <2>5
<1>5. CASE FetchPage \/ EmitRow \/ TakeChunk \/ Finish \/ Refuse \/ Update \/ Fails
  <2>1. phase' \notin {"apply", "put"}
    BY <1>5 DEF FetchPage, EmitRow, TakeChunk, Finish, Refuse, Update, Fails
  <2> QED BY <2>1 DEF ColumnsOK
<1> QED BY <1>2, <1>3, <1>4, <1>5 DEF Next, Statement, Sink

-----------------------------------------------------------------------------
\* At the end of the loop every column has been applied or repeats another.
LEMMA AllDid ==
    ASSUME TypeInv, phase = "put", NEW j \in 1 .. Last, ~Repeated(j)
    PROVE  j \in Did(Name(j))
<1>1. c > Last /\ c \in Nat /\ Last \in Nat
  BY LastNat DEF TypeInv, NodesInv, LoopOK
<1>2. j < c
  BY <1>1
<1> HIDE DEF Name, Last, Repeated
<1> QED BY <1>2 DEF Did

\* The event that is written has the form the list asked for.
LEMMA WrittenForm ==
    ASSUME TypeInv, phase = "put", Complete(event)
    PROVE  ExistingAllDay(event) = AllDay
<1>1. "start" \in DOMAIN event /\ event["start"].form = Style(AllDay)
  BY PutForms DEF TypeInv, Styled, Complete, TimeColumns
<1>2. AllDay \in BOOLEAN
  BY LastNat DEF TypeInv, NodesInv
<1>3. (Style(AllDay) = "date") = AllDay
  BY <1>2 DEF Style
<1> HIDE DEF AllDay, Style
<1> QED BY <1>1, <1>3 DEF ExistingAllDay

\* A column that the list does not set comes with RETURNING alone, from the row.
LEMMA FromRow ==
    ASSUME TypeInv, NEW j \in 1 .. Last, Name(j) \notin SetNames(set)
    PROVE  returning /\ ~Repeated(j) /\ Val(j) = ExtractField(Row.event, Name(j))
<1>1. Len(set) \in Nat /\ DOMAIN set = 1 .. Len(set) /\ Last \in Nat
  BY LastNat, UpdateAssumption DEF TypeInv, TypeOK, NodesInv
<1>2. ~(j <= Len(set))
  <2> SUFFICES ASSUME j <= Len(set) PROVE FALSE
    OBVIOUS
  <2>1. j \in DOMAIN set /\ Name(j) = set[j].name
    BY <1>1 DEF Name
  <2> HIDE DEF Name
  <2> QED BY <2>1 DEF SetNames
<1>3. returning
  BY <1>1, <1>2 DEF Last
<1>4. Val(j) = ExtractField(Row.event, Name(j))
  BY <1>2 DEF Val
<1> QED BY <1>3, <1>4 DEF Repeated

LEMMA Reported ==
    ASSUME TypeInv, returning, NEW n \in Names
    PROVE  \E j \in 1 .. Last : Name(j) = n
<1>1. Len(set) \in Nat /\ Len(Columns) \in Nat /\ DOMAIN Columns = 1 .. Len(Columns)
  BY UpdateAssumption DEF TypeInv, TypeOK
<1>2. PICK m \in 1 .. Len(Columns) : Columns[m] = n
  BY <1>1 DEF Names
<1>3. Last = Len(set) + Len(Columns)
  BY DEF Last
<1>4. Len(set) + m \in 1 .. Last /\ ~(Len(set) + m <= Len(set)) /\ Len(set) + m - Len(set) = m
  BY <1>1, <1>3
<1>5. Name(Len(set) + m) = n
  BY <1>2, <1>4 DEF Name
<1> QED BY <1>4, <1>5

\* The form is that of the event read, or with RETURNING of the row, unless all_day is set.
LEMMA FormKept ==
    ASSUME TypeInv, "all_day" \notin SetNames(set)
    PROVE  AllDay = ExistingAllDay(IF returning THEN Row.event ELSE got)
<1>1. \A e : ExistingAllDay(e) \in BOOLEAN
  BY DEF ExistingAllDay
<1>2. \A j \in 1 .. Last : Name(j) = "all_day" =>
          returning /\ ~Repeated(j) /\ Val(j) = ExistingAllDay(Row.event)
  BY FromRow, ReadTimes
<1>3. returning => \E j \in 1 .. Last : Name(j) = "all_day"
  BY Reported, UpdateAssumption
<1> HIDE DEF Last, Name, Val, Repeated, ExistingAllDay
<1>4. CASE returning
  BY <1>1, <1>2, <1>3, <1>4 DEF AllDay
<1>5. CASE ~returning
  BY <1>2, <1>5 DEF AllDay
<1> QED BY <1>4, <1>5

\* A time written reads as it was, or as its day.
LEMMA TimeReadsBack ==
    ASSUME NEW e, NEW n \in DOMAIN e, NEW val \in Int, NEW all_day \in BOOLEAN,
           e[n] = TimeNode(val, all_day)
    PROVE  ParseEventTime(e, n) = IF all_day THEN Midnight(val) ELSE val
<1>1. e[n].wall = (IF all_day THEN Midnight(val) ELSE val) /\ e[n].ahead = 0
  BY DEF TimeNode, Node
<1>2. Midnight(val) \in Int
  BY MidnightDate
<1>3. PICK w \in Int : w = (IF all_day THEN Midnight(val) ELSE val) /\ e[n].wall = w
  BY <1>1, <1>2
<1>4. ParseEventTime(e, n) = w
  BY <1>1, <1>3 DEF ParseEventTime
<1> QED BY <1>3, <1>4

\* The times of an event as it was listed are written as they were read.
LEMMA SoundTimes ==
    ASSUME NEW e, Sound(e), NEW n \in TimeColumns
    PROVE  /\ ParseEventTime(e, n) \in Int
           /\ ExistingAllDay(e) => Midnight(ParseEventTime(e, n)) = ParseEventTime(e, n)
<1>1. /\ n \in DOMAIN e /\ "start" \in DOMAIN e /\ e[n].form = e["start"].form
      /\ e[n].wall \in Int /\ e[n].ahead \in Int
      /\ e[n].form = "date" => e[n].wall % Day = 0 /\ e[n].ahead = 0
  BY DEF Sound, IsEvent, NodesOK, Complete, OnDates, TimeColumns, Nodes
<1>2. ParseEventTime(e, n) = e[n].wall - e[n].ahead
  BY <1>1 DEF ParseEventTime
<1>3. ASSUME ExistingAllDay(e) PROVE Midnight(ParseEventTime(e, n)) = ParseEventTime(e, n)
  <2>1. e[n].wall % Day = 0 /\ e[n].ahead = 0
    BY <1>1, <1>3 DEF ExistingAllDay
  <2>2. ParseEventTime(e, n) = e[n].wall
    BY <1>1, <1>2, <2>1
  <2>3. Midnight(e[n].wall) = e[n].wall
    BY <1>1, <2>1, MidnightDate
  <2> QED BY <2>2, <2>3
<1> QED BY <1>1, <1>2, <1>3

-----------------------------------------------------------------------------
\* What Update writes, and what it had to do with.
LEMMA Written ==
    ASSUME ColumnsInv, Update
    PROVE  /\ phase = "put" /\ Complete(event) /\ store'[Row.id] = event
           /\ Sound(got) /\ got \in had[Row.id] /\ Sound(Row.event) /\ Row.event \in had[Row.id]
           /\ TypeInv /\ PlainOK /\ TimesOK
<1>1. phase = "put" /\ Complete(event) /\ store' = [store EXCEPT ![Row.id] = event]
  BY DEF Update
<1>2. TypeInv /\ SoundOK /\ HadOK /\ ColumnsOK
  BY DEF ColumnsInv
<1>3. Row = rows[1] /\ 1 \in DOMAIN rows /\ Row.id \in Ids
  BY <1>1, <1>2, TailSeq DEF TypeInv, NodesInv, RowsOK, Row
<1> HIDE DEF Row
<1>4. store'[Row.id] = event
  BY <1>1, <1>2, <1>3 DEF TypeInv, NodesInv, StoreOK
<1>5. Sound(Row.event) /\ Row.event \in had[Row.id]
  BY <1>2, <1>3 DEF SoundOK, HadOK
<1>6. Sound(got) /\ got \in had[Row.id] /\ PlainOK /\ TimesOK
  BY <1>1, <1>2 DEF ColumnsOK
<1> QED BY <1>1, <1>2, <1>4, <1>5, <1>6

\* A column that is not set, for RETURNING and without.
LEMMA UnsetKept ==
    ASSUME ColumnsInv, Update, NEW n \in Unset
    PROVE  \/ ~returning /\ ExtractField(event, n) = ExtractField(got, n)
           \/ returning /\ \E b \in {got, Row.event} : ExtractField(event, n) = ExtractField(b, n)
<1>1. /\ phase = "put" /\ Complete(event) /\ Sound(got) /\ Sound(Row.event)
      /\ TypeInv /\ PlainOK /\ TimesOK
  BY Written
<1>2. /\ n \in Names /\ Writable(n, TRUE) /\ n \notin SetNames(set)
      /\ "all_day" \in SetNames(set) => n \notin TimeColumns
  BY DEF Unset
<1>3. \A m : m \notin SetNames(set) /\ ~returning => Did(m) = {}
  <2> SUFFICES ASSUME NEW m, m \notin SetNames(set), ~returning, NEW j \in Did(m) PROVE FALSE
    OBVIOUS
  <2>1. j \in 1 .. Last /\ Name(j) = m
    BY DEF Did
  <2> HIDE DEF Did, Last, Name
  <2> QED BY <1>1, <2>1, FromRow
<1>4. ASSUME returning
      PROVE  \E j \in Did(n) : Val(j) = ExtractField(Row.event, n)
  <2>1. PICK j \in 1 .. Last : Name(j) = n
    BY <1>1, <1>2, <1>4, Reported
  <2>2. ~Repeated(j) /\ Val(j) = ExtractField(Row.event, n)
    BY <1>1, <1>2, <2>1, FromRow
  <2>3. j \in Did(n)
    BY <1>1, <2>1, <2>2, AllDid
  <2> QED BY <2>2, <2>3
<1> HIDE DEF Did, Last, Name, Val, Repeated, AllDay, Row, Unset
<1>5. CASE n \in Plain
  <2> DEFINE key == WritableKey(n)
  <2>1. \A e : ExtractField(e, n) = Get(e, key)
    BY <1>5, ReadPlain
  <2>2. /\ Did(n) = {} => Get(event, key) = Get(got, key)
        /\ \A j \in Did(n) : Get(event, key) = Stored(n, Val(j), Get(got, key))
    BY <1>1, <1>5 DEF PlainOK
  <2> HIDE DEF key
  <2>3. CASE ~returning
    <3>1. Did(n) = {}
      BY <1>2, <1>3, <2>3
    <3> QED BY <2>1, <2>2, <2>3, <3>1
  <2>4. CASE returning
    <3>1. PICK j \in Did(n) : Val(j) = ExtractField(Row.event, n)
      BY <1>4, <2>4
    <3>2. Get(event, key) = Get(got, key) \/ Get(event, key) = Val(j)
      BY <2>2 DEF Stored
    <3> QED BY <2>1, <2>4, <3>1, <3>2
  <2> QED BY <2>3, <2>4
<1>6. CASE n = "all_day"
  <2>1. ExtractField(event, n) = AllDay
    BY <1>1, <1>6, ReadTimes, WrittenForm
  <2>2. AllDay = ExistingAllDay(IF returning THEN Row.event ELSE got)
    BY <1>1, <1>2, <1>6, FormKept
  <2>3. \A e : ExtractField(e, n) = ExistingAllDay(e)
    BY <1>6, ReadTimes
  <2>4. CASE ~returning
    BY <2>1, <2>2, <2>3, <2>4
  <2>5. CASE returning
    BY <2>1, <2>2, <2>3, <2>5
  <2> QED BY <2>4, <2>5
<1>7. CASE n \in TimeColumns
  <2>1. "all_day" \notin SetNames(set)
    BY <1>2, <1>7
  <2>2. \A e : ExtractField(e, n) = ParseEventTime(e, n)
    BY <1>7, ReadEnds
  <2>3. n \in DOMAIN event /\ n \in DOMAIN got
    BY <1>1, <1>7 DEF Complete, Sound, NodesOK
  <2>4. CASE ~returning
    <3>1. Did(n) = {} /\ Did("all_day") = {}
      BY <1>2, <1>3, <2>1, <2>4
    <3>2. event[n] = got[n]
      BY <1>1, <1>7, <3>1 DEF TimesOK
    <3>3. ParseEventTime(event, n) = ParseEventTime(got, n)
      BY <2>3, <3>2 DEF ParseEventTime
    <3> QED BY <2>2, <2>4, <3>3
  <2>5. CASE returning
    <3>1. PICK j \in Did(n) : Val(j) = ExtractField(Row.event, n)
      BY <1>4, <2>5
    <3>2. event[n] = TimeNode(Val(j), AllDay)
      BY <1>1, <1>7, <2>3, <3>1 DEF TimesOK
    <3>3. Val(j) = ParseEventTime(Row.event, n)
      BY <2>2, <3>1
    <3>4. /\ Val(j) \in Int
          /\ ExistingAllDay(Row.event) => Midnight(Val(j)) = Val(j)
      BY <1>1, <1>7, <3>3, SoundTimes
    <3>5. AllDay = ExistingAllDay(Row.event) /\ AllDay \in BOOLEAN
      BY <1>1, <2>1, <2>5, FormKept, LastNat DEF TypeInv, NodesInv
    <3>6. ParseEventTime(event, n) = IF AllDay THEN Midnight(Val(j)) ELSE Val(j)
      BY <2>3, <3>2, <3>4, <3>5, TimeReadsBack
    <3>7. ParseEventTime(event, n) = Val(j)
      BY <3>4, <3>5, <3>6
    <3> QED BY <2>2, <2>5, <3>3, <3>7
  <2> QED BY <2>4, <2>5
<1> QED BY <1>2, <1>5, <1>6, <1>7 DEF Writable, Plain

\* A column that is set.
LEMMA SetReads ==
    ASSUME ColumnsInv, Update, NEW k \in DOMAIN set, Writable(set[k].name, TRUE)
    PROVE  ExtractField(event, set[k].name) = ReadBack(set[k].name, set[k].val, got)
<1>1. /\ phase = "put" /\ Complete(event) /\ TypeInv /\ PlainOK /\ TimesOK
  BY Written
<1>2. /\ Len(set) \in Nat /\ DOMAIN set = 1 .. Len(set) /\ Last \in Nat /\ Len(set) <= Last
      /\ AllDay \in BOOLEAN
  BY <1>1, LastNat, UpdateAssumption DEF TypeInv, TypeOK, NodesInv
<1>3. k \in 1 .. Last /\ k <= Len(set)
  BY <1>2
<1> DEFINE n == set[k].name
           val == set[k].val
<1>4. Name(k) = n /\ Val(k) = val /\ ~Repeated(k)
  BY <1>2, <1>3 DEF Name, Val, Repeated
<1>5. k \in Did(n)
  BY <1>1, <1>3, <1>4, AllDid
<1>6. \A j \in 1 .. Last : Name(j) = n /\ ~Repeated(j) => Val(j) = val
  <2> HIDE DEF Name, Val, Repeated, Last, n, val
  <2> QED BY <1>1, <1>3, <1>4, SameVal
<1>7. n \in TimeColumns => val \in Int \cup {Null}
  BY UpdateAssumption, <1>1 DEF TypeInv, TypeOK
<1> SUFFICES ExtractField(event, n) = ReadBack(n, val, got)
  OBVIOUS
<1>8. Writable(n, TRUE)
  OBVIOUS
<1> HIDE DEF n, val, Did, Last, Name, Val, Repeated
<1>9. CASE n \in Plain
  <2>1. \A e : ExtractField(e, n) = Get(e, WritableKey(n))
    BY <1>9, ReadPlain
  <2>2. ExtractField(event, n) = Stored(n, val, ExtractField(got, n))
    BY <1>1, <1>4, <1>5, <1>9, <2>1 DEF PlainOK
  <2>3. n \notin TimeColumns /\ n # "all_day"
    BY <1>9, KeysApart, TimeKeys DEF Plain
  <2>4. ReadBack(n, val, got) = Stored(n, val, ExtractField(got, n))
    BY <2>3 DEF ReadBack, Stored
  <2> QED BY <2>2, <2>4
<1>10. CASE n = "all_day"
  <2>1. ExtractField(event, n) = AllDay
    BY <1>1, <1>10, ReadTimes, WrittenForm
  <2>2. AllDay = (val = TRUE)
    BY <1>3, <1>4, <1>6, <1>10 DEF AllDay
  <2>3. ReadBack(n, val, got) = (val = TRUE)
    BY <1>10, KeysApart, TimeKeys DEF ReadBack
  <2> HIDE DEF AllDay
  <2> QED BY <2>1, <2>2, <2>3
<1>11. CASE n \in TimeColumns
  <2> HIDE DEF AllDay
  <2>1. n \in DOMAIN event
    BY <1>1, <1>11 DEF Complete
  <2>2. val # Null /\ event[n] = TimeNode(val, AllDay)
    BY <1>1, <1>4, <1>5, <1>11, <2>1 DEF TimesOK
  <2>3. val \in Int
    BY <1>7, <1>11, <2>2
  <2>4. ParseEventTime(event, n) = IF AllDay THEN Midnight(val) ELSE val
    BY <1>2, <2>1, <2>2, <2>3, TimeReadsBack
  <2>5. ExtractField(event, n) = ParseEventTime(event, n)
    BY <1>11, ReadEnds
  <2>6. ReadBack(n, val, got) = IF ExistingAllDay(event) THEN Midnight(val) ELSE val
    BY <1>11, <2>2, KeysApart, TimeKeys DEF ReadBack
  <2> QED BY <1>1, <2>4, <2>5, <2>6, WrittenForm
<1> QED BY <1>8, <1>9, <1>10, <1>11 DEF Writable, Plain

\* For any events, columns, SET lists and changes by others: CalendarUpdate::Sink, which
\* writes the whole event back, brings no other column to a value that it did not have
\* when it was read, or with RETURNING at some moment since it was listed.
THEOREM UnsetKeeps == Spec => UnsetColumnsKept
<1> DEFINE Keeps == Update => \A n \in Unset :
                        \E b \in IF returning THEN had[Row.id] ELSE {got} :
                           ExtractField(store'[Row.id], n) = ExtractField(b, n)
<1>1. ColumnsInv /\ [Next]_vars => [Keeps]_vars
  <2> SUFFICES ASSUME ColumnsInv, Update, NEW n \in Unset
               PROVE  \E b \in IF returning THEN had[Row.id] ELSE {got} :
                          ExtractField(store'[Row.id], n) = ExtractField(b, n)
    OBVIOUS
  <2>1. store'[Row.id] = event /\ got \in had[Row.id] /\ Row.event \in had[Row.id]
    BY Written
  <2>2. \/ ~returning /\ ExtractField(event, n) = ExtractField(got, n)
        \/ returning /\ \E b \in {got, Row.event} : ExtractField(event, n) = ExtractField(b, n)
    BY UnsetKept
  <2> HIDE DEF Row, Unset
  <2> QED BY <2>1, <2>2
<1> QED BY <1>1, ColumnsInit, ColumnsStep, PTL DEF Spec, UnsetColumnsKept

\* Whatever a SET list has before and after a column, with RETURNING or without: the
\* column reads as it was set (ApplyColumn, with all_day re-encoding both ends).
THEOREM SetReadsBack == Spec => SetColumnsReadBack
<1> DEFINE Reads == Update => \A k \in DOMAIN set : Writable(set[k].name, TRUE) =>
                        \E b \in IF returning THEN had[Row.id] ELSE {got} :
                           ExtractField(store'[Row.id], set[k].name)
                             = ReadBack(set[k].name, set[k].val, b)
<1>1. ColumnsInv /\ [Next]_vars => [Reads]_vars
  <2> SUFFICES ASSUME ColumnsInv, Update, NEW k \in DOMAIN set, Writable(set[k].name, TRUE)
               PROVE  \E b \in IF returning THEN had[Row.id] ELSE {got} :
                          ExtractField(store'[Row.id], set[k].name)
                            = ReadBack(set[k].name, set[k].val, b)
    OBVIOUS
  <2>1. store'[Row.id] = event /\ got \in had[Row.id]
    BY Written
  <2>2. ExtractField(event, set[k].name) = ReadBack(set[k].name, set[k].val, got)
    BY SetReads
  <2> HIDE DEF Row
  <2> QED BY <2>1, <2>2
<1> QED BY <1>1, ColumnsInit, ColumnsStep, PTL DEF Spec, SetColumnsReadBack
===============================================================================
