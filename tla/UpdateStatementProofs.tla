------------------------ MODULE UpdateStatementProofs ------------------------
(* The safety properties of UpdateStatement for any number of events, any    *)
(* SET lists, any columns and pages: what is written is an event the service *)
(* takes, and no event that matches is passed over by a scan that lists what *)
(* the statement changes.                                                    *)
EXTENDS UpdateStatement, FiniteSetTheorems, SequenceTheorems, TLAPS

\* The form of the nodes that ApplyColumn writes.
Style(all_day) == IF all_day THEN "date" ELSE "dateTime"

\* The time nodes of an event have forms.
Formed(e) == \A k \in TimeColumns \cap DOMAIN e : e[k].form \in Form
Styled(e, style) == \A k \in TimeColumns \cap DOMAIN e : e[k].form = style

\* An event with both ends, of one form.
NodesOK(e) == Complete(e) /\ Formed(e) /\ e["start"].form = e["end"].form

-----------------------------------------------------------------------------
\* Keys of other columns are not those of the time nodes.
LEMMA KeysApart ==
    /\ \A name \in StringColumns \cup BoolColumns \cup JsonColumns :
          WritableKey(name) \notin TimeColumns /\ name # "all_day" /\ name # "event_id"
    /\ (StringColumns \cup BoolColumns) \cap JsonColumns = {}
<1>1. StringColumns = {"summary", "description", "location", "status", "color_id", "transparency",
                      "visibility", "event_type"}
  BY DEF StringColumns, WritableStringKeys
<1>2. BoolColumns = {"anyone_can_add_self", "guests_can_invite_others", "guests_can_modify",
                    "guests_can_see_other_guests"}
  BY DEF BoolColumns, WritableBoolKeys
<1>3. JsonColumns = {"attendees", "recurrence", "reminders", "conference_data", "extended_properties",
                    "source", "attachments", "working_location_properties"}
  BY DEF JsonColumns, WritableJsonKeys
<1>4. \A name \in StringColumns : WritableStringKeys[name] \notin TimeColumns
  <2>1. \A name \in StringColumns : WritableStringKeys[name] \in
           {"summary", "description", "location", "status", "colorId", "transparency", "visibility", "eventType"}
    BY <1>1 DEF WritableStringKeys
  <2> QED BY <2>1 DEF TimeColumns
<1>5. \A name \in BoolColumns : WritableBoolKeys[name] \notin TimeColumns
  BY <1>2 DEF WritableBoolKeys, TimeColumns
<1>6. \A name \in JsonColumns : WritableJsonKeys[name] \notin TimeColumns
  <2>1. \A name \in JsonColumns : WritableJsonKeys[name] \in
           {"attendees", "recurrence", "reminders", "conferenceData", "extendedProperties", "source",
            "attachments", "workingLocationProperties"}
    BY <1>3 DEF WritableJsonKeys
  <2> QED BY <2>1 DEF TimeColumns
<1>7. \A name \in StringColumns : WritableKey(name) = WritableStringKeys[name]
  BY <1>1, <1>2, <1>3 DEF WritableKey, TimeColumns
<1>8. \A name \in BoolColumns : WritableKey(name) = WritableBoolKeys[name]
  BY <1>1, <1>2, <1>3 DEF WritableKey, TimeColumns
<1>9. \A name \in JsonColumns : WritableKey(name) = WritableJsonKeys[name]
  BY <1>1, <1>2, <1>3 DEF WritableKey, TimeColumns
<1>10. "all_day" \notin StringColumns \cup BoolColumns \cup JsonColumns
       /\ "event_id" \notin StringColumns \cup BoolColumns \cup JsonColumns
  BY <1>1, <1>2, <1>3
<1>11. (StringColumns \cup BoolColumns) \cap JsonColumns = {}
  BY <1>1, <1>2, <1>3
<1> QED BY <1>4, <1>5, <1>6, <1>7, <1>8, <1>9, <1>10, <1>11

\* Time columns have no key but their own name.
LEMMA TimeKeys ==
    \A name \in TimeColumns :
        /\ name \notin StringColumns \cup BoolColumns \cup JsonColumns
        /\ name # "all_day" /\ name # "event_id" /\ WritableKey(name) = name
BY DEF StringColumns, BoolColumns, JsonColumns, WritableStringKeys, WritableBoolKeys, WritableJsonKeys,
       WritableKey, TimeColumns

\* What re-encoding a node does to the forms.
LEMMA ReencodeForms ==
    ASSUME NEW e, Formed(e), NEW key \in TimeColumns, NEW all_day \in BOOLEAN
    PROVE  LET r == ReencodeTimeNode(e, key, all_day)
           IN  /\ DOMAIN r = DOMAIN e
               /\ key \in DOMAIN e => r[key].form = Style(all_day)
               /\ \A k \in DOMAIN e : k # key => r[k] = e[k]
<1>1. CASE key \notin DOMAIN e
  BY <1>1 DEF ReencodeTimeNode
<1>2. CASE key \in DOMAIN e
  <2>1. e[key].form \in {"date", "dateTime"}
    BY <1>2 DEF Formed, Form
  <2>2. PICK node : /\ ReencodeTimeNode(e, key, all_day) = With(e, key, node)
                    /\ node.form = Style(all_day)
    BY <1>2, <2>1 DEF ReencodeTimeNode, Style, Node
  <2> QED BY <1>2, <2>2 DEF With
<1> QED BY <1>1, <1>2

\* The time nodes of r have the style asked for, or are those of e.
StyledOrKept(r, e, name, all_day) ==
    \A k \in TimeColumns \cap DOMAIN r :
        \/ r[k].form = Style(all_day)
        \/ name # "all_day" /\ k \in DOMAIN e /\ r[k] = e[k]

\* After a column has been applied, a time node has the style asked for, or is as it
\* was; and it has that style if the column was all_day.
LEMMA ApplyForms ==
    ASSUME NEW e, Formed(e), NEW name, NEW val, NEW all_day \in BOOLEAN
    PROVE  StyledOrKept(ApplyColumn(e, name, val, all_day, TRUE), e, name, all_day)
<1> DEFINE r == ApplyColumn(e, name, val, all_day, TRUE)
<1> SUFFICES \A k \in TimeColumns \cap DOMAIN r :
                \/ r[k].form = Style(all_day)
                \/ name # "all_day" /\ k \in DOMAIN e /\ r[k] = e[k]
  BY DEF StyledOrKept
<1>1. CASE ~Writable(name, TRUE)
  <2>1. r = e /\ name # "all_day"
    BY <1>1 DEF ApplyColumn, Writable
  <2> QED BY <2>1
<1>2. CASE name = "all_day"
  <2>1. r = ApplyAllDay(e, all_day)
    BY <1>2, KeysApart, TimeKeys DEF ApplyColumn, Writable
  <2> DEFINE s == ReencodeTimeNode(e, "start", all_day)
  <2>2. DOMAIN s = DOMAIN e /\ ("start" \in DOMAIN e => s["start"].form = Style(all_day))
        /\ \A k \in DOMAIN e : k # "start" => s[k] = e[k]
    BY ReencodeForms DEF TimeColumns
  <2>3. Formed(s)
    BY <2>2 DEF Formed, Style, Form
  <2>4. LET q == ReencodeTimeNode(s, "end", all_day)
        IN  /\ DOMAIN q = DOMAIN s
            /\ "end" \in DOMAIN s => q["end"].form = Style(all_day)
            /\ \A k \in DOMAIN s : k # "end" => q[k] = s[k]
    <3> HIDE DEF s
    <3> QED BY <2>3, ReencodeForms DEF TimeColumns
  <2> QED BY <2>1, <2>2, <2>4 DEF ApplyAllDay, TimeColumns
<1>3. CASE name \in StringColumns \cup BoolColumns \cup JsonColumns
  <2> DEFINE key == WritableKey(name)
  <2>1. key \notin TimeColumns /\ name # "all_day" /\ name # "event_id" /\ Writable(name, TRUE)
    BY <1>3, KeysApart DEF Writable
  <2>2. name \notin TimeColumns
    BY <1>3, TimeKeys
  <2>3. r = e \/ r = Without(e, key) \/ \E v : r = With(e, key, v)
    <3> HIDE DEF key
    <3>1. CASE val = Null
      BY <1>3, <2>1, <2>2, <3>1 DEF ApplyColumn, key
    <3>2. CASE val # Null /\ name \in StringColumns \cup BoolColumns
      BY <1>3, <2>1, <2>2, <3>2, KeysApart DEF ApplyColumn, key
    <3>3. CASE val # Null /\ name \in JsonColumns /\ name \notin StringColumns \cup BoolColumns
      <4>1. r = SetJsonPassthrough(e, key, val)
        BY <1>3, <2>1, <2>2, <3>3 DEF ApplyColumn, key
      <4> QED BY <4>1 DEF SetJsonPassthrough
    <3> QED BY <1>3, <3>1, <3>2, <3>3
  <2> HIDE DEF r, key
  <2>4. \A k \in TimeColumns \cap DOMAIN r : k \in DOMAIN e /\ r[k] = e[k]
    BY <2>1, <2>3 DEF With, Without
  <2> QED BY <2>1, <2>4 DEF r
<1>4. CASE name \in TimeColumns
  <2>1. name \notin StringColumns \cup BoolColumns \cup JsonColumns /\ name # "all_day" /\ name # "event_id"
        /\ WritableKey(name) = name /\ Writable(name, TRUE)
    BY <1>4, TimeKeys DEF Writable
  <2>2. CASE val = Null
    <3>1. r = Without(e, name)
      BY <1>4, <2>1, <2>2 DEF ApplyColumn
    <3> QED BY <2>1, <3>1 DEF Without
  <2>3. CASE val # Null
    <3>1. r = With(e, name, TimeNode(val, all_day))
      BY <1>4, <2>1, <2>3 DEF ApplyColumn
    <3>2. TimeNode(val, all_day).form = Style(all_day)
      BY DEF TimeNode, Style, Node
    <3> HIDE DEF r
    <3>3. \A k \in DOMAIN r : r[k].form = Style(all_day) \/ (k \in DOMAIN e /\ r[k] = e[k])
      BY <3>1, <3>2 DEF With
    <3> QED BY <2>1, <3>3 DEF r
  <2> QED BY <2>2, <2>3
<1> QED BY <1>1, <1>2, <1>3, <1>4 DEF Writable

-----------------------------------------------------------------------------
\* Rows are of events, and the sink has one.
IsSeq(s) == \E S : s \in Seq(S)
RowsOK ==
    /\ IsSeq(rows) /\ IsSeq(returned)
    /\ \A r \in items : r.id \in Ids
    /\ \A k \in DOMAIN rows : rows[k].id \in Ids
    /\ phase \in {"get", "apply", "put"} => rows # << >>

LEMMA AppendSeq ==
    ASSUME NEW s, IsSeq(s), NEW e
    PROVE  /\ IsSeq(Append(s, e))
           /\ DOMAIN Append(s, e) = DOMAIN s \cup {Len(s) + 1} /\ Len(s) + 1 \notin DOMAIN s
           /\ \A k \in DOMAIN s : Append(s, e)[k] = s[k]
           /\ Append(s, e)[Len(s) + 1] = e
<1>1. PICK S : s \in Seq(S)
  BY DEF IsSeq
<1>2. s \in Seq(S \cup {e}) /\ e \in S \cup {e}
  BY <1>1, SeqMonotonic
<1>3. Append(s, e) \in Seq(S \cup {e})
  BY <1>2
<1>4. Len(s) \in Nat /\ DOMAIN s = 1 .. Len(s) /\ DOMAIN Append(s, e) = 1 .. Len(s) + 1
      /\ Append(s, e)[Len(s) + 1] = e /\ \A k \in 1 .. Len(s) : Append(s, e)[k] = s[k]
  BY <1>2
<1> QED BY <1>3, <1>4 DEF IsSeq

LEMMA TailSeq ==
    ASSUME NEW s, IsSeq(s), s # << >>
    PROVE  /\ IsSeq(Tail(s)) /\ 1 \in DOMAIN s /\ Head(s) = s[1]
           /\ \A k \in DOMAIN Tail(s) : k \in Nat \ {0} /\ k + 1 \in DOMAIN s /\ Tail(s)[k] = s[k + 1]
           /\ \A k \in DOMAIN s \ {1} : k - 1 \in DOMAIN Tail(s) /\ Tail(s)[k - 1] = s[k]
<1>1. PICK S : s \in Seq(S)
  BY DEF IsSeq
<1>2. Tail(s) \in Seq(S) /\ Len(s) \in Nat \ {0} /\ Len(Tail(s)) = Len(s) - 1
      /\ DOMAIN s = 1 .. Len(s) /\ DOMAIN Tail(s) = 1 .. Len(s) - 1 /\ Head(s) = s[1]
      /\ \A k \in 1 .. Len(s) - 1 : Tail(s)[k] = s[k + 1]
  BY <1>1
<1> QED BY <1>2 DEF IsSeq

LEMMA RowsInit == Init => RowsOK
<1>1. IsSeq(<< >>) /\ DOMAIN << >> = {}
  BY EmptySeq DEF IsSeq
<1> QED BY <1>1 DEF Init, RowsOK

LEMMA RowsStep == RowsOK /\ [Next]_vars => RowsOK'
<1> SUFFICES ASSUME RowsOK, [Next]_vars PROVE RowsOK'
  OBVIOUS
<1>1. CASE OtherChanges \/ TakeChunk \/ Finish \/ GetEvent \/ ApplySet \/ Refuse \/ Applied \/ Fails \/ UNCHANGED vars
  BY <1>1 DEF OtherChanges, TakeChunk, Finish, GetEvent, ApplySet, Refuse, Applied, Fails,
              RowsOK, vars, scanVars, sinkVars
<1>2. CASE FetchPage
  BY <1>2 DEF FetchPage, Left, Present, RowsOK, sinkVars
<1>3. CASE EmitRow
  <2>1. PICK r \in items : /\ items' = items \ {r}
                           /\ rows' = IF Matches(r.event) THEN Append(rows, r) ELSE rows
    BY <1>3 DEF EmitRow
  <2>2. IsSeq(rows') /\ \A k \in DOMAIN rows' : rows'[k].id \in Ids
    <3>1. CASE Matches(r.event)
      BY <2>1, <3>1, AppendSeq DEF RowsOK
    <3>2. CASE ~Matches(r.event)
      BY <2>1, <3>2 DEF RowsOK
    <3> QED BY <3>1, <3>2
  <2> QED BY <1>3, <2>1, <2>2 DEF EmitRow, RowsOK, sinkVars
<1>4. CASE Update
  <2>1. rows # << >> /\ IsSeq(rows) /\ IsSeq(returned)
    BY <1>4 DEF Update, RowsOK
  <2>2. rows' = Tail(rows) /\ phase' = (IF Tail(rows) # << >> THEN "get" ELSE "scan") /\ items' = items
    BY <1>4 DEF Update, RowsLeft, scanVars
  <2>3. IsSeq(rows') /\ \A k \in DOMAIN rows' : rows'[k].id \in Ids
    BY <2>1, <2>2, TailSeq DEF RowsOK
  <2>4. IsSeq(returned')
    BY <1>4, <2>1, AppendSeq DEF Update
  <2> QED BY <2>2, <2>3, <2>4 DEF RowsOK
<1> QED BY <1>1, <1>2, <1>3, <1>4 DEF Next, Statement, Sink

\* The events of the calendar have both ends, of one form.
StoreOK ==
    /\ set \in Sets /\ returning \in BOOLEAN
    /\ store = [i \in Ids |-> store[i]]
    /\ \A i \in Present : NodesOK(store[i])

\* all_day has been applied.
Restyled == \E k \in 1 .. Last : k < c /\ Name(k) = "all_day" /\ ~Repeated(k)

\* The loop over the columns: once all_day has been applied, or if the event has the
\* style anyway, its nodes have that style and no later column gives them another.
LoopOK ==
    phase \in {"apply", "put"} =>
        /\ c \in Nat \ {0}
        /\ NodesOK(got) /\ Formed(event)
        /\ Restyled \/ Style(AllDay) = got["start"].form => Styled(event, Style(AllDay))
        /\ phase = "put" => c > Last

NodesInv == RowsOK /\ StoreOK /\ LoopOK

\* The list has as many columns as it says.
LEMMA LastNat ==
    ASSUME StoreOK
    PROVE  Last \in Nat /\ Len(set) \in 0 .. Last /\ AllDay \in BOOLEAN
<1>1. Len(set) \in Nat /\ Len(Columns) \in Nat
  BY UpdateAssumption DEF StoreOK
<1>2. Last \in Nat /\ Len(set) <= Last
  BY <1>1 DEF Last
<1>3. AllDay \in BOOLEAN
  BY DEF AllDay, ExistingAllDay
<1> QED BY <1>1, <1>2, <1>3

\* Within the loop the list and its values stay the same.
LEMMA ListFrozen ==
    ASSUME UNCHANGED <<set, returning, rows, got>>
    PROVE  AllDay' = AllDay /\ Last' = Last /\ \A k : Name(k)' = Name(k) /\ (Repeated(k) <=> Repeated(k)')
<1>1. Last' = Last /\ \A k : Name(k)' = Name(k) /\ Val(k)' = Val(k) /\ (Repeated(k) <=> Repeated(k)')
  BY DEF Last, Name, Val, Row, Repeated, SetNames
<1> HIDE DEF Last, Name, Val, Repeated
<1> QED BY <1>1 DEF AllDay

\* An event that has come through the loop is of one form.
LEMMA PutForms ==
    ASSUME NodesInv, phase = "put"
    PROVE  Styled(event, Style(AllDay))
<1>1. NodesOK(got) /\ c > Last /\ c \in Nat
  BY DEF NodesInv, LoopOK
<1>2. Last \in Nat /\ Len(set) \in 0 .. Last
  BY LastNat DEF NodesInv
<1>3. CASE \E k \in 1 .. Last : Name(k) = "all_day"
  <2>1. PICK k \in 1 .. Last : Name(k) = "all_day"
    BY <1>3
  <2>2. \E j \in 1 .. Last : Name(j) = "all_day" /\ ~Repeated(j)
    <3>1. CASE ~Repeated(k)
      BY <2>1, <3>1
    <3>2. CASE Repeated(k)
      <4>1. PICK j \in DOMAIN set : set[j].name = "all_day"
        BY <2>1, <3>2 DEF Repeated, SetNames
      <4>2. j \in 1 .. Len(set)
        BY <4>1, UpdateAssumption DEF NodesInv, StoreOK
      <4>3. j \in 1 .. Last /\ j <= Len(set) /\ Name(j) = "all_day" /\ ~Repeated(j)
        BY <1>2, <4>1, <4>2 DEF Name, Repeated
      <4> QED BY <4>3
    <3> QED BY <3>1, <3>2
  <2>3. Restyled
    BY <1>1, <1>2, <2>2 DEF Restyled
  <2> QED BY <2>3 DEF NodesInv, LoopOK
<1>4. CASE ~\E k \in 1 .. Last : Name(k) = "all_day"
  <2>1. AllDay = ExistingAllDay(got)
    BY <1>4 DEF AllDay
  <2>2. "start" \in DOMAIN got /\ got["start"].form \in {"date", "dateTime"}
    BY <1>1 DEF NodesOK, Complete, Formed, Form, TimeColumns
  <2>3. Style(AllDay) = got["start"].form
    BY <2>1, <2>2 DEF Style, ExistingAllDay
  <2> QED BY <2>3 DEF NodesInv, LoopOK
<1> QED BY <1>3, <1>4

LEMMA NodesInit == Init => NodesInv
<1> SUFFICES ASSUME Init PROVE NodesInv
  OBVIOUS
<1>1. \A b \in Bodies : NodesOK(b)
  BY UpdateAssumption DEF NodesOK, IsEvent, Complete, Formed, Nodes
<1>2. StoreOK
  BY <1>1 DEF Init, StoreOK, Present
<1> QED BY <1>2, RowsInit DEF Init, NodesInv, LoopOK

\* Each step keeps what the loop keeps.
LEMMA NodesStep == NodesInv /\ [Next]_vars => NodesInv'
<1> SUFFICES ASSUME NodesInv, [Next]_vars PROVE NodesInv'
  OBVIOUS
<1> USE RowsStep DEF NodesInv
<1>1. CASE OtherChanges
  <2>1. \A b \in Bodies : NodesOK(b)
    BY UpdateAssumption DEF NodesOK, IsEvent, Complete, Formed, Nodes
  <2>2. PICK i \in Ids, b \in Bodies \cup {None} : store' = [store EXCEPT ![i] = b]
    BY <1>1 DEF OtherChanges
  <2>3. StoreOK'
    BY <1>1, <2>1, <2>2 DEF OtherChanges, StoreOK, Present, stmtVars
  <2>4. UNCHANGED <<set, returning, rows, got, event, c, phase>>
    BY <1>1 DEF OtherChanges, stmtVars, sinkVars
  <2>5. LoopOK'
    BY <2>4, ListFrozen DEF LoopOK, Restyled
  <2> QED BY <2>3, <2>5
<1>2. CASE FetchPage \/ EmitRow \/ TakeChunk \/ Finish \/ Refuse \/ Fails
  <2>1. UNCHANGED <<store, set, returning>> /\ phase' \notin {"apply", "put"}
    BY <1>2 DEF FetchPage, EmitRow, TakeChunk, Finish, Refuse, Fails, stmtVars
  <2> QED BY <2>1 DEF StoreOK, Present, LoopOK
<1>3. CASE GetEvent
  <2>1. /\ UNCHANGED <<store, set, returning, rows>>
        /\ got' = store[Row.id] /\ event' = got' /\ c' = 1 /\ phase' = "apply"
        /\ store[Row.id] # None
    BY <1>3 DEF GetEvent, stmtVars
  <2>2. NodesOK(got')
    <3>1. Row = rows[1] /\ 1 \in DOMAIN rows
      BY <1>3, TailSeq DEF GetEvent, RowsOK, Row
    <3> QED BY <2>1, <3>1 DEF StoreOK, Present, RowsOK
  <2>3. ~Restyled'
    BY <2>1 DEF Restyled
  <2>4. Styled(got', got'["start"].form) /\ Formed(got')
    BY <2>2 DEF NodesOK, Styled, TimeColumns
  <2>5. LoopOK'
    BY <2>1, <2>2, <2>3, <2>4 DEF LoopOK
  <2> QED BY <2>1, <2>5 DEF StoreOK, Present
<1>4. CASE ApplySet
  <2>1. /\ UNCHANGED <<store, set, returning, rows, got, phase>>
        /\ phase = "apply" /\ c <= Last /\ c' = c + 1
        /\ event' = IF Repeated(c) THEN event ELSE ApplyColumn(event, Name(c), Val(c), AllDay, TRUE)
    BY <1>4 DEF ApplySet, stmtVars
  <2>2. /\ c \in Nat \ {0} /\ NodesOK(got) /\ Formed(event)
        /\ Restyled \/ Style(AllDay) = got["start"].form => Styled(event, Style(AllDay))
    BY <2>1 DEF LoopOK
  <2>3. AllDay \in BOOLEAN /\ Last \in Nat /\ c \in 1 .. Last
    BY <2>1, <2>2, LastNat
  <2>4. AllDay' = AllDay /\ Last' = Last /\ \A k : Name(k)' = Name(k) /\ (Repeated(k) <=> Repeated(k)')
    BY <2>1, ListFrozen
  <2>5. \A k \in TimeColumns \cap DOMAIN event' :
           \/ event'[k].form = Style(AllDay)
           \/ (Name(c) = "all_day" => Repeated(c)) /\ k \in DOMAIN event /\ event'[k] = event[k]
    <3>1. CASE Repeated(c)
      BY <2>1, <3>1
    <3>2. CASE ~Repeated(c)
      <4>1. event' = ApplyColumn(event, Name(c), Val(c), AllDay, TRUE)
        BY <2>1, <3>2
      <4> HIDE DEF Name, Val, AllDay
      <4>2. StyledOrKept(ApplyColumn(event, Name(c), Val(c), AllDay, TRUE), event, Name(c), AllDay)
        BY <2>2, <2>3, ApplyForms
      <4>3. StyledOrKept(event', event, Name(c), AllDay)
        BY <4>1, <4>2
      <4> QED BY <4>3 DEF StyledOrKept
    <3> QED BY <3>1, <3>2
  <2>6. Formed(event')
    BY <2>2, <2>5 DEF Formed, Form, Style
  <2>7. Restyled' => Restyled \/ (Name(c) = "all_day" /\ ~Repeated(c))
    <3> HIDE DEF Name, Repeated, Last
    <3> SUFFICES ASSUME Restyled' PROVE Restyled \/ (Name(c) = "all_day" /\ ~Repeated(c))
      OBVIOUS
    <3>1. PICK k \in 1 .. Last : k < c + 1 /\ Name(k) = "all_day" /\ ~Repeated(k)
      BY <2>1, <2>4 DEF Restyled
    <3>2. k < c \/ k = c
      BY <2>3, <3>1
    <3> QED BY <3>1, <3>2 DEF Restyled
  <2>8. Restyled' \/ Style(AllDay) = got["start"].form => Styled(event', Style(AllDay))
    BY <2>2, <2>5, <2>7 DEF Styled
  <2>9. LoopOK'
    <3>1. Style(AllDay)' = Style(AllDay)
      BY <2>4 DEF Style
    <3>2. NodesOK(got)' /\ Formed(event)' /\ c' \in Nat \ {0}
      <4>1. got' = got /\ c' = c + 1
        BY <2>1
      <4>2. NodesOK(got)'
        BY <2>2, <4>1 DEF NodesOK, Complete, Formed
      <4>3. Formed(event)'
        BY <2>6 DEF Formed
      <4> QED BY <2>2, <4>1, <4>2, <4>3
    <3>3. Restyled' \/ Style(AllDay)' = got'["start"].form => Styled(event', Style(AllDay)')
      BY <2>1, <2>8, <3>1
    <3>4. phase' = "apply"
      BY <2>1
    <3> QED BY <3>2, <3>3, <3>4 DEF LoopOK
  <2> QED BY <2>1, <2>9 DEF StoreOK, Present
<1>5. CASE Applied
  <2>1. UNCHANGED <<store, set, returning, rows, got, event, c>> /\ phase = "apply" /\ c > Last
    BY <1>5 DEF Applied, stmtVars, sinkVars
  <2>2. AllDay' = AllDay /\ Last' = Last /\ (Restyled' <=> Restyled)
    BY <2>1, ListFrozen DEF Restyled
  <2>3. LoopOK'
    BY <2>1, <2>2 DEF LoopOK
  <2> QED BY <2>1, <2>3 DEF StoreOK, Present
<1>6. CASE Update
  <2>1. /\ phase = "put" /\ phase' \in {"get", "scan"} /\ Complete(event)
        /\ store' = [store EXCEPT ![Row.id] = event] /\ UNCHANGED <<set, returning>>
    BY <1>6 DEF Update, stmtVars
  <2>2. Styled(event, Style(AllDay)) /\ Formed(event)
    BY <2>1, PutForms DEF LoopOK
  <2>3. NodesOK(event)
    BY <2>1, <2>2 DEF NodesOK, Styled, Complete, TimeColumns
  <2>4. StoreOK'
    BY <2>1, <2>3 DEF StoreOK, Present
  <2> QED BY <2>1, <2>4 DEF LoopOK
<1>7. CASE UNCHANGED vars
  <2>1. UNCHANGED <<store, set, returning, rows, got, event, c, phase>>
    BY <1>7 DEF vars, stmtVars, sinkVars
  <2>2. AllDay' = AllDay /\ Last' = Last /\ (Restyled' <=> Restyled)
    BY <2>1, ListFrozen DEF Restyled
  <2> QED BY <2>1, <2>2 DEF StoreOK, Present, LoopOK
<1> QED BY <1>1, <1>2, <1>3, <1>4, <1>5, <1>6, <1>7 DEF Next, Statement, Sink

\* Whatever a statement sets, in whatever order, it writes events whose ends are of one
\* form (CalendarUpdate::Sink, ApplyColumn).
THEOREM NodesCorrect == Spec => []NodesAgree
<1>1. NodesInv => NodesAgree
  BY DEF NodesInv, StoreOK, NodesAgree, NodesOK
<1> QED BY <1>1, NodesInit, NodesStep, PTL DEF Spec

-----------------------------------------------------------------------------
Updated(i) == \E k \in DOMAIN returned : returned[k].id = i

\* An event has a row on its way, or the scan has still to list it.
InRows(i) == \E k \in DOMAIN rows : rows[k].id = i
InItems(i) == \E r \in items : r.id = i /\ r.event = store[i]
Pending(i) == InItems(i) \/ InRows(i) \/ (more /\ i \in Left)

\* What matches and has not been updated is as it was, and is still to come.
OwedOK ==
    \A i \in owed : ~Updated(i) =>
        /\ i \in Present /\ Matches(store[i]) /\ InRange(store[i])
        /\ Pending(i)

\* What does not match is as it was, also where it has been listed.
SparedOK ==
    \A i \in spared :
        /\ i \in Present /\ ~Matches(store[i])
        /\ \A r \in items : r.id = i => r.event = store[i]
        /\ ~InRows(i) /\ ~Updated(i)

DoneOK == phase = "done" => items = {} /\ ~more /\ rows = << >>

MatchInv == NodesInv /\ OwedOK /\ SparedOK /\ DoneOK

\* At the start nothing has been listed, and the range sent to the service has all
\* that matches.
LEMMA MatchInit == Init => MatchInv
<1> SUFFICES ASSUME Init PROVE MatchInv
  OBVIOUS
<1>1. \A i \in Present : store[i] \in Bodies
  BY DEF Init, Present
<1>2. DOMAIN rows = {} /\ DOMAIN returned = {} /\ items = {} /\ more = TRUE /\ cursor = None
  BY EmptySeq DEF Init
<1>3. OwedOK
  BY <1>1, <1>2, BoundsAssumption DEF Init, OwedOK, Pending, Left, PageToken
<1>4. SparedOK
  BY <1>2 DEF Init, SparedOK, InRows, Updated
<1> QED BY <1>3, <1>4, NodesInit DEF Init, MatchInv, DoneOK

\* The next page takes events out of those left, and the cursor stays before the others.
LEMMA FetchStep ==
    ASSUME MatchInv, FetchPage
    PROVE  OwedOK' /\ SparedOK'
<1> USE DEF MatchInv
<1>1. /\ items = {} /\ more
      /\ UNCHANGED <<store, rows, returned, owed, spared>>
  BY DEF FetchPage, PageDue, sinkVars
<1>2. PICK P \in SUBSET Left :
        /\ \A p \in P, q \in Left \ P : Before(Key(p), Key(q))
        /\ items' = {[id |-> i, event |-> store[i]] : i \in P}
        /\ more' = (P # Left)
        /\ cursor' \in IF P = {} THEN {cursor} ELSE {Key(p) : p \in P}
  BY DEF FetchPage
<1>3. \A i \in Left \ P : i \in Left' /\ more'
  <2> SUFFICES ASSUME NEW i \in Left \ P PROVE i \in Left' /\ more'
    OBVIOUS
  <2>1. more'
    BY <1>2
  <2>2. i \in Present' /\ InRange(store'[i]) /\ Key(i)' = Key(i)
    BY <1>1 DEF Left, Present, Key
  <2>3. cursor' = None \/ Before(cursor', Key(i))
    <3>1. CASE P = {}
      BY <1>2, <3>1 DEF Left, PageToken
    <3>2. CASE P # {}
      <4>1. PICK p \in P : cursor' = Key(p)
        BY <1>2, <3>2
      <4> QED BY <1>2, <4>1
    <3> QED BY <3>1, <3>2
  <2>4. i \in Left'
    <3>1. PageToken' = None \/ Before(PageToken', Key(i)')
      BY <2>2, <2>3 DEF PageToken
    <3> QED BY <1>1, <2>2, <3>1 DEF Left
  <2> QED BY <2>1, <2>4
<1>4. \A i \in P : InItems(i)'
  <2> SUFFICES ASSUME NEW i \in P PROVE \E r \in items' : r.id = i /\ r.event = store'[i]
    BY DEF InItems
  <2>1. [id |-> i, event |-> store[i]] \in items'
    BY <1>2
  <2> QED BY <1>1, <2>1
<1>5. OwedOK'
  <2> SUFFICES ASSUME NEW i \in owed, ~Updated(i)
               PROVE  /\ i \in Present /\ Matches(store[i]) /\ InRange(store[i])
                      /\ InItems(i)' \/ InRows(i) \/ (more' /\ i \in Left')
    BY <1>1 DEF OwedOK, Updated, Present, Pending, InRows
  <2>1. /\ i \in Present /\ Matches(store[i]) /\ InRange(store[i])
        /\ InRows(i) \/ i \in Left
    BY <1>1 DEF OwedOK, Pending, InItems
  <2> QED BY <1>3, <1>4, <2>1
<1>6. SparedOK'
  BY <1>1, <1>2 DEF SparedOK, Present, InRows, Updated
<1> QED BY <1>5, <1>6

\* An event of the page becomes a row if it matches as it was listed, and what is owed
\* or spared was listed as it is.
LEMMA EmitStep ==
    ASSUME MatchInv, EmitRow
    PROVE  OwedOK' /\ SparedOK'
<1> USE DEF MatchInv
<1>1. UNCHANGED <<store, more, cursor, returned, owed, spared>>
  BY DEF EmitRow, sinkVars, history
<1>2. PICK r \in items : /\ items' = items \ {r}
                         /\ rows' = IF Matches(r.event) THEN Append(rows, r) ELSE rows
  BY DEF EmitRow
<1>3. Left' = Left /\ Present' = Present
  BY <1>1 DEF Left, Present, Key, PageToken
<1>4. \A i : InRows(i)' <=> InRows(i) \/ (Matches(r.event) /\ r.id = i)
  <2>1. CASE Matches(r.event)
    <3>1. rows' = Append(rows, r) /\ IsSeq(rows)
      BY <1>2, <2>1 DEF NodesInv, RowsOK
    <3>2. /\ DOMAIN rows' = DOMAIN rows \cup {Len(rows) + 1}
          /\ \A k \in DOMAIN rows : rows'[k] = rows[k]
          /\ rows'[Len(rows) + 1] = r
      BY <3>1, AppendSeq
    <3> QED BY <2>1, <3>2 DEF InRows
  <2>2. CASE ~Matches(r.event)
    BY <1>2, <2>2 DEF InRows
  <2> QED BY <2>1, <2>2
<1>5. OwedOK'
  <2> SUFFICES ASSUME NEW i \in owed, ~Updated(i)
               PROVE  /\ i \in Present /\ Matches(store[i]) /\ InRange(store[i])
                      /\ InItems(i)' \/ InRows(i)' \/ (more /\ i \in Left)
    BY <1>1, <1>3 DEF OwedOK, Updated, Pending
  <2>1. /\ i \in Present /\ Matches(store[i]) /\ InRange(store[i])
        /\ InItems(i) \/ InRows(i) \/ (more /\ i \in Left)
    BY DEF OwedOK, Pending
  <2>2. InItems(i) => InItems(i)' \/ (r.id = i /\ Matches(r.event))
    BY <1>1, <1>2, <2>1 DEF InItems
  <2> QED BY <1>4, <2>1, <2>2
<1>6. SparedOK'
  <2> SUFFICES ASSUME NEW i \in spared
               PROVE  /\ i \in Present /\ ~Matches(store[i])
                      /\ \A q \in items' : q.id = i => q.event = store[i]
                      /\ ~InRows(i)' /\ ~Updated(i)
    BY <1>1, <1>3 DEF SparedOK, Updated
  <2> QED BY <1>2, <1>4 DEF SparedOK
<1> QED BY <1>5, <1>6

\* The event written is no longer to come, and all others are left alone.
LEMMA UpdateStep ==
    ASSUME MatchInv, Update
    PROVE  OwedOK' /\ SparedOK'
<1> USE DEF MatchInv, NodesInv
<1>1. /\ UNCHANGED <<items, more, cursor, owed, spared>>
      /\ store' = [store EXCEPT ![Row.id] = event]
      /\ rows' = Tail(rows)
  BY DEF Update, scanVars
<1>2. PICK row : returned' = Append(returned, [id |-> Row.id, row |-> row])
  BY DEF Update
<1>3. IsSeq(rows) /\ rows # << >> /\ IsSeq(returned)
  BY DEF Update, RowsOK
<1>4. 1 \in DOMAIN rows /\ Row = rows[1]
  BY <1>3, TailSeq DEF Row
<1>5. \A i : Updated(i)' <=> Updated(i) \/ i = Row.id
  <2> DEFINE new == [id |-> Row.id, row |-> row]
  <2>1. /\ DOMAIN returned' = DOMAIN returned \cup {Len(returned) + 1}
        /\ Len(returned) + 1 \notin DOMAIN returned
        /\ \A k \in DOMAIN returned : returned'[k] = returned[k]
        /\ returned'[Len(returned) + 1] = new
    <3> HIDE DEF new
    <3>1. returned' = Append(returned, new)
      BY <1>2 DEF new
    <3> QED BY <1>3, <3>1, AppendSeq
  <2>2. new.id = Row.id
    OBVIOUS
  <2> HIDE DEF new
  <2> QED BY <2>1, <2>2 DEF Updated
<1>6. \A i : i # Row.id => (InRows(i)' <=> InRows(i))
  <2>1. /\ \A k \in DOMAIN rows' : k + 1 \in DOMAIN rows /\ rows'[k] = rows[k + 1]
        /\ \A k \in DOMAIN rows \ {1} : k - 1 \in DOMAIN rows' /\ rows'[k - 1] = rows[k]
    BY <1>1, <1>3, TailSeq
  <2> QED BY <1>4, <2>1 DEF InRows
<1>7. \A i \in Ids : i # Row.id =>
         /\ store'[i] = store[i] /\ (i \in Present' <=> i \in Present)
         /\ (i \in Left' <=> i \in Left)
  BY <1>1 DEF StoreOK, Present, Left, Key, PageToken
<1>8. OwedOK'
  <2> SUFFICES ASSUME NEW i \in owed, ~Updated(i)'
               PROVE  /\ i \in Present' /\ Matches(store'[i]) /\ InRange(store'[i])
                      /\ InItems(i)' \/ InRows(i)' \/ (more /\ i \in Left')
    BY <1>1 DEF OwedOK, Pending
  <2>1. ~Updated(i) /\ i # Row.id
    BY <1>5
  <2>2. /\ i \in Present /\ Matches(store[i]) /\ InRange(store[i])
        /\ InItems(i) \/ InRows(i) \/ (more /\ i \in Left)
    BY <2>1 DEF OwedOK, Pending
  <2>3. i \in Ids
    BY <2>2 DEF Present
  <2>4. InItems(i) => InItems(i)'
    BY <1>1, <1>7, <2>1, <2>3 DEF InItems
  <2> QED BY <1>6, <1>7, <2>1, <2>2, <2>3, <2>4
<1>9. SparedOK'
  <2> SUFFICES ASSUME NEW i \in spared
               PROVE  /\ i \in Present' /\ ~Matches(store'[i])
                      /\ \A q \in items : q.id = i => q.event = store'[i]
                      /\ ~InRows(i)' /\ ~Updated(i)'
    BY <1>1 DEF SparedOK
  <2>1. i # Row.id /\ i \in Ids
    BY <1>4 DEF SparedOK, InRows, Present
  <2> QED BY <1>5, <1>6, <1>7, <2>1 DEF SparedOK
<1> QED BY <1>8, <1>9

\* Each step keeps what is to come.
LEMMA MatchStep == MatchInv /\ [Next]_vars => MatchInv'
<1> SUFFICES ASSUME MatchInv, [Next]_vars PROVE OwedOK' /\ SparedOK' /\ DoneOK'
  BY NodesStep DEF MatchInv
<1> USE DEF MatchInv
<1>1. CASE OtherChanges
  <2>1. PICK i \in Ids, b \in Bodies \cup {None} :
          /\ store' = [store EXCEPT ![i] = b]
          /\ owed' = owed \ {i} /\ spared' = spared \ {i}
    BY <1>1 DEF OtherChanges
  <2>2. UNCHANGED <<items, more, cursor, rows, returned, phase>>
    BY <1>1 DEF OtherChanges, scanVars, sinkVars
  <2>3. \A j \in Ids : j # i =>
           /\ store'[j] = store[j] /\ (j \in Present' <=> j \in Present)
           /\ (j \in Left' <=> j \in Left)
    BY <2>1, <2>2 DEF NodesInv, StoreOK, Present, Left, Key, PageToken
  <2>4. OwedOK'
    <3> SUFFICES ASSUME NEW j \in owed', ~Updated(j)
                 PROVE  /\ j \in Present' /\ Matches(store'[j]) /\ InRange(store'[j])
                        /\ InItems(j)' \/ InRows(j) \/ (more /\ j \in Left')
      BY <2>2 DEF OwedOK, Pending, Updated, InRows
    <3>1. /\ j # i /\ j \in Present /\ Matches(store[j]) /\ InRange(store[j])
          /\ InItems(j) \/ InRows(j) \/ (more /\ j \in Left)
      BY <2>1 DEF OwedOK, Pending
    <3>2. j \in Ids
      BY <3>1 DEF Present
    <3>3. InItems(j) => InItems(j)'
      BY <2>2, <2>3, <3>1, <3>2 DEF InItems
    <3> QED BY <2>3, <3>1, <3>2, <3>3
  <2>5. SparedOK'
    <3> SUFFICES ASSUME NEW j \in spared'
                 PROVE  /\ j \in Present' /\ ~Matches(store'[j])
                        /\ \A q \in items : q.id = j => q.event = store'[j]
                        /\ ~InRows(j) /\ ~Updated(j)
      BY <2>2 DEF SparedOK, InRows, Updated
    <3>1. j # i /\ j \in spared /\ j \in Ids
      BY <2>1 DEF SparedOK, Present
    <3> QED BY <2>3, <3>1 DEF SparedOK
  <2> QED BY <2>2, <2>4, <2>5 DEF DoneOK
<1>2. CASE FetchPage
  BY <1>2, FetchStep DEF FetchPage, DoneOK
<1>3. CASE EmitRow
  BY <1>3, EmitStep DEF EmitRow, DoneOK
<1>4. CASE Update
  BY <1>4, UpdateStep DEF Update, DoneOK
<1>5. CASE TakeChunk \/ Finish \/ GetEvent \/ ApplySet \/ Refuse \/ Applied \/ Fails \/ UNCHANGED vars
  <2>1. UNCHANGED <<store, items, more, cursor, rows, returned, owed, spared>>
    BY <1>5 DEF TakeChunk, Finish, GetEvent, ApplySet, Refuse, Applied, Fails, vars, scanVars, sinkVars, history
  <2>2. Present' = Present /\ Left' = Left
    BY <2>1 DEF Present, Left, Key, PageToken
  <2>3. OwedOK' /\ SparedOK'
    BY <2>1, <2>2 DEF OwedOK, SparedOK, Pending, InItems, InRows, Updated
  <2>4. DoneOK'
    BY <1>5, <2>1 DEF TakeChunk, Finish, GetEvent, ApplySet, Refuse, Applied, Fails, vars, DoneOK
  <2> QED BY <2>3, <2>4
<1> QED BY <1>1, <1>2, <1>3, <1>4, <1>5 DEF Next, Statement, Sink

\* The number of times an event was updated tells whether it was.
LEMMA WritesUpdated ==
    ASSUME IsSeq(returned), NEW i
    PROVE  /\ Updated(i) => Writes(i) >= 1
           /\ ~Updated(i) => Writes(i) = 0
<1> DEFINE W == {k \in DOMAIN returned : returned[k].id = i}
<1>1. PICK S : returned \in Seq(S)
  BY DEF IsSeq
<1>2. IsFiniteSet(DOMAIN returned)
  BY <1>1, FS_Interval
<1>3. IsFiniteSet(W)
  BY <1>2, FS_Subset
<1>4. Cardinality(W) \in Nat /\ (Cardinality(W) = 0 <=> W = {})
  BY <1>3, FS_CardinalityType, FS_EmptySet
<1>5. Updated(i) <=> W # {}
  BY DEF Updated
<1> QED BY <1>4, <1>5 DEF Writes

\* However many events there are, whatever the pages, and wherever the statement and
\* others move events meanwhile: one that matches, and that no other program changed,
\* has been updated when the statement succeeds; one that does not is left alone.
THEOREM MatchesUpdated == Spec => []EveryMatchUpdated
<1>1. MatchInv => EveryMatchUpdated
  <2> SUFFICES ASSUME MatchInv PROVE EveryMatchUpdated
    OBVIOUS
  <2>1. IsSeq(returned)
    BY DEF MatchInv, NodesInv, RowsOK
  <2>2. phase = "done" => \A i \in owed : Updated(i)
    <3>1. DOMAIN << >> = {}
      BY EmptySeq
    <3> QED BY <3>1 DEF MatchInv, DoneOK, OwedOK, Pending, InItems, InRows
  <2>3. \A i \in spared : ~Updated(i)
    BY DEF MatchInv, SparedOK
  <2> QED BY <2>1, <2>2, <2>3, WritesUpdated DEF EveryMatchUpdated
<1> QED BY <1>1, MatchInit, MatchStep, PTL DEF Spec

-----------------------------------------------------------------------------
\* Types.  What is listed is an event too, and so is what the rows were made from.
ListedOK ==
    /\ IsFiniteSet(items)
    /\ \A k \in DOMAIN rows : IsEvent(rows[k].event) /\ Complete(rows[k].event)

TypeInv == NodesInv /\ TypeOK /\ ListedOK

\* Taking a key out of an event, or putting one of the known keys in, gives an event.
LEMMA EventKeys ==
    ASSUME NEW e, IsEvent(e), NEW key, NEW val
    PROVE  /\ IsEvent(Without(e, key))
           /\ key \in Keys /\ (key \in TimeColumns => val \in Nodes) => IsEvent(With(e, key, val))
<1>1. DOMAIN e \subseteq Keys /\ \A k \in TimeColumns \cap DOMAIN e : e[k] \in Nodes
  BY DEF IsEvent
<1>2. IsEvent(Without(e, key))
  <2> DEFINE r == Without(e, key)
  <2>1. r = [k \in DOMAIN e \ {key} |-> e[k]]
    BY DEF Without
  <2> HIDE DEF r
  <2> QED BY <1>1, <2>1 DEF IsEvent, r
<1>3. ASSUME key \in Keys, key \in TimeColumns => val \in Nodes
      PROVE  IsEvent(With(e, key, val))
  <2> DEFINE r == With(e, key, val)
  <2>1. r = [k \in DOMAIN e \cup {key} |-> IF k = key THEN val ELSE e[k]]
    BY DEF With
  <2> HIDE DEF r
  <2>2. DOMAIN r = DOMAIN e \cup {key} /\ r = [k \in DOMAIN r |-> r[k]]
    BY <2>1
  <2>3. \A k \in TimeColumns \cap DOMAIN r : r[k] \in Nodes
    BY <1>1, <1>3, <2>1
  <2> QED BY <1>1, <1>3, <2>2, <2>3 DEF IsEvent, r
<1> QED BY <1>2, <1>3

LEMMA NodeTypes ==
    /\ \A wall \in Int, form \in Form : Node(form, wall, 0) \in Nodes
    /\ \A wall \in Int : Midnight(wall) \in Int
    /\ \A val \in Int, all_day \in BOOLEAN : TimeNode(val, all_day) \in Nodes
<1>1. \A wall \in Int, form \in Form : Node(form, wall, 0) \in Nodes
  BY DEF Node, Nodes
<1>2. \A wall \in Int : Midnight(wall) \in Int
  BY DayAssumption DEF Midnight
<1> QED BY <1>1, <1>2 DEF TimeNode, Form

LEMMA ReencodeType ==
    ASSUME NEW e, IsEvent(e), NEW key \in TimeColumns, NEW all_day \in BOOLEAN
    PROVE  IsEvent(ReencodeTimeNode(e, key, all_day))
<1>1. CASE key \notin DOMAIN e
  BY <1>1 DEF ReencodeTimeNode
<1>2. CASE key \in DOMAIN e
  <2>1. e[key] \in Nodes /\ e[key].form \in {"date", "dateTime"} /\ e[key].wall \in Int
    BY <1>2 DEF IsEvent, Nodes, Form
  <2>2. Node("date", Midnight(e[key].wall), 0) \in Nodes /\ Node("dateTime", e[key].wall, 0) \in Nodes
    BY <2>1, NodeTypes DEF Form
  <2>3. \E node \in Nodes : ReencodeTimeNode(e, key, all_day) = With(e, key, node)
    <3> HIDE DEF Nodes, Node, Midnight
    <3> QED BY <1>2, <2>1, <2>2 DEF ReencodeTimeNode
  <2>4. key \in Keys
    BY DEF Keys
  <2> QED BY <2>3, <2>4, EventKeys
<1> QED BY <1>1, <1>2

\* Applying a column to an event gives an event.
LEMMA ApplyType ==
    ASSUME NEW e, IsEvent(e), NEW name, NEW val, NEW all_day \in BOOLEAN,
           name \in TimeColumns => val \in Int \cup {Null}
    PROVE  IsEvent(ApplyColumn(e, name, val, all_day, TRUE))
<1> DEFINE r == ApplyColumn(e, name, val, all_day, TRUE)
<1>1. CASE ~Writable(name, TRUE)
  <2>1. r = e
    BY <1>1 DEF ApplyColumn, Writable
  <2> HIDE DEF r
  <2>2. IsEvent(r)
    BY <2>1
  <2> QED BY <2>2 DEF r
<1>2. CASE name = "all_day"
  <2>1. r = ApplyAllDay(e, all_day)
    BY <1>2, KeysApart, TimeKeys DEF ApplyColumn, Writable
  <2> QED BY <2>1, ReencodeType DEF ApplyAllDay, TimeColumns
<1>3. CASE name \in StringColumns \cup BoolColumns \cup JsonColumns
  <2> DEFINE key == WritableKey(name)
  <2>1. key \notin TimeColumns /\ key \in Keys /\ name # "all_day" /\ name # "event_id" /\ Writable(name, TRUE)
    BY <1>3, KeysApart DEF Writable, Keys
  <2>2. name \notin TimeColumns
    BY <1>3, TimeKeys
  <2>3. r = e \/ r = Without(e, key) \/ \E v : r = With(e, key, v)
    <3> HIDE DEF key
    <3>1. CASE val = Null
      BY <1>3, <2>1, <2>2, <3>1 DEF ApplyColumn, key
    <3>2. CASE val # Null /\ name \in StringColumns \cup BoolColumns
      BY <1>3, <2>1, <2>2, <3>2, KeysApart DEF ApplyColumn, key
    <3>3. CASE val # Null /\ name \in JsonColumns /\ name \notin StringColumns \cup BoolColumns
      <4>1. r = SetJsonPassthrough(e, key, val)
        BY <1>3, <2>1, <2>2, <3>3 DEF ApplyColumn, key
      <4> QED BY <4>1 DEF SetJsonPassthrough
    <3> QED BY <1>3, <3>1, <3>2, <3>3
  <2> HIDE DEF r, key
  <2>4. IsEvent(r)
    BY <2>1, <2>3, EventKeys
  <2> QED BY <2>4 DEF r
<1>4. CASE name \in TimeColumns
  <2>1. name \notin StringColumns \cup BoolColumns \cup JsonColumns /\ name # "all_day" /\ name # "event_id"
        /\ WritableKey(name) = name /\ Writable(name, TRUE) /\ name \in Keys
    BY <1>4, TimeKeys DEF Writable, Keys
  <2>2. CASE val = Null
    <3>1. r = Without(e, name)
      BY <1>4, <2>1, <2>2 DEF ApplyColumn
    <3> QED BY <3>1, EventKeys
  <2>3. CASE val # Null
    <3>1. r = With(e, name, TimeNode(val, all_day))
      BY <1>4, <2>1, <2>3 DEF ApplyColumn
    <3>2. TimeNode(val, all_day) \in Nodes
      BY <1>4, <2>3, NodeTypes
    <3> QED BY <2>1, <3>1, <3>2, EventKeys
  <2> QED BY <2>2, <2>3
<1> QED BY <1>1, <1>2, <1>3, <1>4 DEF Writable

\* Time columns read as times.
LEMMA ReadType ==
    ASSUME NEW e, IsEvent(e), NEW name \in TimeColumns
    PROVE  ExtractField(e, name) \in Int \cup {Null}
<1>1. ExtractField(e, name) = ParseEventTime(e, name)
  BY DEF ExtractField, TimeColumns, StringKeys, RawKeys, BoolKeys
<1>2. name \in DOMAIN e => e[name].wall \in Int /\ e[name].ahead \in Int
  BY DEF IsEvent, Nodes
<1> QED BY <1>1, <1>2 DEF ParseEventTime

\* The values for time columns are times, of the list or of the row.
LEMMA ValType ==
    ASSUME TypeInv, phase \in {"apply", "put"}, NEW j \in 1 .. Last, Name(j) \in TimeColumns
    PROVE  Val(j) \in Int \cup {Null}
<1>1. CASE j <= Len(set)
  <2>1. j \in DOMAIN set
    BY <1>1, UpdateAssumption DEF TypeInv, TypeOK
  <2> QED BY <1>1, <2>1, UpdateAssumption DEF TypeInv, TypeOK, Name, Val
<1>2. CASE ~(j <= Len(set))
  <2>1. Row = rows[1] /\ 1 \in DOMAIN rows
    BY TailSeq DEF TypeInv, NodesInv, RowsOK, Row
  <2>2. IsEvent(Row.event)
    BY <2>1 DEF TypeInv, ListedOK
  <2>3. Val(j) = ExtractField(Row.event, Name(j))
    BY <1>2 DEF Val
  <2> HIDE DEF Val, Name, Row
  <2> QED BY <2>2, <2>3, ReadType
<1> QED BY <1>1, <1>2

LEMMA TypeInit == Init => TypeInv
<1> SUFFICES ASSUME Init PROVE TypeOK /\ ListedOK
  BY NodesInit DEF TypeInv
<1>1. \A i \in Present : IsEvent(store[i]) /\ Complete(store[i])
  BY UpdateAssumption DEF Init, Present
<1>2. DOMAIN rows = {} /\ items = {} /\ IsFiniteSet({}) /\ Cardinality({}) = 0
  BY EmptySeq, FS_EmptySet DEF Init
<1> QED BY <1>1, <1>2, UpdateAssumption DEF Init, TypeOK, ListedOK

\* A page is no larger than it may be, and has events of the calendar.
LEMMA PageType ==
    ASSUME TypeInv, FetchPage
    PROVE  /\ IsFiniteSet(items') /\ Cardinality(items') <= PageSize
           /\ \A r \in items' : r.id \in Ids /\ IsEvent(r.event) /\ Complete(r.event)
<1>1. PICK P \in SUBSET Left :
        /\ Cardinality(P) <= PageSize
        /\ items' = {[id |-> i, event |-> store[i]] : i \in P}
  BY DEF FetchPage
<1>2. P \subseteq Present /\ Present \subseteq Ids
  BY DEF Left, Present
<1>3. IsFiniteSet(P)
  BY <1>2, FS_Subset, UpdateAssumption
<1> DEFINE f == [i \in P |-> [id |-> i, event |-> store[i]]]
<1>4. f \in Surjection(P, items')
  BY <1>1 DEF Surjection
<1>5. IsFiniteSet(items') /\ Cardinality(items') <= Cardinality(P)
  BY <1>3, <1>4, FS_Surjection
<1>6. Cardinality(P) \in Nat /\ Cardinality(items') \in Nat
  BY <1>3, <1>5, FS_CardinalityType
<1>7. Cardinality(items') <= PageSize
  BY <1>1, <1>5, <1>6, UpdateAssumption
<1>8. \A r \in items' : r.id \in Ids /\ IsEvent(r.event) /\ Complete(r.event)
  <2>1. \A i \in P : i \in Ids /\ IsEvent(store[i]) /\ Complete(store[i])
    BY <1>2 DEF TypeInv, TypeOK
  <2> QED BY <1>1, <2>1
<1> QED BY <1>5, <1>7, <1>8

LEMMA TypeStep == TypeInv /\ [Next]_vars => TypeInv'
<1> SUFFICES ASSUME TypeInv, [Next]_vars PROVE TypeOK' /\ ListedOK'
  BY NodesStep DEF TypeInv
<1>0. TypeOK /\ ListedOK /\ NodesInv /\ NodesInv'
  BY NodesStep DEF TypeInv
<1>1. CASE OtherChanges
  <2>1. PICK i \in Ids, b \in Bodies \cup {None} : store' = [store EXCEPT ![i] = b]
    BY <1>1 DEF OtherChanges
  <2>2. \A j \in Present' : IsEvent(store'[j]) /\ Complete(store'[j])
    BY <1>0, <2>1, UpdateAssumption DEF TypeOK, Present, NodesInv, StoreOK
  <2>3. changes' \in 0 .. MaxChanges
    BY <1>0, <1>1, UpdateAssumption DEF TypeOK, OtherChanges
  <2>4. UNCHANGED <<set, returning, phase, items, more, rows, event, c>>
    BY <1>1 DEF OtherChanges, stmtVars, scanVars, sinkVars
  <2>5. Last' = Last
    BY <2>4 DEF Last
  <2> QED BY <1>0, <2>2, <2>3, <2>4, <2>5 DEF TypeOK, ListedOK
<1>2. CASE FetchPage
  <2>1. UNCHANGED <<store, changes, set, returning, phase, rows, event, c>> /\ more' \in BOOLEAN /\ phase = "scan"
    BY <1>2 DEF FetchPage, stmtVars, sinkVars
  <2> QED BY <1>0, <1>2, <2>1, PageType DEF TypeInv, TypeOK, ListedOK, Present
<1>3. CASE EmitRow
  <2>1. PICK r \in items : /\ items' = items \ {r}
                           /\ rows' = IF Matches(r.event) THEN Append(rows, r) ELSE rows
    BY <1>3 DEF EmitRow
  <2>2. UNCHANGED <<store, changes, set, returning, phase, more>> /\ phase = "scan"
    BY <1>3 DEF EmitRow, stmtVars
  <2>3. IsFiniteSet(items') /\ Cardinality(items') <= PageSize
    <3>1. IsFiniteSet(items) /\ Cardinality(items) \in Nat /\ Cardinality(items) <= PageSize
      BY <1>0, FS_CardinalityType DEF TypeOK, ListedOK
    <3>2. IsFiniteSet(items \ {r}) /\ Cardinality(items \ {r}) = Cardinality(items) - 1
      BY <3>1, FS_RemoveElement
    <3>3. PageSize \in Nat
      BY UpdateAssumption
    <3> QED BY <2>1, <3>1, <3>2, <3>3
  <2>4. \A k \in DOMAIN rows' : /\ rows'[k].id \in Ids /\ Matches(rows'[k].event)
                                /\ IsEvent(rows'[k].event) /\ Complete(rows'[k].event)
    <3>1. CASE Matches(r.event)
      <4>1. rows' = Append(rows, r) /\ IsSeq(rows)
        BY <1>0, <2>1, <3>1 DEF NodesInv, RowsOK
      <4>2. /\ DOMAIN rows' = DOMAIN rows \cup {Len(rows) + 1}
            /\ \A k \in DOMAIN rows : rows'[k] = rows[k]
            /\ rows'[Len(rows) + 1] = r
        BY <4>1, AppendSeq
      <4> QED BY <1>0, <3>1, <4>2 DEF TypeOK, ListedOK
    <3>2. CASE ~Matches(r.event)
      BY <1>0, <2>1, <3>2 DEF TypeOK, ListedOK
    <3> QED BY <3>1, <3>2
  <2> QED BY <1>0, <2>1, <2>2, <2>3, <2>4 DEF TypeOK, ListedOK, Present
<1>4. CASE GetEvent
  <2>1. /\ UNCHANGED <<store, changes, set, returning, items, more, rows>>
        /\ store[Row.id] # None /\ event' = store[Row.id] /\ c' = 1 /\ phase' = "apply"
        /\ phase = "get"
    BY <1>4 DEF GetEvent, stmtVars, scanVars
  <2>2. Row = rows[1] /\ 1 \in DOMAIN rows
    BY <1>0, <2>1, TailSeq DEF NodesInv, RowsOK, Row
  <2>3. IsEvent(event')
    BY <1>0, <2>1, <2>2 DEF TypeOK, Present
  <2>4. Last' = Last /\ Last \in Nat
    <3>1. Last' = Last
      BY <2>1 DEF Last
    <3> QED BY <1>0, <3>1, LastNat DEF NodesInv
  <2>5. c' \in 1 .. Last' + 1
    <3> HIDE DEF Last
    <3>1. c' = 1
      BY <2>1
    <3> QED BY <2>4, <3>1
  <2> QED BY <1>0, <2>1, <2>3, <2>5 DEF TypeOK, ListedOK, Present
<1>5. CASE ApplySet
  <2>1. /\ UNCHANGED <<store, changes, set, returning, phase, items, more, rows, got>>
        /\ phase = "apply" /\ c <= Last /\ c' = c + 1
        /\ event' = IF Repeated(c) THEN event ELSE ApplyColumn(event, Name(c), Val(c), AllDay, TRUE)
    BY <1>5 DEF ApplySet, stmtVars, scanVars
  <2>2. Last \in Nat /\ AllDay \in BOOLEAN /\ Last' = Last
    <3>1. Last' = Last
      BY <2>1 DEF Last
    <3> QED BY <1>0, <3>1, LastNat DEF NodesInv
  <2>3. c \in 1 .. Last /\ IsEvent(event)
    <3>1. c \in Nat \ {0}
      BY <1>0, <2>1 DEF NodesInv, LoopOK
    <3> QED BY <1>0, <2>1, <2>2, <3>1 DEF TypeOK
  <2>4. Name(c) \in TimeColumns => Val(c) \in Int \cup {Null}
    BY <2>1, <2>3, ValType
  <2>5. IsEvent(event')
    <3> HIDE DEF Name, Val, AllDay
    <3>1. IsEvent(ApplyColumn(event, Name(c), Val(c), AllDay, TRUE))
      BY <2>2, <2>3, <2>4, ApplyType
    <3> QED BY <2>1, <2>3, <3>1
  <2>6. c' \in 1 .. Last' + 1
    BY <2>1, <2>2, <2>3
  <2> QED BY <1>0, <2>1, <2>5, <2>6 DEF TypeOK, ListedOK, Present
<1>6. CASE Update
  <2>1. /\ UNCHANGED <<changes, set, returning, items, more>>
        /\ phase = "put" /\ phase' = IF Tail(rows) # << >> THEN "get" ELSE "scan"
        /\ Complete(event) /\ store' = [store EXCEPT ![Row.id] = event] /\ rows' = Tail(rows)
    BY <1>6 DEF Update, RowsLeft, stmtVars, scanVars
  <2>2. \A i \in Present' : IsEvent(store'[i]) /\ Complete(store'[i])
    BY <1>0, <2>1 DEF TypeOK, Present, NodesInv, StoreOK
  <2>3. \A k \in DOMAIN rows' : k + 1 \in DOMAIN rows /\ rows'[k] = rows[k + 1]
    BY <1>0, <2>1, TailSeq DEF NodesInv, RowsOK
  <2>4. \A k \in DOMAIN rows' : /\ rows'[k].id \in Ids /\ Matches(rows'[k].event)
                                /\ IsEvent(rows'[k].event) /\ Complete(rows'[k].event)
    BY <1>0, <2>3 DEF TypeOK, ListedOK
  <2> QED BY <1>0, <2>1, <2>2, <2>4 DEF TypeOK, ListedOK
<1>7. CASE TakeChunk \/ Finish \/ Refuse \/ Fails
  <2>1. /\ UNCHANGED <<store, changes, set, returning, items, more, rows>>
        /\ phase' \in {"get", "done", "failed"} /\ (phase' = "get" => rows # << >>)
    BY <1>7 DEF TakeChunk, Finish, Refuse, Fails, stmtVars, scanVars
  <2> QED BY <1>0, <2>1 DEF TypeOK, ListedOK, Present
<1>8. CASE Applied \/ UNCHANGED vars
  <2>1. /\ UNCHANGED <<store, changes, set, returning, items, more, rows, event, c>>
        /\ phase' = phase \/ (phase = "apply" /\ phase' = "put")
    BY <1>8 DEF Applied, vars, stmtVars, scanVars, sinkVars
  <2>2. Last' = Last
    BY <2>1 DEF Last
  <2> QED BY <1>0, <2>1, <2>2 DEF TypeOK, ListedOK, Present
<1> QED BY <1>1, <1>2, <1>3, <1>4, <1>5, <1>6, <1>7, <1>8 DEF Next, Statement, Sink

\* The variables keep their types, whatever the calendar's events and the SET lists
\* are; in particular what is written is an event with both of its ends.
THEOREM TypeCorrect == Spec => []TypeOK
<1>1. TypeInv => TypeOK
  BY DEF TypeInv
<1> QED BY <1>1, TypeInit, TypeStep, PTL DEF Spec
=============================================================================
