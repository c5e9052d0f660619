--------------------------- MODULE EventsDmlProofs ---------------------------
(***************************************************************************)
(* EventsDml is type correct and leaves nothing but prefixes behind, for    *)
(* every set of connections, every calendar, every set of statements and    *)
(* every number of attempts.                                               *)
(***************************************************************************)
EXTENDS EventsDml, TLAPS

\* A request the client gave up on belongs to a statement already started, and
\* to no row its sink has not reached.
LateOK ==
    \A l \in late :
        /\ l.nth <= nth[l.conn]
        /\ l.nth = nth[l.conn] => l.row <= row[l.conn]

\* While a request is under way its row is in the sink, and an INSERT never reads.
BusyOK ==
    \A c \in Conns :
        pc[c] \in {"sent", "replied"} =>
            /\ row[c] \in DOMAIN stmt[c].rows
            /\ ThisRow(c).op = "insert" => req[c].verb # "GET"

\* A write acknowledged to the client was carried out for the row in the sink.
AckedOK ==
    \A c \in Conns :
        pc[c] = "replied" /\ reply[c].status \in {200, 204} /\ req[c].verb # "GET" =>
            row[c] \in hit[c]

PrefixInv == PrefixApplied /\ LateOK /\ BusyOK /\ AckedOK

-----------------------------------------------------------------------------
\* Lemmas on the operators.

\* The empty event body is an event body.
LEMMA NullBodyType == NullBody \in Body
BY ConstantsAssumption DEF NullBody, Body

\* What the service does with a request is well typed, and it acknowledges only
\* a write it made.
LEMMA OutcomeFacts ==
    ASSUME store \in Store, NEW q \in Request, NEW o \in Outcomes(q)
    PROVE  /\ o.wrote \in BOOLEAN
           /\ o.reply \in Reply
           /\ o.wrote => o.reply.id \in AllIds
           /\ o.reply.status \in {200, 204} /\ q.verb # "GET" => o.wrote
<1> DEFINE Good(w, r) == o = [wrote |-> w, reply |-> r]
<1>2. /\ q.verb \in Verbs /\ q.body \in Body /\ q.id \in Ids \cup {NoId} /\ NoId \notin AllIds
      /\ Ids \subseteq AllIds /\ AutoIds \subseteq AllIds
      /\ \A i \in AllIds : store[i].exists \in BOOLEAN /\ store[i].body \in Body
  BY ConstantsAssumption DEF Request, AllIds, Store, Event
<1>3. CASE q.verb = "POST" /\ q.id = NoId
  <2>1. PICK i \in AutoIds : Good(TRUE, Answer(200, i, q.body))
    BY <1>3 DEF Outcomes
  <2> QED BY <1>2, <2>1 DEF Answer, Reply, Codes
<1>4. CASE q.verb = "POST" /\ q.id # NoId /\ store[q.id].exists
  <2>1. Good(FALSE, Answer(409, q.id, q.body))
    BY <1>4 DEF Outcomes
  <2> QED BY <1>2, <2>1 DEF Answer, Reply, Codes
<1>5. CASE q.verb = "POST" /\ q.id # NoId /\ ~store[q.id].exists
  <2>1. Good(TRUE, Answer(200, q.id, q.body))
    BY <1>5 DEF Outcomes
  <2> QED BY <1>2, <1>5, <2>1 DEF Answer, Reply, Codes
<1>6. CASE q.verb # "POST" /\ (q.id = NoId \/ ~store[q.id].exists)
  <2>1. Good(FALSE, Answer(404, q.id, q.body))
    BY <1>6 DEF Outcomes
  <2> QED BY <1>2, <2>1 DEF Answer, Reply, Codes
<1>7. CASE q.verb = "GET" /\ q.id # NoId /\ store[q.id].exists
  <2>1. Good(FALSE, Answer(200, q.id, store[q.id].body))
    BY <1>7 DEF Outcomes
  <2> QED BY <1>2, <1>7, <2>1 DEF Answer, Reply, Codes
<1>8. CASE q.verb = "PUT" /\ q.id # NoId /\ store[q.id].exists
  <2>1. Good(TRUE, Answer(200, q.id, q.body))
    BY <1>8 DEF Outcomes
  <2> QED BY <1>2, <1>8, <2>1 DEF Answer, Reply, Codes
<1>9. CASE q.verb = "DELETE" /\ q.id # NoId /\ store[q.id].exists
  <2> DEFINE b == [store[q.id].body EXCEPT ![Status] = Cancelled]
  <2>1. b \in Body /\ q.id \in AllIds
    BY <1>2, <1>9, ConstantsAssumption DEF Body
  <2>2. Good(TRUE, Answer(204, q.id, b)) \/ Good(FALSE, Answer(410, q.id, q.body))
    BY <1>9 DEF Outcomes
  <2> HIDE DEF b
  <2>3. CASE Good(TRUE, Answer(204, q.id, b))
    BY <1>2, <2>1, <2>3 DEF Answer, Reply, Codes
  <2>4. CASE Good(FALSE, Answer(410, q.id, q.body))
    BY <1>2, <2>1, <2>4 DEF Answer, Reply, Codes
  <2> QED BY <2>2, <2>3, <2>4
<1> QED BY <1>2, <1>3, <1>4, <1>5, <1>6, <1>7, <1>8, <1>9 DEF Verbs

\* Carrying out a request keeps the calendar and the histories well typed.
LEMMA CarryOutType ==
    ASSUME TypeOK, NEW q \in Request, NEW o \in Outcomes(q), NEW c \in Conns,
           NEW n \in Nat, NEW r \in Nat, NEW acked \in BOOLEAN,
           CarryOut(q, o, c, n, r, acked)
    PROVE  /\ store' \in Store
           /\ hit' \in [Conns -> SUBSET Nat]
           /\ writer' \in [AllIds -> [conn : Conns \cup {NoId}, nth : Nat]]
           /\ lost' \in Nat
<1>1. o.reply \in Reply /\ (o.wrote => o.reply.id \in AllIds) /\ o.wrote \in BOOLEAN
  BY OutcomeFacts DEF TypeOK
<1>2. CASE o.wrote
  <2> DEFINE e == [exists |-> TRUE, body |-> o.reply.body]
             w == [conn |-> c, nth |-> n]
             i == o.reply.id
             h == IF n = nth[c] THEN hit[c] \cup {r} ELSE hit[c]
  <2>1. /\ store' = [store EXCEPT ![i] = e]
        /\ hit' = [hit EXCEPT ![c] = h]
        /\ writer' = [writer EXCEPT ![i] = w]
        /\ lost' = IF q.id = NoId /\ ~acked THEN lost + 1 ELSE lost
    BY <1>2 DEF CarryOut
  <2>2. e \in Event /\ w \in [conn : Conns \cup {NoId}, nth : Nat] /\ i \in AllIds
    BY <1>1, <1>2 DEF Event, Reply
  <2>3. h \in SUBSET Nat
    BY DEF TypeOK
  <2> HIDE DEF e, w, i, h
  <2>4. store' \in Store
    BY <2>1, <2>2 DEF TypeOK, Store
  <2>5. hit' \in [Conns -> SUBSET Nat]
    BY <2>1, <2>3 DEF TypeOK
  <2>6. writer' \in [AllIds -> [conn : Conns \cup {NoId}, nth : Nat]]
    BY <2>1, <2>2 DEF TypeOK
  <2>7. lost' \in Nat
    BY <2>1 DEF TypeOK
  <2> QED BY <2>4, <2>5, <2>6, <2>7
<1>3. CASE ~o.wrote
  BY <1>3 DEF CarryOut, TypeOK
<1> QED BY <1>2, <1>3, <1>1

\* Binding a row to what the scan saw gives a row.
LEMMA BoundType ==
    ASSUME store \in Store, NEW r \in Row, NEW ret \in BOOLEAN
    PROVE  Bound(r, ret) \in Row
<1> DEFINE cs == Fields \cup ReadOnly
           vs == [f \in Fields |-> IF f \in r.cols THEN r.vals[f] ELSE store[r.id].body[f]]
<1>1. CASE r.op = "update" /\ ret /\ r.id # NoId
  <2>1. r.id \in AllIds /\ store[r.id].body \in Body /\ r.vals \in Body
    BY <1>1 DEF Row, AllIds, Store, Event
  <2>2. vs \in Body
    BY <2>1 DEF Body
  <2>3. Bound(r, ret) = [r EXCEPT !.cols = cs, !.vals = vs]
    BY <1>1 DEF Bound
  <2>4. cs \in SUBSET (Fields \cup ReadOnly)
    OBVIOUS
  <2> HIDE DEF cs, vs
  <2> QED BY <2>2, <2>3, <2>4 DEF Row
<1>2. CASE ~(r.op = "update" /\ ret /\ r.id # NoId)
  BY <1>2 DEF Bound
<1> QED BY <1>1, <1>2

\* The row in the sink is a row.
LEMMA ThisRowType ==
    ASSUME TypeOK, NEW c \in Conns, row[c] \in DOMAIN stmt[c].rows
    PROVE  ThisRow(c) \in Row
BY DEF ThisRow, TypeOK, Statement

\* Putting the SET columns into an event body gives an event body.
LEMMA AppliedType ==
    ASSUME NEW b \in Body, NEW r \in Row
    PROVE  Applied(b, r) \in Body
BY DEF Applied, Row, Body

-----------------------------------------------------------------------------
\* Type correctness.

\* Calling a resource method sets up a well-typed request.
LEMMA CallType ==
    ASSUME TypeOK, NEW c \in Conns, NEW verb \in Verbs, NEW id \in Ids \cup {NoId},
           NEW body \in Body, Call(c, verb, id, body)
    PROVE  /\ pc' \in [Conns -> {"idle", "sink", "sent", "replied", "done", "failed"}]
           /\ req' \in [Conns -> Request]
           /\ attempt' \in [Conns -> 0 .. MaxAttempts - 1]
<1> DEFINE q == [verb |-> verb, id |-> id, body |-> body]
<1>1. q \in Request
  BY DEF Request
<1>2. req' = [req EXCEPT ![c] = q] /\ attempt' = [attempt EXCEPT ![c] = 0]
  BY DEF Call
<1> HIDE DEF q
<1>3. 0 \in 0 .. MaxAttempts - 1
  BY ConstantsAssumption
<1> QED BY <1>1, <1>2, <1>3 DEF Call, TypeOK

\* Going on to the next row keeps the program counter and the row well typed.
LEMMA NextRowType ==
    ASSUME TypeOK, NEW c \in Conns, NextRow(c)
    PROVE  /\ pc' \in [Conns -> {"idle", "sink", "sent", "replied", "done", "failed"}]
           /\ row' \in [Conns -> Nat]
BY DEF NextRow, TypeOK

\* So does collecting a row for RETURNING.
LEMMA CollectedType ==
    ASSUME TypeOK, NEW c \in Conns, NEW op \in Ops
    PROVE  Collected(c, op) \in [Conns -> [Ops -> Seq([id : AllIds \cup {NoId}, body : Body])]]
<1> DEFINE R == [id : AllIds \cup {NoId}, body : Body]
           x == ReturnedRow(c)
           y == [returned[c] EXCEPT ![op] = Append(@, x)]
<1>1. x \in R
  BY DEF TypeOK, Reply, ReturnedRow
<1>2. returned[c] \in [Ops -> Seq(R)] /\ returned[c][op] \in Seq(R)
  BY DEF TypeOK
<1>3. Collected(c, op) = [returned EXCEPT ![c] = y]
  BY DEF Collected
<1> HIDE DEF x
<1>4. Append(returned[c][op], x) \in Seq(R)
  BY <1>1, <1>2
<1>5. y \in [Ops -> Seq(R)]
  BY <1>2, <1>4
<1>6. returned \in [Conns -> [Ops -> Seq(R)]]
  BY DEF TypeOK
<1> HIDE DEF y, R
<1>7. Collected(c, op) \in [Conns -> [Ops -> Seq(R)]]
  BY <1>3, <1>5, <1>6
<1> QED BY <1>7 DEF R

\* Counting a row keeps the counters well typed.
LEMMA CountType ==
    ASSUME TypeOK, NEW c \in Conns, NEW op \in Ops
    PROVE  [count EXCEPT ![c][op] = @ + 1] \in [Conns -> [Ops -> Nat]]
<1> DEFINE y == [count[c] EXCEPT ![op] = @ + 1]
<1>1. y \in [Ops -> Nat]
  BY DEF TypeOK
<1> HIDE DEF y
<1>2. [count EXCEPT ![c] = y] \in [Conns -> [Ops -> Nat]]
  BY <1>1 DEF TypeOK
<1> QED BY <1>2 DEF y

\* A finished row is well typed all round.
LEMMA DoneType ==
    ASSUME TypeOK, NEW c \in Conns, NEW op \in Ops, Done(c, op)
    PROVE  /\ pc' \in [Conns -> {"idle", "sink", "sent", "replied", "done", "failed"}]
           /\ row' \in [Conns -> Nat]
           /\ count' \in [Conns -> [Ops -> Nat]]
           /\ returned' \in [Conns -> [Ops -> Seq([id : AllIds \cup {NoId}, body : Body])]]
<1>1. NextRow(c)
  BY DEF Done
<1>2. returned' \in {returned, Collected(c, op)}
  BY DEF Done
<1>3. count' = [count EXCEPT ![c][op] = @ + 1]
  BY DEF Done
<1>4. pc' \in [Conns -> {"idle", "sink", "sent", "replied", "done", "failed"}] /\ row' \in [Conns -> Nat]
  BY <1>1, NextRowType
<1>5. count' \in [Conns -> [Ops -> Nat]]
  BY <1>3, CountType
<1>6. Collected(c, op) \in [Conns -> [Ops -> Seq([id : AllIds \cup {NoId}, body : Body])]]
  BY CollectedType
<1>7. returned' \in [Conns -> [Ops -> Seq([id : AllIds \cup {NoId}, body : Body])]]
  BY <1>2, <1>6 DEF TypeOK
<1> QED BY <1>4, <1>5, <1>7

\* A statement bound to what its scan listed is a statement.
LEMMA StartType ==
    ASSUME TypeOK, NEW s \in Statements
    PROVE  [s EXCEPT !.rows = [k \in DOMAIN s.rows |-> Bound(s.rows[k], s.returning)]] \in Statement
<1> DEFINE b == [k \in DOMAIN s.rows |-> Bound(s.rows[k], s.returning)]
<1>1. s \in Statement /\ s.rows \in Seq(Row) /\ s.returning \in BOOLEAN
  BY ConstantsAssumption DEF Statement
<1>2. \A k \in DOMAIN s.rows : Bound(s.rows[k], s.returning) \in Row
  BY <1>1, BoundType DEF TypeOK
<1>3. DOMAIN s.rows = 1 .. Len(s.rows) /\ Len(s.rows) \in Nat
  BY <1>1
<1>4. b \in Seq(Row)
  BY <1>2, <1>3
<1> HIDE DEF b
<1>5. [s EXCEPT !.rows = b] \in Statement
  BY <1>1, <1>4 DEF Statement
<1> QED BY <1>5 DEF b

\* Every step keeps TypeOK.
LEMMA TypeStep ==
    ASSUME TypeOK, BusyOK, Next
    PROVE  TypeOK'
<1>1. ASSUME NEW c \in Conns, Start(c) PROVE TypeOK'
  <2>1. stmt' \in [Conns -> Statement]
    <3>1. PICK s \in Statements :
             stmt' = [stmt EXCEPT ![c] = [s EXCEPT !.rows =
                        [k \in DOMAIN s.rows |-> Bound(s.rows[k], s.returning)]]]
      BY <1>1 DEF Start
    <3> DEFINE b == [s EXCEPT !.rows = [k \in DOMAIN s.rows |-> Bound(s.rows[k], s.returning)]]
    <3>2. b \in Statement
      BY StartType
    <3> HIDE DEF b
    <3>3. stmt' = [stmt EXCEPT ![c] = b]
      BY <3>1 DEF b
    <3> QED BY <3>2, <3>3 DEF TypeOK
  <2>2. count' \in [Conns -> [Ops -> Nat]]
    BY <1>1 DEF Start, TypeOK
  <2>3. returned' \in [Conns -> [Ops -> Seq([id : AllIds \cup {NoId}, body : Body])]]
    <3> DEFINE R == [id : AllIds \cup {NoId}, body : Body]
               none == [op \in Ops |-> << >>]
    <3>1. none \in [Ops -> Seq(R)]
      OBVIOUS
    <3>2. returned' = [returned EXCEPT ![c] = none] /\ returned \in [Conns -> [Ops -> Seq(R)]]
      BY <1>1 DEF Start, TypeOK
    <3> HIDE DEF none, R
    <3>3. returned' \in [Conns -> [Ops -> Seq(R)]]
      BY <3>1, <3>2
    <3> QED BY <3>3 DEF R
  <2>4. /\ pc' \in [Conns -> {"idle", "sink", "sent", "replied", "done", "failed"}]
        /\ nth' \in [Conns -> Nat] /\ row' \in [Conns -> Nat] /\ hit' \in [Conns -> SUBSET Nat]
    BY <1>1 DEF Start, TypeOK
  <2> QED BY <1>1, <2>1, <2>2, <2>3, <2>4 DEF Start, TypeOK
<1>2. ASSUME NEW c \in Conns, SinkInsert(c) \/ SinkUpdate(c) \/ SinkDelete(c) PROVE TypeOK'
  <2>1. ThisRow(c) \in Row
    BY <1>2, ThisRowType DEF SinkInsert, SinkUpdate, SinkDelete, InSink
  <2>2. \E verb \in Verbs, id \in Ids \cup {NoId}, body \in Body : Call(c, verb, id, body)
    <3>1. CASE SinkInsert(c)
      BY <2>1, <3>1 DEF SinkInsert, Row, Verbs
    <3>2. CASE SinkUpdate(c)
      BY <2>1, <3>2, NullBodyType DEF SinkUpdate, Row, Verbs
    <3>3. CASE SinkDelete(c)
      BY <2>1, <3>3, NullBodyType DEF SinkDelete, Row, Verbs
    <3> QED BY <1>2, <3>1, <3>2, <3>3
  <2>3. UNCHANGED <<service, sink, row, reply>>
    BY <1>2 DEF SinkInsert, SinkUpdate, SinkDelete
  <2>4. /\ pc' \in [Conns -> {"idle", "sink", "sent", "replied", "done", "failed"}]
        /\ req' \in [Conns -> Request]
        /\ attempt' \in [Conns -> 0 .. MaxAttempts - 1]
    BY <2>2, CallType
  <2> QED BY <2>3, <2>4 DEF TypeOK, service, sink
<1>3. ASSUME NEW c \in Conns, SkipNull(c) PROVE TypeOK'
  <2>1. NextRow(c) /\ UNCHANGED <<service, sink, req, attempt, reply>>
    BY <1>3 DEF SkipNull
  <2>2. pc' \in [Conns -> {"idle", "sink", "sent", "replied", "done", "failed"}] /\ row' \in [Conns -> Nat]
    BY <2>1, NextRowType
  <2> QED BY <2>1, <2>2 DEF TypeOK, service, sink
<1>4. ASSUME NEW c \in Conns, Finish(c) PROVE TypeOK'
  BY <1>4 DEF Finish, TypeOK, service, sink
<1>5. ASSUME NEW c \in Conns, Retry(c) PROVE TypeOK'
  <2>1. attempt' \in [Conns -> 0 .. MaxAttempts - 1]
    BY <1>5, ConstantsAssumption DEF Retry, Returns, TypeOK
  <2> QED BY <1>5, <2>1 DEF Retry, TypeOK, service, sink
<1>6. ASSUME NEW c \in Conns, InsertReply(c) \/ UpdateReply(c) \/ DeleteReply(c) PROVE TypeOK'
  <2>1. ThisRow(c) \in Row
    BY <1>6, ThisRowType DEF InsertReply, UpdateReply, DeleteReply, Handles, BusyOK
  <2>2. UNCHANGED <<service, stmt, nth, reply>>
    BY <1>6 DEF InsertReply, UpdateReply, DeleteReply
  <2>3. Applied(reply[c].body, ThisRow(c)) \in Body
    BY <2>1, AppliedType DEF TypeOK, Reply
  <2> DEFINE Calls == \E verb \in Verbs, id \in Ids \cup {NoId}, body \in Body : Call(c, verb, id, body)
  <2>4. CASE Calls /\ UNCHANGED <<row, count>> /\ returned' \in {returned, Collected(c, "delete")}
    <3>1. /\ pc' \in [Conns -> {"idle", "sink", "sent", "replied", "done", "failed"}]
          /\ req' \in [Conns -> Request]
          /\ attempt' \in [Conns -> 0 .. MaxAttempts - 1]
      BY <2>4, CallType
    <3>2. returned' \in [Conns -> [Ops -> Seq([id : AllIds \cup {NoId}, body : Body])]]
      BY <2>4, CollectedType DEF TypeOK, Ops
    <3> QED BY <2>2, <2>4, <3>1, <3>2 DEF TypeOK, service
  <2>5. CASE UNCHANGED <<req, attempt>> /\ \E op \in Ops : Done(c, op)
    <3>1. /\ pc' \in [Conns -> {"idle", "sink", "sent", "replied", "done", "failed"}]
          /\ row' \in [Conns -> Nat]
          /\ count' \in [Conns -> [Ops -> Nat]]
          /\ returned' \in [Conns -> [Ops -> Seq([id : AllIds \cup {NoId}, body : Body])]]
      BY <2>5, DoneType
    <3> QED BY <2>2, <2>5, <3>1 DEF TypeOK, service
  <2>6. CASE Fail(c)
    BY <2>2, <2>6 DEF Fail, TypeOK, service
  <2>7. CASE /\ count' = [count EXCEPT ![c]["delete"] = @ + 1]
             /\ NextRow(c)
             /\ UNCHANGED <<req, attempt, returned>>
    <3>1. pc' \in [Conns -> {"idle", "sink", "sent", "replied", "done", "failed"}] /\ row' \in [Conns -> Nat]
      BY <2>7, NextRowType
    <3>2. count' \in [Conns -> [Ops -> Nat]]
      BY <2>7, CountType DEF Ops
    <3> QED BY <2>2, <2>7, <3>1, <3>2 DEF TypeOK, service
  <2>8. CASE InsertReply(c)
    <3>1. ASSUME Call(c, "PUT", ThisRow(c).id, ThisRow(c).vals) PROVE Calls
      BY <2>1, <3>1 DEF Row, Verbs
    <3> QED BY <2>4, <2>5, <2>6, <2>8, <3>1 DEF InsertReply, Ops
  <2>9. CASE UpdateReply(c)
    <3>1. ASSUME Call(c, "PUT", ThisRow(c).id, Applied(reply[c].body, ThisRow(c))) PROVE Calls
      BY <2>1, <2>3, <3>1 DEF Row, Verbs
    <3> QED BY <2>4, <2>5, <2>6, <2>9, <3>1 DEF UpdateReply, Ops
  <2>10. CASE DeleteReply(c)
    <3>1. ASSUME Call(c, "DELETE", ThisRow(c).id, NullBody) PROVE Calls
      BY <2>1, <3>1, NullBodyType DEF Row, Verbs
    <3> QED BY <2>4, <2>6, <2>7, <2>10, <3>1 DEF DeleteReply
  <2> QED BY <1>6, <2>8, <2>9, <2>10
<1>7. ASSUME NEW c \in Conns, Serve(c) PROVE TypeOK'
  <2>1. PICK o \in Outcomes(req[c]), acked \in BOOLEAN :
          /\ CarryOut(req[c], o, c, nth[c], row[c], acked)
          /\ reply' = [reply EXCEPT ![c] = IF acked THEN o.reply ELSE Answer(503, NoId, NullBody)]
    BY <1>7 DEF Serve
  <2>2. req[c] \in Request /\ nth[c] \in Nat /\ row[c] \in Nat
    BY DEF TypeOK
  <2>3. /\ store' \in Store
        /\ hit' \in [Conns -> SUBSET Nat]
        /\ writer' \in [AllIds -> [conn : Conns \cup {NoId}, nth : Nat]]
        /\ lost' \in Nat
    BY <2>1, <2>2, CarryOutType
  <2>4. o.reply \in Reply /\ Answer(503, NoId, NullBody) \in Reply
    BY <2>2, OutcomeFacts, NullBodyType DEF TypeOK, Answer, Reply, Codes
  <2>5. reply' \in [Conns -> Reply]
    BY <2>1, <2>4 DEF TypeOK
  <2> QED BY <1>7, <2>3, <2>5 DEF Serve, TypeOK
<1>8. ASSUME NEW c \in Conns, Refuse(c) PROVE TypeOK'
  <2>1. PICK s \in {400, 403, 429, 503}, rate \in BOOLEAN :
          /\ rate => s = 403
          /\ reply' = [reply EXCEPT ![c] = [status |-> s, rate |-> rate, id |-> NoId, body |-> NullBody]]
    BY <1>8 DEF Refuse
  <2> DEFINE a == [status |-> s, rate |-> rate, id |-> NoId, body |-> NullBody]
  <2>2. a \in Reply
    BY NullBodyType DEF Reply, Codes
  <2> HIDE DEF a
  <2>3. reply' = [reply EXCEPT ![c] = a]
    BY <2>1 DEF a
  <2>4. reply' \in [Conns -> Reply]
    BY <2>2, <2>3 DEF TypeOK
  <2> QED BY <1>8, <2>4 DEF Refuse, TypeOK, service, sink
<1>9. ASSUME NEW c \in Conns, Broken(c) PROVE TypeOK'
  <2>1. [conn |-> c, nth |-> nth[c], row |-> row[c], req |-> req[c]]
          \in [conn : Conns, nth : Nat, row : Nat, req : Request]
    BY DEF TypeOK
  <2>2. late' \subseteq [conn : Conns, nth : Nat, row : Nat, req : Request]
    BY <1>9, <2>1 DEF Broken, TypeOK
  <2> QED BY <1>9, <2>2 DEF Broken, TypeOK, sink
<1>10. ASSUME ServeLate PROVE TypeOK'
  <2>1. PICK l \in late :
          /\ late' = late \ {l}
          /\ \E o \in Outcomes(l.req) : CarryOut(l.req, o, l.conn, l.nth, l.row, FALSE)
          /\ UNCHANGED <<pc, sink, row, req, attempt, reply>>
    BY <1>10 DEF ServeLate
  <2>2. l.req \in Request /\ l.conn \in Conns /\ l.nth \in Nat /\ l.row \in Nat
    BY DEF TypeOK
  <2>3. /\ store' \in Store
        /\ hit' \in [Conns -> SUBSET Nat]
        /\ writer' \in [AllIds -> [conn : Conns \cup {NoId}, nth : Nat]]
        /\ lost' \in Nat
    BY <2>1, <2>2, CarryOutType
  <2> QED BY <2>1, <2>3 DEF TypeOK, sink
<1> QED BY <1>1, <1>2, <1>3, <1>4, <1>5, <1>6, <1>7, <1>8, <1>9, <1>10 DEF Next, Client, Exchange

-----------------------------------------------------------------------------
\* The prefix invariant.

\* Carrying out a request for a row its statement's sink has reached adds at
\* most that row to the statement's history, and adds it when it wrote.
LEMMA CarryOutHit ==
    ASSUME TypeOK, NEW o, NEW c \in Conns, NEW n \in Nat, NEW r \in Nat,
           IF o.wrote
             THEN hit' = [hit EXCEPT ![c] = IF n = nth[c] THEN @ \cup {r} ELSE @]
             ELSE hit' = hit
    PROVE  /\ \A d \in Conns : hit[d] \subseteq hit'[d]
           /\ \A d \in Conns : hit'[d] \subseteq hit[d] \cup {r}
           /\ \A d \in Conns : d # c \/ n # nth[c] => hit'[d] = hit[d]
           /\ o.wrote /\ n = nth[c] => r \in hit'[c]
<1>1. CASE o.wrote
  <2> DEFINE h == IF n = nth[c] THEN hit[c] \cup {r} ELSE hit[c]
  <2>1. hit' = [hit EXCEPT ![c] = h] /\ hit \in [Conns -> SUBSET Nat]
    BY <1>1 DEF TypeOK
  <2>2. hit[c] \subseteq h /\ h \subseteq hit[c] \cup {r} /\ (n # nth[c] => h = hit[c])
        /\ (n = nth[c] => r \in h)
    OBVIOUS
  <2> HIDE DEF h
  <2>3. hit'[c] = h /\ \A d \in Conns \ {c} : hit'[d] = hit[d]
    BY <2>1
  <2> QED BY <2>2, <2>3
<1>2. CASE ~o.wrote
  BY <1>2
<1> QED BY <1>1, <1>2

\* A step that changes nothing but the request in hand keeps the invariant.
LEMMA CallKeepsPrefix ==
    ASSUME TypeOK, PrefixInv, NEW c \in Conns, NEW verb \in Verbs, NEW id, NEW body,
           Call(c, verb, id, body),
           UNCHANGED <<late, hit, stmt, nth, row, reply>>,
           row[c] \in DOMAIN stmt[c].rows,
           ThisRow(c).op = "insert" => verb # "GET"
    PROVE  PrefixInv'
<1>1. PrefixApplied' /\ LateOK'
  BY DEF PrefixInv, PrefixApplied, LateOK
<1>2. /\ pc'[c] = "sent" /\ req'[c].verb = verb
      /\ \A d \in Conns \ {c} : pc'[d] = pc[d] /\ req'[d] = req[d]
  BY DEF Call, TypeOK
<1>3. BusyOK'
  BY <1>2 DEF PrefixInv, BusyOK, ThisRow
<1>4. AckedOK'
  BY <1>2 DEF PrefixInv, AckedOK
<1> QED BY <1>1, <1>3, <1>4 DEF PrefixInv

\* The sink may leave a row behind once the row's write was carried out, or
\* when the row has nothing to write.
LEMMA NextRowKeepsPrefix ==
    ASSUME TypeOK, PrefixInv, NEW c \in Conns, NextRow(c),
           UNCHANGED <<late, hit, stmt, nth, req, reply>>,
           Consumed(stmt[c].rows[row[c]]) => row[c] \in hit[c]
    PROVE  PrefixInv'
<1>1. /\ pc'[c] = "sink" /\ row'[c] = row[c] + 1 /\ row[c] \in Nat /\ hit[c] \subseteq Nat
      /\ \A d \in Conns \ {c} : pc'[d] = pc[d] /\ row'[d] = row[d]
      /\ \A d \in Conns : row[d] \in Nat /\ nth[d] \in Nat /\ row[d] <= row'[d]
  BY DEF NextRow, TypeOK
<1>2. PrefixApplied'
  <2> SUFFICES ASSUME NEW d \in Conns
               PROVE  /\ \A r \in hit[d] : r <= row'[d]
                      /\ \A k \in 1 .. row'[d] - 1 :
                            k \in DOMAIN stmt[d].rows /\ Consumed(stmt[d].rows[k]) => k \in hit[d]
    BY DEF PrefixApplied
  <2>1. CASE d # c
    BY <1>1, <2>1 DEF PrefixInv, PrefixApplied
  <2>2. CASE d = c
    <3>1. \A r \in hit[c] : r <= row'[c]
      BY <1>1 DEF PrefixInv, PrefixApplied
    <3>2. ASSUME NEW k \in 1 .. row'[c] - 1, k \in DOMAIN stmt[c].rows, Consumed(stmt[c].rows[k])
          PROVE  k \in hit[c]
      <4>1. CASE k = row[c]
        BY <3>2, <4>1
      <4>2. CASE k # row[c]
        BY <1>1, <3>2, <4>2 DEF PrefixInv, PrefixApplied
      <4> QED BY <4>1, <4>2
    <3> QED BY <2>2, <3>1, <3>2
  <2> QED BY <2>1, <2>2
<1>3. LateOK'
  <2> SUFFICES ASSUME NEW l \in late
               PROVE  l.nth <= nth[l.conn] /\ (l.nth = nth[l.conn] => l.row <= row'[l.conn])
    BY DEF LateOK
  <2>1. l.conn \in Conns /\ l.row \in Nat
    BY DEF TypeOK
  <2>2. l.nth <= nth[l.conn] /\ (l.nth = nth[l.conn] => l.row <= row[l.conn])
    BY DEF PrefixInv, LateOK
  <2>3. row[l.conn] \in Nat /\ row'[l.conn] \in Nat /\ row[l.conn] <= row'[l.conn]
    BY <1>1, <2>1
  <2> QED BY <2>1, <2>2, <2>3
<1>4. BusyOK'
  BY <1>1 DEF PrefixInv, BusyOK, ThisRow
<1>5. AckedOK'
  BY <1>1 DEF PrefixInv, AckedOK
<1> QED BY <1>2, <1>3, <1>4, <1>5 DEF PrefixInv

\* A step to a state in which the statement waits for no answer keeps the
\* invariant when the rows, the histories and the late requests stay.
LEMMA PcKeepsPrefix ==
    ASSUME TypeOK, PrefixInv, NEW c \in Conns, NEW p \in {"done", "failed"},
           pc' = [pc EXCEPT ![c] = p],
           UNCHANGED <<late, hit, stmt, nth, row, req, reply>>
    PROVE  PrefixInv'
<1>1. pc'[c] = p /\ \A d \in Conns \ {c} : pc'[d] = pc[d]
  BY DEF TypeOK
<1>2. PrefixApplied' /\ LateOK'
  BY DEF PrefixInv, PrefixApplied, LateOK
<1>3. BusyOK'
  BY <1>1 DEF PrefixInv, BusyOK, ThisRow
<1>4. AckedOK'
  BY <1>1 DEF PrefixInv, AckedOK
<1> QED BY <1>2, <1>3, <1>4 DEF PrefixInv

\* Every step keeps the invariant.
LEMMA PrefixStep ==
    ASSUME TypeOK, PrefixInv, Next
    PROVE  PrefixInv'
<1>1. ASSUME NEW c \in Conns, Start(c) PROVE PrefixInv'
  <2>1. /\ pc'[c] = "sink" /\ row'[c] = 1 /\ hit'[c] = {} /\ nth'[c] = nth[c] + 1
        /\ \A d \in Conns \ {c} : /\ pc'[d] = pc[d] /\ row'[d] = row[d] /\ hit'[d] = hit[d]
                                  /\ nth'[d] = nth[d] /\ stmt'[d] = stmt[d]
        /\ UNCHANGED <<late, req, reply>>
    BY <1>1 DEF Start, TypeOK
  <2>2. PrefixApplied'
    BY <2>1 DEF PrefixInv, PrefixApplied
  <2>3. LateOK'
    <3> SUFFICES ASSUME NEW l \in late
                 PROVE  l.nth <= nth'[l.conn] /\ (l.nth = nth'[l.conn] => l.row <= row'[l.conn])
      BY <2>1 DEF LateOK
    <3>1. l.conn \in Conns /\ l.nth \in Nat /\ nth[l.conn] \in Nat
      BY DEF TypeOK
    <3>2. l.nth <= nth[l.conn] /\ (l.nth = nth[l.conn] => l.row <= row[l.conn])
      BY DEF PrefixInv, LateOK
    <3> QED BY <2>1, <3>1, <3>2
  <2>4. BusyOK'
    BY <2>1 DEF PrefixInv, BusyOK, ThisRow
  <2>5. AckedOK'
    BY <2>1 DEF PrefixInv, AckedOK
  <2> QED BY <2>2, <2>3, <2>4, <2>5 DEF PrefixInv
<1>2. ASSUME NEW c \in Conns, SinkInsert(c) PROVE PrefixInv'
  BY <1>2, CallKeepsPrefix DEF SinkInsert, InSink, service, sink, Verbs
<1>3. ASSUME NEW c \in Conns, SinkUpdate(c) PROVE PrefixInv'
  BY <1>3, CallKeepsPrefix DEF SinkUpdate, InSink, service, sink, Verbs
<1>4. ASSUME NEW c \in Conns, SinkDelete(c) PROVE PrefixInv'
  BY <1>4, CallKeepsPrefix DEF SinkDelete, InSink, service, sink, Verbs
<1>5. ASSUME NEW c \in Conns, SkipNull(c) PROVE PrefixInv'
  <2>1. ~Consumed(stmt[c].rows[row[c]])
    BY <1>5 DEF SkipNull, InSink, ThisRow, Consumed
  <2> QED BY <1>5, <2>1, NextRowKeepsPrefix DEF SkipNull, service, sink
<1>6. ASSUME NEW c \in Conns, Finish(c) PROVE PrefixInv'
  BY <1>6, PcKeepsPrefix DEF Finish, service, sink
<1>7. ASSUME NEW c \in Conns, Retry(c) PROVE PrefixInv'
  <2>1. /\ pc[c] = "replied" /\ pc'[c] = "sent" /\ \A d \in Conns \ {c} : pc'[d] = pc[d]
        /\ UNCHANGED <<late, hit, stmt, nth, row, req, reply>>
    BY <1>7 DEF Retry, TypeOK, service, sink
  <2>2. PrefixApplied' /\ LateOK'
    BY <2>1 DEF PrefixInv, PrefixApplied, LateOK
  <2>3. BusyOK'
    BY <2>1 DEF PrefixInv, BusyOK, ThisRow
  <2>4. AckedOK'
    BY <2>1 DEF PrefixInv, AckedOK
  <2> QED BY <2>2, <2>3, <2>4 DEF PrefixInv
<1>8. ASSUME NEW c \in Conns, InsertReply(c) \/ UpdateReply(c) \/ DeleteReply(c) PROVE PrefixInv'
  <2>1. /\ pc[c] = "replied" /\ row[c] \in DOMAIN stmt[c].rows
        /\ UNCHANGED <<late, hit, stmt, nth, reply>>
    BY <1>8 DEF InsertReply, UpdateReply, DeleteReply, Handles, PrefixInv, BusyOK, service
  <2>2. ASSUME NEW op, Done(c, op), UNCHANGED req, reply[c].status = 200, req[c].verb # "GET"
        PROVE  PrefixInv'
    BY <2>1, <2>2, NextRowKeepsPrefix DEF Done, PrefixInv, AckedOK
  <2>3. ASSUME Fail(c) PROVE PrefixInv'
    BY <2>1, <2>3, PcKeepsPrefix DEF Fail
  <2>4. CASE InsertReply(c)
    <3>1. ThisRow(c).op = "insert" /\ req[c].verb # "GET"
      BY <2>1, <2>4 DEF InsertReply, Handles, PrefixInv, BusyOK
    <3>2. ASSUME Call(c, "PUT", ThisRow(c).id, ThisRow(c).vals), UNCHANGED row PROVE PrefixInv'
      BY <2>1, <3>2, CallKeepsPrefix DEF Verbs
    <3> QED BY <2>2, <2>3, <2>4, <3>1, <3>2 DEF InsertReply
  <2>5. CASE UpdateReply(c)
    <3>1. ASSUME Call(c, "PUT", ThisRow(c).id, Applied(reply[c].body, ThisRow(c))), UNCHANGED row
          PROVE PrefixInv'
      BY <2>1, <3>1, CallKeepsPrefix DEF Verbs
    <3> QED BY <2>2, <2>3, <2>5, <3>1 DEF UpdateReply
  <2>6. CASE DeleteReply(c)
    <3>1. ASSUME Call(c, "DELETE", ThisRow(c).id, NullBody), UNCHANGED row PROVE PrefixInv'
      BY <2>1, <3>1, CallKeepsPrefix DEF Verbs
    <3>2. ASSUME req[c].verb = "DELETE", reply[c].status \in {200, 204}, NextRow(c), UNCHANGED req
          PROVE PrefixInv'
      BY <2>1, <3>2, NextRowKeepsPrefix DEF PrefixInv, AckedOK
    <3> QED BY <2>3, <2>6, <3>1, <3>2 DEF DeleteReply
  <2> QED BY <1>8, <2>4, <2>5, <2>6
<1>9. ASSUME NEW c \in Conns, Serve(c) PROVE PrefixInv'
  <2>1. PICK o \in Outcomes(req[c]), acked \in BOOLEAN :
          /\ CarryOut(req[c], o, c, nth[c], row[c], acked)
          /\ reply' = [reply EXCEPT ![c] = IF acked THEN o.reply ELSE Answer(503, NoId, NullBody)]
    BY <1>9 DEF Serve
  <2>2. req[c] \in Request /\ nth[c] \in Nat /\ row[c] \in Nat
    BY DEF TypeOK
  <2>3. /\ \A d \in Conns : hit[d] \subseteq hit'[d]
        /\ hit'[c] \subseteq hit[c] \cup {row[c]}
        /\ \A d \in Conns \ {c} : hit'[d] = hit[d]
        /\ o.wrote => row[c] \in hit'[c]
    BY <2>1, <2>2, CarryOutHit DEF CarryOut
  <2>4. /\ pc[c] = "sent" /\ pc'[c] = "replied" /\ \A d \in Conns \ {c} : pc'[d] = pc[d]
        /\ UNCHANGED <<late, stmt, nth, row, req>>
        /\ reply'[c] = (IF acked THEN o.reply ELSE Answer(503, NoId, NullBody))
        /\ \A d \in Conns \ {c} : reply'[d] = reply[d]
    BY <1>9, <2>1 DEF Serve, TypeOK
  <2>5. PrefixApplied'
    BY <2>2, <2>3, <2>4 DEF PrefixInv, PrefixApplied
  <2>6. LateOK' /\ BusyOK'
    BY <2>4 DEF PrefixInv, LateOK, BusyOK, ThisRow
  <2>7. reply'[c].status \in {200, 204} /\ req[c].verb # "GET" => o.wrote
    BY <2>2, <2>4, OutcomeFacts DEF TypeOK, Answer
  <2>8. AckedOK'
    BY <2>3, <2>4, <2>7 DEF PrefixInv, AckedOK
  <2> QED BY <2>5, <2>6, <2>8 DEF PrefixInv
<1>10. ASSUME NEW c \in Conns, Refuse(c) PROVE PrefixInv'
  <2>1. PICK s \in {400, 403, 429, 503}, rate \in BOOLEAN :
          /\ rate => s = 403
          /\ reply' = [reply EXCEPT ![c] = [status |-> s, rate |-> rate, id |-> NoId, body |-> NullBody]]
    BY <1>10 DEF Refuse
  <2>2. /\ pc[c] = "sent" /\ pc'[c] = "replied" /\ \A d \in Conns \ {c} : pc'[d] = pc[d]
        /\ UNCHANGED <<late, hit, stmt, nth, row, req>>
        /\ reply'[c].status = s /\ \A d \in Conns \ {c} : reply'[d] = reply[d]
    BY <1>10, <2>1 DEF Refuse, TypeOK, service, sink
  <2>3. PrefixApplied' /\ LateOK'
    BY <2>2 DEF PrefixInv, PrefixApplied, LateOK
  <2>4. BusyOK'
    BY <2>2 DEF PrefixInv, BusyOK, ThisRow
  <2>5. AckedOK'
    BY <2>2 DEF PrefixInv, AckedOK
  <2> QED BY <2>3, <2>4, <2>5 DEF PrefixInv
<1>11. ASSUME NEW c \in Conns, Broken(c) PROVE PrefixInv'
  <2>1. /\ pc'[c] = "failed" /\ \A d \in Conns \ {c} : pc'[d] = pc[d]
        /\ UNCHANGED <<hit, stmt, nth, row, req, reply>>
    BY <1>11 DEF Broken, TypeOK, sink
  <2>2. PrefixApplied' /\ BusyOK'
    BY <2>1 DEF PrefixInv, PrefixApplied, BusyOK, ThisRow
  <2>3. AckedOK'
    BY <2>1 DEF PrefixInv, AckedOK
  <2>4. late' \subseteq late \cup {[conn |-> c, nth |-> nth[c], row |-> row[c], req |-> req[c]]}
    BY <1>11 DEF Broken
  <2>5. LateOK'
    BY <2>1, <2>4 DEF PrefixInv, LateOK, TypeOK
  <2> QED BY <2>2, <2>3, <2>5 DEF PrefixInv
<1>12. ASSUME ServeLate PROVE PrefixInv'
  <2>1. PICK l \in late :
          /\ late' = late \ {l}
          /\ \E o \in Outcomes(l.req) : CarryOut(l.req, o, l.conn, l.nth, l.row, FALSE)
          /\ UNCHANGED <<pc, sink, row, req, attempt, reply>>
    BY <1>12 DEF ServeLate
  <2>2. l.req \in Request /\ l.conn \in Conns /\ l.nth \in Nat /\ l.row \in Nat
    BY DEF TypeOK
  <2>3. /\ \A d \in Conns : hit[d] \subseteq hit'[d]
        /\ \A d \in Conns : hit'[d] \subseteq hit[d] \cup {l.row}
        /\ \A d \in Conns : d # l.conn \/ l.nth # nth[l.conn] => hit'[d] = hit[d]
    <3>1. PICK o \in Outcomes(l.req) : CarryOut(l.req, o, l.conn, l.nth, l.row, FALSE)
      BY <2>1
    <3> QED BY <2>2, <3>1, CarryOutHit DEF CarryOut
  <2>4. UNCHANGED <<pc, stmt, nth, row, req, reply>>
    BY <2>1 DEF sink
  <2>5. l.nth = nth[l.conn] => l.row <= row[l.conn]
    BY DEF PrefixInv, LateOK
  <2>6. PrefixApplied'
    BY <2>2, <2>3, <2>4, <2>5 DEF PrefixInv, PrefixApplied
  <2>7. LateOK' /\ BusyOK'
    BY <2>1, <2>4 DEF PrefixInv, LateOK, BusyOK, ThisRow
  <2>8. AckedOK'
    BY <2>3, <2>4 DEF PrefixInv, AckedOK
  <2> QED BY <2>6, <2>7, <2>8 DEF PrefixInv
<1> QED BY <1>1, <1>2, <1>3, <1>4, <1>5, <1>6, <1>7, <1>8, <1>9, <1>10, <1>11, <1>12
        DEF Next, Client, Exchange

-----------------------------------------------------------------------------
\* TypeOK and the prefix invariant, together inductive: the types of the sinks'
\* steps need a row to be in the sink, the prefix needs the types.
LEMMA Inductive == Spec => [](TypeOK /\ PrefixInv)
<1>1. Init => TypeOK /\ PrefixInv
  <2> SUFFICES ASSUME Init PROVE TypeOK /\ PrefixInv
    OBVIOUS
  <2>1. NoRequest \in Request /\ NoReply \in Reply
    BY NullBodyType DEF NoRequest, Request, Verbs, NoReply, Answer, Reply, Codes
  <2>2. [returning |-> FALSE, rows |-> << >>] \in Statement
    BY DEF Statement
  <2>3. returned \in [Conns -> [Ops -> Seq([id : AllIds \cup {NoId}, body : Body])]]
    BY DEF Init
  <2>4. TypeOK
    BY <2>1, <2>2, <2>3, ConstantsAssumption DEF Init, TypeOK
  <2>5. PrefixInv
    BY DEF Init, PrefixInv, PrefixApplied, LateOK, BusyOK, AckedOK
  <2> QED BY <2>4, <2>5
<1>2. TypeOK /\ PrefixInv /\ [Next]_vars => (TypeOK /\ PrefixInv)'
  <2> SUFFICES ASSUME TypeOK, PrefixInv, [Next]_vars PROVE TypeOK' /\ PrefixInv'
    OBVIOUS
  <2>1. CASE Next
    BY <2>1, TypeStep, PrefixStep DEF PrefixInv
  <2>2. CASE UNCHANGED vars
    BY <2>2 DEF vars, TypeOK, PrefixInv, PrefixApplied, LateOK, BusyOK, AckedOK, ThisRow
  <2> QED BY <2>1, <2>2
<1> QED BY <1>1, <1>2, PTL DEF Spec

\* The state of the sinks, of the retrying client and of the calendar is always
\* well typed: whatever the service answers, no request of
\* RetryingHttpClient::Execute is tried more than max_attempts times.
THEOREM TypeCorrect == Spec => []TypeOK
BY Inductive, PTL

\* A statement of any length, failing at any request, leaves behind the writes
\* of a prefix of its rows: all rows before the one in the sink, none after it.
THEOREM PrefixCorrect == Spec => []PrefixApplied
<1>1. PrefixInv => PrefixApplied
  BY DEF PrefixInv
<1> QED BY <1>1, Inductive, PTL
=============================================================================
