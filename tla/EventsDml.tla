------------------------------ MODULE EventsDml ------------------------------
(***************************************************************************)
(* INSERT, UPDATE, DELETE and MERGE on an attached calendar: the Sink loops *)
(* of CalendarInsert, CalendarUpdate and CalendarDelete, every request they *)
(* make going through RetryingHttpClient::Execute to the Calendar service.  *)
(*                                                                         *)
(* Each connection runs one statement at a time, a statement is a sequence *)
(* of rows, and each row costs one or more requests.  Several connections  *)
(* (or any other client of the same calendar) interleave between requests; *)
(* nothing locks an event.  The service is external: it may refuse a       *)
(* request, answer 503 although it carried the request out, lose the       *)
(* answer, or carry a request out after the client has given up on it.     *)
(*                                                                         *)
(* A row's `op` says which sink consumes it: the rows of a MERGE go to all *)
(* three, those of the other statements to one.                            *)
(***************************************************************************)
EXTENDS Integers, Sequences, FiniteSets

CONSTANTS
    Conns,          \* connections (DuckDB runs one statement of each at a time)
    Ids,            \* event ids known to the client
    AutoIds,        \* ids the service may assign
    NoId,           \* SQL NULL in the event_id / rowid column
    Fields,         \* writable columns of an event, among them Status
    ReadOnly,       \* server-managed columns
    Vals,           \* column values, among them Null (key absent) and Cancelled
    Status, Null, Cancelled,
    MaxAttempts,    \* RetryConfig::max_attempts
    Statements,     \* the statements the connections may run
    Seeds,          \* the possible contents of the calendar at the start
    MaxStatements   \* bound: statements run by one connection

AllIds == Ids \cup AutoIds
Body   == [Fields -> Vals]
Event  == [exists : BOOLEAN, body : Body]
Store  == [AllIds -> Event]
Ops    == {"insert", "update", "delete"}

\* One row handed to a sink: `cols` is the SET list of an UPDATE, `vals` the
\* values of the columns (all of them for an INSERT).
Row == [op : Ops, id : Ids \cup {NoId}, cols : SUBSET (Fields \cup ReadOnly), vals : Body]

Statement == [returning : BOOLEAN, rows : Seq(Row)]

ASSUME ConstantsAssumption ==
    /\ MaxAttempts \in Nat \ {0}
    /\ MaxStatements \in Nat
    /\ NoId \notin AllIds \cup Conns
    /\ Ids \cap AutoIds = {}
    /\ Fields \cap ReadOnly = {}
    /\ Status \in Fields
    /\ {Null, Cancelled} \subseteq Vals
    /\ Statements \subseteq Statement
    /\ Seeds \subseteq Store

VARIABLES
    store,      \* the calendar, as the service keeps it
    late,       \* requests the client gave up on and the service may still carry out
    pc,         \* where each connection's statement is
    stmt,       \* the statement it runs, as bound when it started
    nth,        \* how many statements it has started
    row,        \* index of the row in the sink
    req,        \* the request RetryingHttpClient::Execute is working on
    attempt,    \* its loop counter
    reply,      \* the last HttpResponse
    count,      \* insert_count, update_count, delete_count
    returned,   \* each sink's rows for RETURNING
    hit,        \* history: rows of the statement whose write the service carried out
    writer,     \* history: the last to change each event
    lost        \* history: POSTs without an id carried out and not acknowledged

vars == <<store, late, pc, stmt, nth, row, req, attempt, reply, count, returned,
          hit, writer, lost>>
service == <<store, late, hit, writer, lost>>
sink    == <<stmt, nth, count, returned>>

-----------------------------------------------------------------------------
\* The service (external), as the resources under calendar/resources use it.

NullBody == [f \in Fields |-> Null]
NoEvent  == [exists |-> FALSE, body |-> NullBody]

\* events.list hides cancelled events.
Live(e) == e.exists /\ e.body[Status] # Cancelled

Verbs   == {"POST", "GET", "PUT", "DELETE"}
Request == [verb : Verbs, id : Ids \cup {NoId}, body : Body]
NoRequest == [verb |-> "GET", id |-> NoId, body |-> NullBody]

Codes == {200, 204, 400, 403, 404, 409, 410, 429, 503}
\* `rate` says that the body of a 403 names a rate limit.
Reply == [status : Codes, rate : BOOLEAN, id : AllIds \cup {NoId}, body : Body]
Answer(status, id, body) == [status |-> status, rate |-> FALSE, id |-> id, body |-> body]
NoReply == Answer(200, NoId, NullBody)

\* What carrying out request q does: the answer, whether it writes, and what.
Outcomes(q) ==
    CASE q.verb = "POST" /\ q.id = NoId ->
            {[wrote |-> TRUE, reply |-> Answer(200, i, q.body)] :
                i \in {j \in AutoIds : ~store[j].exists}}
      [] q.verb = "POST" /\ q.id # NoId /\ store[q.id].exists ->
            {[wrote |-> FALSE, reply |-> Answer(409, q.id, q.body)]}
      [] q.verb = "POST" /\ q.id # NoId /\ ~store[q.id].exists ->
            {[wrote |-> TRUE, reply |-> Answer(200, q.id, q.body)]}
      [] q.verb # "POST" /\ (q.id = NoId \/ ~store[q.id].exists) ->
            {[wrote |-> FALSE, reply |-> Answer(404, q.id, q.body)]}
      [] q.verb = "GET" /\ q.id # NoId /\ store[q.id].exists ->
            {[wrote |-> FALSE, reply |-> Answer(200, q.id, store[q.id].body)]}
      [] q.verb = "PUT" /\ q.id # NoId /\ store[q.id].exists ->
            {[wrote |-> TRUE, reply |-> Answer(200, q.id, q.body)]}
      [] q.verb = "DELETE" /\ q.id # NoId /\ store[q.id].exists ->
            IF Live(store[q.id])
              THEN {[wrote |-> TRUE, reply |-> Answer(204, q.id,
                        [store[q.id].body EXCEPT ![Status] = Cancelled])]}
              ELSE {[wrote |-> FALSE, reply |-> Answer(410, q.id, q.body)]}

\* The service carries out request q, made for row r of connection c's n-th
\* statement; `acked` says that the client gets the true answer.
CarryOut(q, o, c, n, r, acked) ==
    IF o.wrote
      THEN /\ store' = [store EXCEPT ![o.reply.id] = [exists |-> TRUE, body |-> o.reply.body]]
           /\ hit' = [hit EXCEPT ![c] = IF n = nth[c] THEN @ \cup {r} ELSE @]
           /\ writer' = [writer EXCEPT ![o.reply.id] = [conn |-> c, nth |-> n]]
           /\ lost' = IF q.id = NoId /\ ~acked THEN lost + 1 ELSE lost
      ELSE UNCHANGED <<store, hit, writer, lost>>

\* The request is carried out; the answer that comes back may be a 503.
Serve(c) ==
    /\ pc[c] = "sent"
    /\ \E o \in Outcomes(req[c]), acked \in BOOLEAN :
         /\ CarryOut(req[c], o, c, nth[c], row[c], acked)
         /\ reply' = [reply EXCEPT ![c] = IF acked THEN o.reply
                                                   ELSE Answer(503, NoId, NullBody)]
    /\ pc' = [pc EXCEPT ![c] = "replied"]
    /\ UNCHANGED <<late, stmt, nth, row, req, attempt, count, returned>>

\* The request is refused and not carried out: overload or rate limit (to be
\* retried), or a malformed or forbidden request.
Refuse(c) ==
    /\ pc[c] = "sent"
    /\ \E s \in {400, 403, 429, 503}, rate \in BOOLEAN :
         /\ rate => s = 403
         /\ reply' = [reply EXCEPT ![c] = [status |-> s, rate |-> rate,
                                           id |-> NoId, body |-> NullBody]]
    /\ pc' = [pc EXCEPT ![c] = "replied"]
    /\ UNCHANGED <<service, sink, row, req, attempt>>

\* No usable answer: HttpLibClient::Execute throws an IOException, or the answer
\* is not JSON.  Neither is retried: the statement fails.  The request may have
\* got to the service, which then carries it out at some later time.
Broken(c) ==
    /\ pc[c] = "sent"
    /\ pc' = [pc EXCEPT ![c] = "failed"]
    /\ late' \in {late, late \cup {[conn |-> c, nth |-> nth[c], row |-> row[c], req |-> req[c]]}}
    /\ UNCHANGED <<store, hit, writer, lost, sink, row, req, attempt, reply>>

\* The service carries out a request whose client no longer waits for it.
ServeLate ==
    \E l \in late :
        /\ late' = late \ {l}
        /\ \E o \in Outcomes(l.req) : CarryOut(l.req, o, l.conn, l.nth, l.row, FALSE)
        /\ UNCHANGED <<pc, sink, row, req, attempt, reply>>

-----------------------------------------------------------------------------
\* RetryingHttpClient.

IsRetryable(r) ==
    \/ r.status = 429
    \/ r.status \in 500..599
    \/ r.status = 403 /\ r.rate

\* The loop of Execute with one attempt too many.
Bug_ReturnsLate(c) == ~IsRetryable(reply[c]) \/ attempt[c] = MaxAttempts

\* Execute returns to its caller with the last response.
Returns(c) == ~IsRetryable(reply[c]) \/ attempt[c] + 1 = MaxAttempts

\* A retry that forgets to count: the loop never ends.
Bug_RetryUncounted(c) ==
    /\ pc[c] = "replied"
    /\ ~Returns(c)
    /\ pc' = [pc EXCEPT ![c] = "sent"]
    /\ UNCHANGED <<service, sink, row, req, attempt, reply>>

\* The loop of Execute goes round again (SleepBackoff only waits).
Retry(c) ==
    /\ pc[c] = "replied"
    /\ ~Returns(c)
    /\ attempt' = [attempt EXCEPT ![c] = @ + 1]
    /\ pc' = [pc EXCEPT ![c] = "sent"]
    /\ UNCHANGED <<service, sink, row, req, reply>>

-----------------------------------------------------------------------------
\* The sinks.

ThisRow(c) == stmt[c].rows[row[c]]

\* A resource method is called: DoGet, DoPost, DoPut, DoDelete.
Call(c, verb, id, body) ==
    /\ pc' = [pc EXCEPT ![c] = "sent"]
    /\ req' = [req EXCEPT ![c] = [verb |-> verb, id |-> id, body |-> body]]
    /\ attempt' = [attempt EXCEPT ![c] = 0]

\* The loop body ends for this row.
NextRow(c) ==
    /\ pc' = [pc EXCEPT ![c] = "sink"]
    /\ row' = [row EXCEPT ![c] = @ + 1]

\* EventToRow of the event in the last response.
ReturnedRow(c) == [id |-> reply[c].id, body |-> reply[c].body]
Collected(c, op) == [returned EXCEPT ![c][op] = Append(@, ReturnedRow(c))]

\* Counts the row and, for RETURNING, collects the event the API echoed.
Done(c, op) ==
    /\ count' = [count EXCEPT ![c][op] = @ + 1]
    /\ returned' = IF stmt[c].returning THEN Collected(c, op) ELSE returned
    /\ NextRow(c)

\* An exception leaves the sink: the statement fails, nothing is undone.
Fail(c) ==
    /\ pc' = [pc EXCEPT ![c] = "failed"]
    /\ UNCHANGED <<row, req, attempt, count, returned>>

\* The row an UPDATE or DELETE gets from the scan below it.  With RETURNING the
\* SET list is expanded to the whole row, as the scan saw it.
Bound(r, returning) ==
    IF r.op = "update" /\ returning /\ r.id # NoId
      THEN [r EXCEPT !.cols = Fields \cup ReadOnly,
                     !.vals = [f \in Fields |-> IF f \in r.cols THEN r.vals[f]
                                                ELSE store[r.id].body[f]]]
      ELSE r

\* Starts a statement.  An UPDATE or DELETE gets the rows that its scan listed.
Start(c) ==
    /\ pc[c] \in {"idle", "done", "failed"}
    /\ nth[c] < MaxStatements
    /\ \E s \in Statements :
         /\ \A k \in DOMAIN s.rows :
                s.rows[k].op # "insert" /\ s.rows[k].id # NoId => Live(store[s.rows[k].id])
         /\ stmt' = [stmt EXCEPT ![c] = [s EXCEPT !.rows =
                        [k \in DOMAIN s.rows |-> Bound(s.rows[k], s.returning)]]]
    /\ pc' = [pc EXCEPT ![c] = "sink"]
    /\ nth' = [nth EXCEPT ![c] = @ + 1]
    /\ row' = [row EXCEPT ![c] = 1]
    /\ count' = [count EXCEPT ![c] = [op \in Ops |-> 0]]
    /\ returned' = [returned EXCEPT ![c] = [op \in Ops |-> << >>]]
    /\ hit' = [hit EXCEPT ![c] = {}]
    /\ UNCHANGED <<store, late, req, attempt, reply, writer, lost>>

InSink(c, op) ==
    /\ pc[c] = "sink"
    /\ row[c] \in DOMAIN stmt[c].rows
    /\ ThisRow(c).op = op

\* The event is built without the client's event_id.
Bug_SinkInsertDropsId(c) ==
    /\ InSink(c, "insert")
    /\ Call(c, "POST", NoId, ThisRow(c).vals)
    /\ UNCHANGED <<service, sink, row, reply>>

\* CalendarInsert::Sink: RowToEvent, then events.insert.
SinkInsert(c) ==
    /\ InSink(c, "insert")
    /\ Call(c, "POST", ThisRow(c).id, ThisRow(c).vals)
    /\ UNCHANGED <<service, sink, row, reply>>

\* CalendarUpdate::Sink: read the event first.
SinkUpdate(c) ==
    /\ InSink(c, "update")
    /\ ThisRow(c).id # NoId
    /\ Call(c, "GET", ThisRow(c).id, NullBody)
    /\ UNCHANGED <<service, sink, row, reply>>

\* CalendarDelete::Sink: only RETURNING reads the event first.
SinkDelete(c) ==
    /\ InSink(c, "delete")
    /\ ThisRow(c).id # NoId
    /\ Call(c, IF stmt[c].returning THEN "GET" ELSE "DELETE", ThisRow(c).id, NullBody)
    /\ UNCHANGED <<service, sink, row, reply>>

\* A row without a row id is passed over and yet counted.
Bug_SkipNullCounts(c) ==
    /\ InSink(c, "update") \/ InSink(c, "delete")
    /\ ThisRow(c).id = NoId
    /\ count' = [count EXCEPT ![c][ThisRow(c).op] = @ + 1]
    /\ NextRow(c)
    /\ UNCHANGED <<service, stmt, nth, returned, req, attempt, reply>>

\* A row without a row id is passed over.
SkipNull(c) ==
    /\ InSink(c, "update") \/ InSink(c, "delete")
    /\ ThisRow(c).id = NoId
    /\ NextRow(c)
    /\ UNCHANGED <<service, sink, req, attempt, reply>>

\* The last row is through: GetDataInternal reports the count or the rows.
Finish(c) ==
    /\ pc[c] = "sink"
    /\ row[c] \notin DOMAIN stmt[c].rows
    /\ pc' = [pc EXCEPT ![c] = "done"]
    /\ UNCHANGED <<service, sink, row, req, attempt, reply>>

\* Execute has returned and the sink goes on with the response.
Handles(c, op) ==
    /\ pc[c] = "replied"
    /\ Returns(c)
    /\ ThisRow(c).op = op

Upserts(c) == req[c].verb = "POST" /\ reply[c].status = 409 /\ ThisRow(c).id # NoId

\* An INSERT that takes 409 to mean that its event is there already.
Bug_InsertConflictIgnored(c) ==
    /\ Handles(c, "insert")
    /\ \/ reply[c].status \in {200, 409} /\ Done(c, "insert") /\ UNCHANGED <<req, attempt>>
       \/ reply[c].status \notin {200, 409} /\ Fail(c)
    /\ UNCHANGED <<service, stmt, nth, reply>>

\* CalendarInsert::Sink after events.insert: 409 for a client-supplied id turns
\* the insert into an update of that id; the sibling handler does not catch what
\* that update throws.
InsertReply(c) ==
    /\ Handles(c, "insert")
    /\ \/ /\ reply[c].status = 200
          /\ Done(c, "insert")
          /\ UNCHANGED <<req, attempt>>
       \/ /\ Upserts(c)
          /\ Call(c, "PUT", ThisRow(c).id, ThisRow(c).vals)
          /\ UNCHANGED <<row, count, returned>>
       \/ /\ reply[c].status # 200 /\ ~Upserts(c)
          /\ Fail(c)
    /\ UNCHANGED <<service, stmt, nth, reply>>

\* ApplyColumn in INSERT mode, used for an UPDATE: a NULL no longer erases.
Bug_AppliedOmitsNull(body, r) ==
    [f \in Fields |-> IF f \in r.cols /\ r.vals[f] # Null THEN r.vals[f] ELSE body[f]]

\* The SET columns put into the event that was read (ApplyColumn, update = true:
\* NULL erases the key).  Read-only columns change nothing.
Applied(body, r) == [f \in Fields |-> IF f \in r.cols THEN r.vals[f] ELSE body[f]]

\* ApplySet rejects a read-only column; RETURNING skips it.
Rejected(c) == ~stmt[c].returning /\ ThisRow(c).cols \cap ReadOnly # {}

\* CalendarUpdate::Sink after events.get and after events.update.
UpdateReply(c) ==
    /\ Handles(c, "update")
    /\ \/ /\ req[c].verb = "GET" /\ reply[c].status = 200 /\ ~Rejected(c)
          /\ Call(c, "PUT", ThisRow(c).id, Applied(reply[c].body, ThisRow(c)))
          /\ UNCHANGED <<row, count, returned>>
       \/ /\ req[c].verb = "PUT" /\ reply[c].status = 200
          /\ Done(c, "update")
          /\ UNCHANGED <<req, attempt>>
       \/ /\ reply[c].status # 200 \/ (req[c].verb = "GET" /\ Rejected(c))
          /\ Fail(c)
    /\ UNCHANGED <<service, stmt, nth, reply>>

\* CalendarDelete::Sink after events.get and after events.delete.
DeleteReply(c) ==
    /\ Handles(c, "delete")
    /\ \/ /\ req[c].verb = "GET" /\ reply[c].status = 200
          /\ returned' = Collected(c, "delete")
          /\ Call(c, "DELETE", ThisRow(c).id, NullBody)
          /\ UNCHANGED <<row, count>>
       \/ /\ req[c].verb = "DELETE" /\ reply[c].status \in {200, 204}
          /\ count' = [count EXCEPT ![c]["delete"] = @ + 1]
          /\ NextRow(c)
          /\ UNCHANGED <<req, attempt, returned>>
       \/ /\ reply[c].status \notin {200, 204}
          /\ Fail(c)
    /\ UNCHANGED <<service, stmt, nth, reply>>

-----------------------------------------------------------------------------
Init ==
    /\ store \in Seeds
    /\ late = {}
    /\ pc = [c \in Conns |-> "idle"]
    /\ stmt = [c \in Conns |-> [returning |-> FALSE, rows |-> << >>]]
    /\ nth = [c \in Conns |-> 0]
    /\ row = [c \in Conns |-> 1]
    /\ req = [c \in Conns |-> NoRequest]
    /\ attempt = [c \in Conns |-> 0]
    /\ reply = [c \in Conns |-> NoReply]
    /\ count = [c \in Conns |-> [op \in Ops |-> 0]]
    /\ returned = [c \in Conns |-> [op \in Ops |-> << >>]]
    /\ hit = [c \in Conns |-> {}]
    /\ writer = [i \in AllIds |-> [conn |-> NoId, nth |-> 0]]
    /\ lost = 0

\* The steps DuckDB's executor takes for a running statement.
Client(c) ==
    \/ SinkInsert(c) \/ SinkUpdate(c) \/ SinkDelete(c) \/ SkipNull(c) \/ Finish(c)
    \/ Retry(c)
    \/ InsertReply(c) \/ UpdateReply(c) \/ DeleteReply(c)

\* A request ends, well or badly.
Exchange(c) == Serve(c) \/ Refuse(c) \/ Broken(c)

Next ==
    \/ \E c \in Conns : Start(c) \/ Client(c) \/ Exchange(c)
    \/ ServeLate

Spec == Init /\ [][Next]_vars

\* The executor runs a pipeline to its end, and httplib's timeouts end every
\* request.  Nothing obliges a connection to start a statement, nor the service
\* to carry out a request it was late with.
FairSpec == Spec /\ \A c \in Conns : WF_vars(Client(c)) /\ WF_vars(Exchange(c))

-----------------------------------------------------------------------------
\* Properties.

\* Every variable keeps its type; in particular the attempt counter of
\* RetryingHttpClient::Execute stays below max_attempts.
TypeOK ==
    /\ store \in Store
    /\ late \subseteq [conn : Conns, nth : Nat, row : Nat, req : Request]
    /\ pc \in [Conns -> {"idle", "sink", "sent", "replied", "done", "failed"}]
    /\ stmt \in [Conns -> Statement]
    /\ nth \in [Conns -> Nat]
    /\ row \in [Conns -> Nat]
    /\ req \in [Conns -> Request]
    /\ attempt \in [Conns -> 0 .. MaxAttempts - 1]
    /\ reply \in [Conns -> Reply]
    /\ count \in [Conns -> [Ops -> Nat]]
    /\ returned \in [Conns -> [Ops -> Seq([id : AllIds \cup {NoId}, body : Body])]]
    /\ hit \in [Conns -> SUBSET Nat]
    /\ writer \in [AllIds -> [conn : Conns \cup {NoId}, nth : Nat]]
    /\ lost \in Nat

\* The sink has something to do for this row.
Consumed(r) == r.op = "insert" \/ r.id # NoId

\* There is no rollback, so what a statement leaves behind when it fails is a
\* prefix: the service carried out the write of every row before the one in the
\* sink, and of no row after it.
PrefixApplied ==
    \A c \in Conns :
        /\ \A r \in hit[c] : r <= row[c]
        /\ \A k \in 1 .. row[c] - 1 :
              k \in DOMAIN stmt[c].rows /\ Consumed(stmt[c].rows[k]) => k \in hit[c]

\* What the last row that names event i asked for is what the event holds.
AsAsked(r, e) ==
    CASE r.op = "insert" -> e.exists /\ e.body = r.vals
      [] r.op = "update" -> \A f \in r.cols \cap Fields : e.body[f] = r.vals[f]
      [] r.op = "delete" -> ~Live(e)

\* A statement that succeeded took effect: unless somebody else changed event i
\* after it did, i is as the statement's last row for i asked, whatever was
\* retried, answered twice or turned from an insert into an update on the way.
DoneMeansStored ==
    \A c \in Conns, i \in Ids :
        pc[c] = "done" /\ writer[i] = [conn |-> c, nth |-> nth[c]] =>
            \E k \in DOMAIN stmt[c].rows :
                /\ stmt[c].rows[k].id = i
                /\ \A m \in DOMAIN stmt[c].rows : m > k => stmt[c].rows[m].id # i
                /\ AsAsked(stmt[c].rows[k], store[i])

\* The rows that sink op consumes, and the place of row k among them.
Asked(rows, op) == {k \in DOMAIN rows : rows[k].op = op /\ Consumed(rows[k])}
Place(rows, op, k) == Cardinality({m \in Asked(rows, op) : m <= k})

\* Event e shows row r as carried out: r's id and, unless r deletes, the values written.
Reports(e, r) ==
    /\ IF r.id = NoId THEN e.id \in AutoIds ELSE e.id = r.id
    /\ r.op # "delete" => AsAsked(r, [exists |-> TRUE, body |-> e.body])

\* What a successful statement reports is what it was asked: one per consumed
\* row in each count and, with RETURNING, one returned row for each, in the
\* rows' order, with the row's id and the values written.
ReportIsTrue ==
    \A c \in Conns, op \in Ops :
        LET rows == stmt[c].rows
            out  == returned[c][op]
        IN  pc[c] = "done" =>
                /\ count[c][op] = Cardinality(Asked(rows, op))
                /\ Len(out) = IF stmt[c].returning THEN Cardinality(Asked(rows, op)) ELSE 0
                /\ stmt[c].returning =>
                      \A k \in Asked(rows, op) : Reports(out[Place(rows, op, k)], rows[k])

\* A row inserted without an event_id can become several events, because the
\* POST is retried after a 503; each surplus event is the work of a request the
\* service carried out without the client being told.  Rows with an event_id
\* never create an event under another id.
DuplicatesOnlyFromLostReplies ==
    \A c \in Conns :
        Cardinality({i \in AutoIds : store[i].exists
                                      /\ writer[i] = [conn |-> c, nth |-> nth[c]]})
          <= lost + Cardinality({k \in hit[c] : stmt[c].rows[k].id = NoId})

\* What DELETE ... RETURNING reports is what it deleted.
ReturnedRowsAreDeletedRows ==
    \A c \in Conns :
        LET rows == stmt[c].rows
            out  == returned[c]["delete"]
        IN  pc[c] = "done" /\ stmt[c].returning =>
                \A k \in Asked(rows, "delete") :
                    writer[rows[k].id] = [conn |-> c, nth |-> nth[c]] =>
                        \A f \in Fields \ {Status} :
                            out[Place(rows, "delete", k)].body[f] = store[rows[k].id].body[f]

\* Every statement ends, in success or failure, whatever the service answers.
StatementEnds ==
    \A c \in Conns : pc[c] \in {"sink", "sent", "replied"} ~> pc[c] \in {"done", "failed"}
=============================================================================
