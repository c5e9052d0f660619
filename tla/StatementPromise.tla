--------------------------- MODULE StatementPromise ---------------------------
(***************************************************************************)
(* What a statement on an attached calendar promises, without the requests  *)
(* it takes.  Its rows take effect in order.  The statement leaves a row    *)
(* only when the row has taken effect, and a row may take effect more than  *)
(* once: a request is retried when its answer was lost.  A statement may    *)
(* fail at any row; it then leaves what it did so far, and the effect of    *)
(* the row it failed at may still come, or come again, at any later time,   *)
(* once.  Nothing else changes the calendar: no row before or after, and no *)
(* event the row does not name.  An insert stores the values of its row; an *)
(* update those of its SET columns, while the promise leaves the others of  *)
(* the event open: they are what the statement read earlier, which          *)
(* UnsetColumnsKept of UpdateStatement bounds.                              *)
(***************************************************************************)
EXTENDS Naturals, Sequences

CONSTANTS Conns, Ids, AutoIds, NoId, Fields, ReadOnly, Vals, Status, Cancelled

Body == [Fields -> Vals]
Row  == [op : {"insert", "update", "delete"}, id : Ids \cup {NoId},
         cols : SUBSET (Fields \cup ReadOnly), vals : Body]

VARIABLES
    store,      \* the calendar
    phase,      \* of each connection: "ready", "running", "done" or "failed"
    nth, rows,  \* its statement's number and rows
    at,         \* the row it has come to
    took,       \* its rows that have taken effect
    owed        \* effects that may still come, of statements that have failed

statement == <<phase, nth, rows, at>>
vars == <<store, statement, took, owed>>

-----------------------------------------------------------------------------
\* An effect writes a whole event, or cancels it.
Effect == [deletes : BOOLEAN, id : Ids \cup {NoId}, body : Body]

\* The row has something to do.
Consumed(r) == r.op = "insert" \/ r.id # NoId

\* Effect w is what row r asks for.  Of an update's whole event only the SET columns
\* are said.
Asks(r, w) ==
    /\ Consumed(r)
    /\ w \in Effect
    /\ w.id = r.id
    /\ w.deletes <=> r.op = "delete"
    /\ r.op = "insert" => w.body = r.vals
    /\ r.op = "update" => \A f \in r.cols \cap Fields : w.body[f] = r.vals[f]

\* Event i comes to be as effect w says.  Only a row without an id makes an event
\* under an id of the service's choice, and one that was not taken.
Becomes(i, w) ==
    /\ IF w.id = NoId THEN i \in AutoIds /\ ~store[i].exists ELSE i = w.id
    /\ w.deletes => store[i].exists
    /\ store' = [store EXCEPT ![i] =
           [exists |-> TRUE,
            body |-> IF w.deletes THEN [store[i].body EXCEPT ![Status] = Cancelled] ELSE w.body]]

-----------------------------------------------------------------------------
Begin(c) ==
    /\ phase[c] # "running"
    /\ phase' = [phase EXCEPT ![c] = "running"]
    /\ nth' = [nth EXCEPT ![c] = @ + 1]
    /\ rows' = [rows EXCEPT ![c] = rows'[c]] /\ rows'[c] \in Seq(Row)
    /\ at' = [at EXCEPT ![c] = 1]
    /\ took' = [took EXCEPT ![c] = {}]
    /\ UNCHANGED <<store, owed>>

\* The row the statement has come to takes effect.
TakeEffect(c) ==
    /\ phase[c] = "running" /\ at[c] \in DOMAIN rows[c]
    /\ \E w \in Effect, i \in Ids \cup AutoIds : Asks(rows[c][at[c]], w) /\ Becomes(i, w)
    /\ took' = [took EXCEPT ![c] = @ \cup {at[c]}]
    /\ UNCHANGED <<statement, owed>>

Advance(c) ==
    /\ phase[c] = "running" /\ at[c] \in DOMAIN rows[c]
    /\ Consumed(rows[c][at[c]]) => at[c] \in took[c]
    /\ at' = [at EXCEPT ![c] = @ + 1]
    /\ UNCHANGED <<store, phase, nth, rows, took, owed>>

Succeed(c) ==
    /\ phase[c] = "running" /\ at[c] \notin DOMAIN rows[c]
    /\ phase' = [phase EXCEPT ![c] = "done"]
    /\ UNCHANGED <<store, nth, rows, at, took, owed>>

Fail(c) ==
    /\ phase[c] = "running"
    /\ phase' = [phase EXCEPT ![c] = "failed"]
    /\ \/ owed' = owed
       \/ \E w \in Effect :
             /\ Asks(rows[c][at[c]], w)
             /\ owed' = owed \cup {[conn |-> c, nth |-> nth[c], row |-> at[c], effect |-> w]}
    /\ UNCHANGED <<store, nth, rows, at, took>>

\* An effect that was owed comes, or comes to nothing.
Late(o) ==
    /\ owed' = owed \ {o}
    /\ \/ /\ \E i \in Ids \cup AutoIds : Becomes(i, o.effect)
          /\ took' = IF o.nth = nth[o.conn] THEN [took EXCEPT ![o.conn] = @ \cup {o.row}] ELSE took
       \/ UNCHANGED <<store, took>>
    /\ UNCHANGED statement

Init ==
    /\ store \in [Ids \cup AutoIds -> [exists : BOOLEAN, body : Body]]
    /\ phase = [c \in Conns |-> "ready"]
    /\ nth = [c \in Conns |-> 0]
    /\ rows = [c \in Conns |-> << >>]
    /\ at = [c \in Conns |-> 1]
    /\ took = [c \in Conns |-> {}]
    /\ owed = {}

Next ==
    \/ \E c \in Conns : Begin(c) \/ TakeEffect(c) \/ Advance(c) \/ Succeed(c) \/ Fail(c)
    \/ \E o \in owed : Late(o)

Spec == Init /\ [][Next]_vars
=============================================================================
