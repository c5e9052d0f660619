----------------------------- MODULE EventsDmlMC -----------------------------
(* EventsDml on small calendars: two known events, two writable columns.    *)
EXTENDS EventsDmlPromise, TLC

CONSTANTS e1, e2, x, y

\* The ids the service may assign are interchangeable.
AutoSymmetry == Permutations(AutoIds)

MCFields   == {"status", "title"}
MCReadOnly == {"etag"}
MCVals     == {Null, Cancelled, x, y}

TitleIs(v) == [NullBody EXCEPT !["title"] = v]

Ins(id, v)       == [op |-> "insert", id |-> id, cols |-> {}, vals |-> TitleIs(v)]
Upd(id, cols, v) == [op |-> "update", id |-> id, cols |-> cols, vals |-> TitleIs(v)]
Del(id)          == [op |-> "delete", id |-> id, cols |-> {}, vals |-> NullBody]

Plain(rows)     == [returning |-> FALSE, rows |-> rows]
Returning(rows) == [returning |-> TRUE, rows |-> rows]

\* e1 is on the calendar; e2 never was, or was deleted, so that its id is reserved.
MCSeeds ==
    {[i \in AllIds |->
        CASE i = e1 -> [exists |-> TRUE, body |-> TitleIs(x)]
          [] i = e2 /\ reserved -> [exists |-> TRUE, body |-> [NullBody EXCEPT ![Status] = Cancelled]]
          [] OTHER -> NoEvent] : reserved \in BOOLEAN}

\* One of each kind, two rows at most, for two connections side by side.
SharedStatements ==
    {Plain(<<Ins(e1, y), Ins(e2, x)>>),
     Plain(<<Upd(e1, {"title"}, Null)>>),
     Returning(<<Upd(NoId, {"title"}, y), Upd(e1, {"status"}, y)>>),
     Returning(<<Del(e1)>>)}

\* Longer statements for one connection that runs two of them, one of them a
\* MERGE, one that names the same event twice and one that sets a read-only column.
LongStatements ==
    {Returning(<<Ins(e2, y), Upd(e1, {"title"}, y), Del(e1)>>),
     Plain(<<Ins(e2, x), Ins(NoId, y), Ins(e2, Null)>>),
     Returning(<<Ins(NoId, x), Ins(e1, y)>>),
     Plain(<<Del(e1), Del(NoId), Del(e1)>>),
     Plain(<<Upd(e1, {"title", "etag"}, y)>>),
     Plain(<<Upd(NoId, {"title"}, x), Upd(e1, {"title"}, Null), Upd(e1, {"title"}, y)>>)}

\* A concurrent writer against DELETE ... RETURNING.
DeleteAgainstUpdate ==
    {Plain(<<Upd(e1, {"title"}, y)>>), Returning(<<Del(e1)>>)}
=============================================================================
