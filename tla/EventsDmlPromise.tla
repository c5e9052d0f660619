--------------------------- MODULE EventsDmlPromise ---------------------------
(* EventsDml keeps StatementPromise: the refinement mapping.  The requests, *)
(* their retries and their answers are hidden; of the requests the client   *)
(* gave up on, those that write are the effects still owed.                 *)
EXTENDS EventsDml

Phase(p) ==
    CASE p = "idle" -> "ready"
      [] p \in {"sink", "sent", "replied"} -> "running"
      [] p \in {"done", "failed"} -> p

EffectOf(q) == [deletes |-> q.verb = "DELETE", id |-> q.id, body |-> q.body]

OwedBy(l) == [conn |-> l.conn, nth |-> l.nth, row |-> l.row, effect |-> EffectOf(l.req)]

PhaseOf == [c \in Conns |-> Phase(pc[c])]
StmtRows == [c \in Conns |-> stmt[c].rows]
Owed == {OwedBy(l) : l \in {k \in late : k.req.verb # "GET"}}

Promise == INSTANCE StatementPromise WITH
    phase <- PhaseOf, rows <- StmtRows, at <- row, took <- hit, owed <- Owed

\* Whatever is retried, lost, repeated or late, a statement does to the calendar what
\* StatementPromise lets it do, and it succeeds only where that may.
KeepsPromise == Promise!Spec
=============================================================================
