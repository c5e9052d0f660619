------------------------ MODULE EventsDmlPromiseProofs ------------------------
(***************************************************************************)
(* EventsDml implements StatementPromise, for every set of connections,     *)
(* every calendar and every set of statements.  TypeOK and the prefix       *)
(* invariant of EventsDmlProofs tell what a request was made for; two more  *)
(* invariants tell that it asks for what its row asks, and that a statement *)
(* leaves at most one request behind, when it fails.  From these follows    *)
(* what a statement that succeeded may be relied on for: it is stored, its  *)
(* report is true, and surplus events are the work of lost answers.         *)
(***************************************************************************)
EXTENDS EventsDmlPromise, EventsDmlProofs, FiniteSetTheorems

\* A request is made for a row that has something to do, and one that writes asks
\* for what the row asks.
ReqOK ==
    \A c \in Conns :
        pc[c] \in {"sent", "replied"} =>
            /\ Consumed(ThisRow(c))
            /\ req[c].verb # "GET" => Promise!Asks(ThisRow(c), EffectOf(req[c]))

\* A statement that left a request behind has failed, and left no other.
LateOne ==
    /\ \A l \in late : l.nth = nth[l.conn] => pc[l.conn] = "failed"
    /\ \A l, m \in late : l.conn = m.conn /\ l.nth = m.nth => l = m

Inv == TypeOK /\ PrefixInv /\ ReqOK /\ LateOne

-----------------------------------------------------------------------------
\* What a request asks for is an effect.
LEMMA EffectType ==
    ASSUME NEW q \in Request
    PROVE  EffectOf(q) \in Promise!Effect
BY DEF Request, EffectOf, Promise!Effect, Body, Promise!Body

\* The requests of the sinks ask for what their rows ask.
LEMMA SinkAsks ==
    ASSUME TypeOK, NEW r \in Row, Consumed(r), NEW body \in Body
    PROVE  /\ r.op = "insert" =>
                 \A verb \in {"POST", "PUT"} :
                    Promise!Asks(r, EffectOf([verb |-> verb, id |-> r.id, body |-> r.vals]))
           /\ r.op = "update" =>
                 Promise!Asks(r, EffectOf([verb |-> "PUT", id |-> r.id, body |-> Applied(body, r)]))
           /\ r.op = "delete" =>
                 Promise!Asks(r, EffectOf([verb |-> "DELETE", id |-> r.id, body |-> NullBody]))
<1>1. /\ r.op \in Ops /\ r.id \in Ids \cup {NoId} /\ r.vals \in Body
      /\ r.cols \subseteq Fields \cup ReadOnly
  BY DEF Row
<1>2. Applied(body, r) \in Body /\ \A f \in r.cols \cap Fields : Applied(body, r)[f] = r.vals[f]
  BY <1>1, AppliedType DEF Applied
<1>3. NullBody \in Body
  BY NullBodyType
<1> HIDE DEF Applied, NullBody
<1>4. ASSUME NEW verb \in {"POST", "PUT", "DELETE"}, NEW b \in Body
      PROVE  /\ EffectOf([verb |-> verb, id |-> r.id, body |-> b]) \in Promise!Effect
             /\ EffectOf([verb |-> verb, id |-> r.id, body |-> b]).id = r.id
             /\ EffectOf([verb |-> verb, id |-> r.id, body |-> b]).body = b
             /\ EffectOf([verb |-> verb, id |-> r.id, body |-> b]).deletes <=> verb = "DELETE"
  BY <1>1 DEF EffectOf, Promise!Effect, Body, Promise!Body
<1> HIDE DEF EffectOf
<1>5. Promise!Consumed(r)
  BY DEF Consumed, Promise!Consumed
<1>6. ASSUME r.op = "insert", NEW verb \in {"POST", "PUT"}
      PROVE  Promise!Asks(r, EffectOf([verb |-> verb, id |-> r.id, body |-> r.vals]))
  BY <1>1, <1>4, <1>5, <1>6 DEF Promise!Asks
<1>7. ASSUME r.op = "update"
      PROVE  Promise!Asks(r, EffectOf([verb |-> "PUT", id |-> r.id, body |-> Applied(body, r)]))
  BY <1>1, <1>2, <1>4, <1>5, <1>7 DEF Promise!Asks
<1>8. ASSUME r.op = "delete"
      PROVE  Promise!Asks(r, EffectOf([verb |-> "DELETE", id |-> r.id, body |-> NullBody]))
  BY <1>1, <1>3, <1>4, <1>5, <1>8 DEF Promise!Asks
<1> QED BY <1>6, <1>7, <1>8

\* A request that the service carries out makes the event what the request asks.
LEMMA OutcomeBecomes ==
    ASSUME TypeOK, NEW q \in Request, NEW o \in Outcomes(q), NEW c \in Conns,
           NEW n \in Nat, NEW r \in Nat, NEW acked \in BOOLEAN,
           CarryOut(q, o, c, n, r, acked), o.wrote
    PROVE  /\ q.verb # "GET"
           /\ o.reply.id \in Ids \cup AutoIds /\ Promise!Becomes(o.reply.id, EffectOf(q))
           /\ \E i \in Ids \cup AutoIds : Promise!Becomes(i, EffectOf(q))
           /\ hit' = [hit EXCEPT ![c] = IF n = nth[c] THEN @ \cup {r} ELSE @]
<1> DEFINE i == o.reply.id
           Good(w, a) == o = [wrote |-> w, reply |-> a]
<1>1. /\ q.verb \in Verbs /\ q.body \in Body /\ q.id \in Ids \cup {NoId} /\ NoId \notin AllIds
      /\ Ids \subseteq AllIds /\ AutoIds \subseteq AllIds /\ store \in Store
  BY ConstantsAssumption DEF Request, AllIds, TypeOK
<1>2. o.reply.id \in AllIds
  BY <1>1, OutcomeFacts
<1>3. /\ store' = [store EXCEPT ![i] = [exists |-> TRUE, body |-> o.reply.body]]
      /\ hit' = [hit EXCEPT ![c] = IF n = nth[c] THEN @ \cup {r} ELSE @]
  BY DEF CarryOut
<1>4. /\ q.verb # "GET"
      /\ IF q.id = NoId THEN i \in AutoIds /\ ~store[i].exists ELSE i = q.id
      /\ q.verb = "DELETE" => store[i].exists
      /\ o.reply.body = IF q.verb = "DELETE" THEN [store[i].body EXCEPT ![Status] = Cancelled]
                                             ELSE q.body
  <2>1. CASE q.verb = "POST" /\ q.id = NoId
    <3>1. PICK j \in AutoIds : ~store[j].exists /\ Good(TRUE, Answer(200, j, q.body))
      BY <2>1 DEF Outcomes
    <3> QED BY <2>1, <3>1 DEF Answer
  <2>2. CASE q.verb = "POST" /\ q.id # NoId
    <3>1. Good(TRUE, Answer(200, q.id, q.body)) \/ Good(FALSE, Answer(409, q.id, q.body))
      BY <2>2 DEF Outcomes
    <3> QED BY <2>2, <3>1 DEF Answer
  <2>3. CASE q.verb # "POST" /\ (q.id = NoId \/ ~store[q.id].exists)
    <3>1. Good(FALSE, Answer(404, q.id, q.body))
      BY <2>3 DEF Outcomes
    <3> QED BY <3>1
  <2>4. CASE q.verb = "GET" /\ q.id # NoId /\ store[q.id].exists
    <3>1. Good(FALSE, Answer(200, q.id, store[q.id].body))
      BY <2>4 DEF Outcomes
    <3> QED BY <3>1
  <2>5. CASE q.verb = "PUT" /\ q.id # NoId /\ store[q.id].exists
    <3>1. Good(TRUE, Answer(200, q.id, q.body))
      BY <2>5 DEF Outcomes
    <3> QED BY <2>5, <3>1 DEF Answer
  <2>6. CASE q.verb = "DELETE" /\ q.id # NoId /\ store[q.id].exists
    <3> DEFINE b == [store[q.id].body EXCEPT ![Status] = Cancelled]
    <3>1. Good(TRUE, Answer(204, q.id, b)) \/ Good(FALSE, Answer(410, q.id, q.body))
      BY <2>6 DEF Outcomes
    <3> HIDE DEF b
    <3>2. o.reply.id = q.id /\ o.reply.body = b
      BY <3>1 DEF Answer
    <3> QED BY <2>6, <3>2 DEF b
  <2> QED BY <1>1, <2>1, <2>2, <2>3, <2>4, <2>5, <2>6 DEF Verbs
<1>5. i \in Ids \cup AutoIds
  BY <1>2 DEF AllIds
<1>6. EffectOf(q).id = q.id /\ EffectOf(q).body = q.body /\ (EffectOf(q).deletes <=> q.verb = "DELETE")
  BY DEF EffectOf
<1> HIDE DEF i, EffectOf
<1>7. Promise!Becomes(i, EffectOf(q))
  BY <1>3, <1>4, <1>6 DEF Promise!Becomes
<1> QED BY <1>3, <1>4, <1>5, <1>7 DEF i

-----------------------------------------------------------------------------
\* The refinement mapping.

Pcs == {"idle", "sink", "sent", "replied", "done", "failed"}

LEMMA PhaseValues ==
    /\ Phase("sink") = "running" /\ Phase("sent") = "running" /\ Phase("replied") = "running"
    /\ Phase("done") = "done" /\ Phase("failed") = "failed" /\ Phase("idle") = "ready"
BY DEF Phase

\* How a step of one connection shows in the mapping.
LEMMA PhaseMoves ==
    ASSUME TypeOK, NEW c \in Conns, NEW p \in Pcs, pc' = [pc EXCEPT ![c] = p]
    PROVE  PhaseOf' = [PhaseOf EXCEPT ![c] = Phase(p)]
BY DEF TypeOK, PhaseOf

LEMMA PhaseStays ==
    ASSUME TypeOK, NEW c \in Conns, NEW p \in {"sink", "sent", "replied"},
           pc' = [pc EXCEPT ![c] = p], pc[c] \in {"sink", "sent", "replied"}
    PROVE  PhaseOf' = PhaseOf
<1>1. PhaseOf' = [PhaseOf EXCEPT ![c] = Phase(p)]
  <2>1. p \in Pcs
    BY DEF Pcs
  <2> QED BY <2>1, PhaseMoves
<1>2. \A q \in {"sink", "sent", "replied"} : Phase(q) = "running"
  BY PhaseValues
<1>3. PhaseOf[c] = Phase(pc[c])
  BY DEF PhaseOf
<1>4. PhaseOf[c] = "running" /\ Phase(p) = "running"
  BY <1>2, <1>3
<1>5. PhaseOf = [PhaseOf EXCEPT ![c] = "running"]
  BY <1>4 DEF PhaseOf
<1> QED BY <1>1, <1>4, <1>5

\* A request the client gives up on is owed if it writes.
LEMMA OwedGrows ==
    ASSUME NEW l, late' = late \cup {l}
    PROVE  Owed' = IF l.req.verb = "GET" THEN Owed ELSE Owed \cup {OwedBy(l)}
BY DEF Owed

\* What was owed for a request that the service has dealt with no longer is.
LEMMA OwedShrinks ==
    ASSUME LateOne, NEW l \in late, late' = late \ {l}
    PROVE  Owed' = IF l.req.verb = "GET" THEN Owed ELSE Owed \ {OwedBy(l)}
<1>1. \A m \in late : OwedBy(m) = OwedBy(l) => m = l
  BY DEF LateOne, OwedBy
<1> QED BY <1>1 DEF Owed

-----------------------------------------------------------------------------
\* Steps.

Good == ReqOK /\ LateOne
Simulates == Promise!Next \/ UNCHANGED Promise!vars

\* A call of a resource method is no step of the statement.
LEMMA CallSimulates ==
    ASSUME Inv, NEW c \in Conns, NEW verb \in Verbs, NEW id, NEW body,
           Call(c, verb, id, body), pc[c] \in {"sink", "replied"},
           UNCHANGED <<store, late, hit, stmt, nth, row>>,
           Consumed(ThisRow(c)),
           verb # "GET" => Promise!Asks(ThisRow(c), EffectOf([verb |-> verb, id |-> id, body |-> body]))
    PROVE  Good' /\ Simulates
<1>1. /\ pc' = [pc EXCEPT ![c] = "sent"]
      /\ pc'[c] = "sent" /\ req'[c] = [verb |-> verb, id |-> id, body |-> body]
      /\ \A d \in Conns \ {c} : pc'[d] = pc[d] /\ req'[d] = req[d]
  BY DEF Call, Inv, TypeOK
<1>2. \A d \in Conns : ThisRow(d)' = ThisRow(d)
  BY DEF ThisRow
<1>3. ReqOK'
  BY <1>1, <1>2 DEF Inv, ReqOK
<1>4. LateOne'
  BY <1>1 DEF Inv, LateOne, TypeOK
<1>5. PhaseOf' = PhaseOf
  BY <1>1, PhaseStays DEF Inv
<1>6. StmtRows' = StmtRows /\ Owed' = Owed
  BY DEF StmtRows, Owed
<1>7. UNCHANGED Promise!vars
  BY <1>5, <1>6 DEF Promise!vars, Promise!statement
<1> QED BY <1>3, <1>4, <1>7 DEF Good, Simulates

\* Going on to the next row advances the statement.
LEMMA NextRowSimulates ==
    ASSUME Inv, NEW c \in Conns, NextRow(c), pc[c] \in {"sink", "replied"},
           row[c] \in DOMAIN stmt[c].rows,
           Consumed(ThisRow(c)) => row[c] \in hit[c],
           UNCHANGED <<store, late, hit, stmt, nth, req>>
    PROVE  Good' /\ Simulates
<1>1. /\ pc' = [pc EXCEPT ![c] = "sink"] /\ pc'[c] = "sink"
      /\ row' = [row EXCEPT ![c] = @ + 1]
      /\ \A d \in Conns \ {c} : pc'[d] = pc[d] /\ row'[d] = row[d]
  BY DEF NextRow, Inv, TypeOK
<1>2. \A d \in Conns \ {c} : ThisRow(d)' = ThisRow(d)
  BY <1>1 DEF ThisRow
<1>3. ReqOK'
  BY <1>1, <1>2 DEF Inv, ReqOK
<1>4. LateOne'
  BY <1>1 DEF Inv, LateOne, TypeOK
<1>5. PhaseOf' = PhaseOf /\ PhaseOf[c] = "running"
  BY <1>1, PhaseStays, PhaseValues DEF Inv, PhaseOf
<1>6. StmtRows' = StmtRows /\ Owed' = Owed /\ StmtRows[c] = stmt[c].rows
  BY DEF StmtRows, Owed
<1>7. Promise!Consumed(StmtRows[c][row[c]]) => row[c] \in hit[c]
  BY <1>6 DEF ThisRow, Consumed, Promise!Consumed
<1>8. Promise!Advance(c)
  BY <1>1, <1>5, <1>6, <1>7 DEF Promise!Advance
<1> QED BY <1>3, <1>4, <1>8 DEF Good, Simulates, Promise!Next

\* An exception, or the end of the rows, ends the statement.
LEMMA EndSimulates ==
    ASSUME Inv, NEW c \in Conns, NEW p \in {"done", "failed"},
           pc' = [pc EXCEPT ![c] = p], pc[c] \in {"sink", "sent", "replied"},
           p = "done" => row[c] \notin DOMAIN stmt[c].rows,
           UNCHANGED <<store, late, hit, stmt, nth, row, req>>
    PROVE  Good' /\ Simulates
<1>1. pc'[c] = p /\ \A d \in Conns \ {c} : pc'[d] = pc[d]
  BY DEF Inv, TypeOK
<1>2. \A d \in Conns \ {c} : ThisRow(d)' = ThisRow(d)
  BY DEF ThisRow
<1>3. ReqOK'
  BY <1>1, <1>2 DEF Inv, ReqOK
<1>4. LateOne'
  BY <1>1 DEF Inv, LateOne, TypeOK
<1>5. PhaseOf' = [PhaseOf EXCEPT ![c] = p]
  BY PhaseMoves, PhaseValues DEF Inv, Pcs
<1>6. PhaseOf[c] = "running"
  BY PhaseValues DEF PhaseOf
<1>7. StmtRows' = StmtRows /\ Owed' = Owed /\ StmtRows[c] = stmt[c].rows
  BY DEF StmtRows, Owed
<1>8. Promise!Succeed(c) \/ Promise!Fail(c)
  BY <1>5, <1>6, <1>7 DEF Promise!Succeed, Promise!Fail
<1> QED BY <1>3, <1>4, <1>8 DEF Good, Simulates, Promise!Next

\* A request that is carried out makes its row take effect, at once or late.
LEMMA EffectSimulates ==
    ASSUME Inv, NEW c \in Conns, pc[c] = "sent",
           NEW o \in Outcomes(req[c]), NEW acked \in BOOLEAN,
           CarryOut(req[c], o, c, nth[c], row[c], acked),
           PhaseOf' = PhaseOf, UNCHANGED <<late, stmt, nth, row>>
    PROVE  Simulates
<1>1. req[c] \in Request /\ nth[c] \in Nat /\ row[c] \in Nat
  BY DEF Inv, TypeOK
<1>2. StmtRows' = StmtRows /\ Owed' = Owed /\ StmtRows[c] = stmt[c].rows
  BY DEF StmtRows, Owed
<1>3. CASE o.wrote
  <2>1. /\ req[c].verb # "GET"
        /\ \E i \in Ids \cup AutoIds : Promise!Becomes(i, EffectOf(req[c]))
        /\ hit' = [hit EXCEPT ![c] = @ \cup {row[c]}]
    BY <1>1, <1>3, OutcomeBecomes DEF Inv
  <2>2. Promise!Asks(StmtRows[c][row[c]], EffectOf(req[c]))
    BY <1>2, <2>1 DEF Inv, ReqOK, ThisRow
  <2>3. PhaseOf[c] = "running" /\ row[c] \in DOMAIN StmtRows[c]
    BY <1>2, PhaseValues DEF PhaseOf, Inv, PrefixInv, BusyOK
  <2>4. EffectOf(req[c]) \in Promise!Effect
    BY <1>1, EffectType
  <2>5. Promise!TakeEffect(c)
    BY <1>2, <2>1, <2>2, <2>3, <2>4 DEF Promise!TakeEffect, Promise!statement
  <2> QED BY <2>5 DEF Simulates, Promise!Next
<1>4. CASE ~o.wrote
  <2>1. UNCHANGED <<store, hit>>
    BY <1>4 DEF CarryOut
  <2> QED BY <1>2, <2>1 DEF Simulates, Promise!vars, Promise!statement
<1> QED BY <1>3, <1>4

LEMMA StartSimulates ==
    ASSUME Inv, TypeOK', NEW c \in Conns, Start(c)
    PROVE  Good' /\ Simulates
<1>1. /\ pc[c] \in {"idle", "done", "failed"} /\ pc' = [pc EXCEPT ![c] = "sink"]
      /\ nth' = [nth EXCEPT ![c] = @ + 1] /\ row' = [row EXCEPT ![c] = 1]
      /\ hit' = [hit EXCEPT ![c] = {}]
      /\ UNCHANGED <<store, late, req>>
      /\ \A d \in Conns \ {c} : stmt'[d] = stmt[d]
  BY DEF Start, Inv, TypeOK
<1>2. /\ pc'[c] = "sink" /\ nth'[c] = nth[c] + 1 /\ nth[c] \in Nat
      /\ \A d \in Conns \ {c} : pc'[d] = pc[d] /\ nth'[d] = nth[d] /\ ThisRow(d)' = ThisRow(d)
  BY <1>1 DEF Inv, TypeOK, ThisRow
<1>3. ReqOK'
  BY <1>1, <1>2 DEF Inv, ReqOK
<1>4. LateOne'
  <2> SUFFICES ASSUME NEW l \in late, l.nth = nth'[l.conn] PROVE pc'[l.conn] = "failed"
    BY <1>1 DEF Inv, LateOne
  <2>1. l.conn \in Conns /\ l.nth \in Nat /\ l.nth <= nth[l.conn]
    BY DEF Inv, TypeOK, PrefixInv, LateOK
  <2>2. l.conn # c
    BY <1>2, <2>1
  <2> QED BY <1>2, <2>1, <2>2 DEF Inv, LateOne
<1>5. PhaseOf' = [PhaseOf EXCEPT ![c] = "running"] /\ PhaseOf[c] # "running"
  BY <1>1, PhaseMoves, PhaseValues DEF Inv, Pcs, PhaseOf
<1>6. /\ StmtRows' = [StmtRows EXCEPT ![c] = StmtRows'[c]]
      /\ StmtRows'[c] \in Seq(Promise!Row)
  <2>1. stmt' \in [Conns -> Statement]
    BY DEF TypeOK
  <2>2. StmtRows'[c] \in Seq(Row)
    BY <2>1 DEF StmtRows, Statement
  <2>3. Row = Promise!Row
    BY DEF Row, Ops, Body, Promise!Row, Promise!Body
  <2>4. StmtRows' = [StmtRows EXCEPT ![c] = StmtRows'[c]]
    BY <1>1 DEF StmtRows
  <2> QED BY <2>2, <2>3, <2>4
<1>7. Owed' = Owed
  BY <1>1 DEF Owed
<1>8. Promise!Begin(c)
  BY <1>1, <1>5, <1>6, <1>7 DEF Promise!Begin
<1> QED BY <1>3, <1>4, <1>8 DEF Good, Simulates, Promise!Next

LEMMA BrokenSimulates ==
    ASSUME Inv, NEW c \in Conns, Broken(c)
    PROVE  Good' /\ Simulates
<1> DEFINE l == [conn |-> c, nth |-> nth[c], row |-> row[c], req |-> req[c]]
<1>1. /\ pc[c] = "sent" /\ pc' = [pc EXCEPT ![c] = "failed"]
      /\ late' = late \/ late' = late \cup {l}
      /\ UNCHANGED <<store, hit, stmt, nth, row, req>>
  BY DEF Broken, sink
<1>2. CASE late' = late
  BY <1>1, <1>2, EndSimulates
<1>3. CASE late' = late \cup {l}
  <2>1. pc'[c] = "failed" /\ \A d \in Conns \ {c} : pc'[d] = pc[d] /\ ThisRow(d)' = ThisRow(d)
    BY <1>1 DEF Inv, TypeOK, ThisRow
  <2>2. ReqOK'
    BY <1>1, <2>1 DEF Inv, ReqOK
  <2>3. \A m \in late : m.conn = c => m.nth # nth[c]
    BY <1>1 DEF Inv, LateOne
  <2>4. LateOne'
    BY <1>1, <1>3, <2>1, <2>3 DEF Inv, LateOne, TypeOK
  <2>5. PhaseOf' = [PhaseOf EXCEPT ![c] = "failed"] /\ PhaseOf[c] = "running"
    BY <1>1, PhaseMoves, PhaseValues DEF Inv, Pcs, PhaseOf
  <2>6. StmtRows' = StmtRows /\ StmtRows[c] = stmt[c].rows
    BY <1>1 DEF StmtRows
  <2>7. Owed' = IF req[c].verb = "GET" THEN Owed ELSE Owed \cup {OwedBy(l)}
    BY <1>3, OwedGrows
  <2>8. OwedBy(l) = [conn |-> c, nth |-> nth[c], row |-> row[c], effect |-> EffectOf(req[c])]
    BY DEF OwedBy
  <2>9. EffectOf(req[c]) \in Promise!Effect
    BY EffectType DEF Inv, TypeOK
  <2>10. req[c].verb # "GET" => Promise!Asks(StmtRows[c][row[c]], EffectOf(req[c]))
    BY <1>1, <2>6 DEF Inv, ReqOK, ThisRow
  <2>11. Promise!Fail(c)
    BY <1>1, <2>5, <2>6, <2>7, <2>8, <2>9, <2>10 DEF Promise!Fail
  <2> QED BY <2>2, <2>4, <2>11 DEF Good, Simulates, Promise!Next
<1> QED BY <1>1, <1>2, <1>3

LEMMA LateSimulates ==
    ASSUME Inv, ServeLate
    PROVE  Good' /\ Simulates
<1>1. PICK l \in late :
        /\ late' = late \ {l}
        /\ \E o \in Outcomes(l.req) : CarryOut(l.req, o, l.conn, l.nth, l.row, FALSE)
        /\ UNCHANGED <<pc, sink, row, req, attempt, reply>>
  BY DEF ServeLate
<1>2. PICK o \in Outcomes(l.req) : CarryOut(l.req, o, l.conn, l.nth, l.row, FALSE)
  BY <1>1
<1>3. l.req \in Request /\ l.conn \in Conns /\ l.nth \in Nat /\ l.row \in Nat
  BY DEF Inv, TypeOK
<1>4. UNCHANGED <<pc, stmt, nth, row, req>>
  BY <1>1 DEF sink
<1>5. ReqOK'
  BY <1>4 DEF Inv, ReqOK, ThisRow
<1>6. LateOne'
  BY <1>1, <1>4 DEF Inv, LateOne
<1>7. PhaseOf' = PhaseOf /\ StmtRows' = StmtRows
  BY <1>4 DEF PhaseOf, StmtRows
<1>8. Owed' = IF l.req.verb = "GET" THEN Owed ELSE Owed \ {OwedBy(l)}
  BY <1>1, OwedShrinks DEF Inv
<1>9. Simulates
  <2>1. CASE l.req.verb = "GET"
    <3>1. ~o.wrote
      BY <1>2, <1>3, <2>1, OutcomeBecomes DEF Inv
    <3>2. UNCHANGED <<store, hit>>
      BY <1>2, <3>1 DEF CarryOut
    <3> QED BY <1>4, <1>7, <1>8, <2>1, <3>2 DEF Simulates, Promise!vars, Promise!statement
  <2>2. CASE l.req.verb # "GET"
    <3>1. OwedBy(l) \in Owed
      BY <2>2 DEF Owed
    <3>2. /\ OwedBy(l).effect = EffectOf(l.req) /\ OwedBy(l).conn = l.conn
          /\ OwedBy(l).nth = l.nth /\ OwedBy(l).row = l.row
      BY DEF OwedBy
    <3>3. Owed' = Owed \ {OwedBy(l)}
      BY <1>8, <2>2
    <3>4. UNCHANGED Promise!statement
      BY <1>4, <1>7 DEF Promise!statement
    <3>5. CASE o.wrote
      <4>1. /\ \E i \in Ids \cup AutoIds : Promise!Becomes(i, EffectOf(l.req))
            /\ hit' = [hit EXCEPT ![l.conn] = IF l.nth = nth[l.conn] THEN @ \cup {l.row} ELSE @]
        BY <1>2, <1>3, <3>5, OutcomeBecomes DEF Inv
      <4>2. hit' = IF l.nth = nth[l.conn] THEN [hit EXCEPT ![l.conn] = @ \cup {l.row}] ELSE hit
        BY <4>1 DEF Inv, TypeOK
      <4>3. Promise!Late(OwedBy(l))
        BY <3>2, <3>3, <3>4, <4>1, <4>2 DEF Promise!Late
      <4> QED BY <3>1, <4>3 DEF Simulates, Promise!Next
    <3>6. CASE ~o.wrote
      <4>1. UNCHANGED <<store, hit>>
        BY <1>2, <3>6 DEF CarryOut
      <4>2. Promise!Late(OwedBy(l))
        BY <3>3, <3>4, <4>1 DEF Promise!Late
      <4> QED BY <3>1, <4>2 DEF Simulates, Promise!Next
    <3> QED BY <3>5, <3>6
  <2> QED BY <2>1, <2>2
<1> QED BY <1>5, <1>6, <1>9 DEF Good

\* Every step of EventsDml is a step of StatementPromise or none.
LEMMA StepSimulates ==
    ASSUME Inv, TypeOK', Next
    PROVE  Good' /\ Simulates
<1>1. ASSUME NEW c \in Conns, Start(c) PROVE Good' /\ Simulates
  BY <1>1, StartSimulates
<1>2. ASSUME NEW c \in Conns, SinkInsert(c) \/ SinkUpdate(c) \/ SinkDelete(c)
      PROVE  Good' /\ Simulates
  <2>1. /\ pc[c] = "sink" /\ ThisRow(c) \in Row
        /\ UNCHANGED <<store, late, hit, stmt, nth, row>>
    BY <1>2, ThisRowType DEF SinkInsert, SinkUpdate, SinkDelete, InSink, service, sink, Inv
  <2>2. Consumed(ThisRow(c))
    BY <1>2 DEF SinkInsert, SinkUpdate, SinkDelete, InSink, Consumed
  <2>3. CASE SinkInsert(c)
    BY <2>1, <2>2, <2>3, SinkAsks, CallSimulates, NullBodyType DEF SinkInsert, InSink, Verbs, Inv
  <2>4. CASE SinkUpdate(c)
    BY <2>1, <2>2, <2>4, CallSimulates DEF SinkUpdate, Verbs
  <2>5. CASE SinkDelete(c)
    BY <2>1, <2>2, <2>5, SinkAsks, CallSimulates, NullBodyType DEF SinkDelete, InSink, Verbs, Inv
  <2> QED BY <1>2, <2>3, <2>4, <2>5
<1>3. ASSUME NEW c \in Conns, SkipNull(c) PROVE Good' /\ Simulates
  <2>1. ~Consumed(ThisRow(c)) /\ pc[c] = "sink" /\ row[c] \in DOMAIN stmt[c].rows
    BY <1>3 DEF SkipNull, InSink, Consumed
  <2> QED BY <1>3, <2>1, NextRowSimulates DEF SkipNull, service, sink
<1>4. ASSUME NEW c \in Conns, Finish(c) PROVE Good' /\ Simulates
  BY <1>4, EndSimulates DEF Finish, service, sink
<1>5. ASSUME NEW c \in Conns, Retry(c) PROVE Good' /\ Simulates
  <2>1. /\ pc[c] = "replied" /\ pc' = [pc EXCEPT ![c] = "sent"]
        /\ UNCHANGED <<store, late, hit, stmt, nth, row, req>>
    BY <1>5 DEF Retry, service, sink
  <2>2. pc'[c] = "sent" /\ \A d \in Conns \ {c} : pc'[d] = pc[d]
    BY <2>1 DEF Inv, TypeOK
  <2>3. Good'
    BY <2>1, <2>2 DEF Inv, Good, ReqOK, LateOne, ThisRow, TypeOK
  <2>4. PhaseOf' = PhaseOf
    BY <2>1, PhaseStays DEF Inv
  <2>5. StmtRows' = StmtRows /\ Owed' = Owed
    BY <2>1 DEF StmtRows, Owed
  <2> QED BY <2>1, <2>3, <2>4, <2>5 DEF Simulates, Promise!vars, Promise!statement
<1>6. ASSUME NEW c \in Conns, InsertReply(c) \/ UpdateReply(c) \/ DeleteReply(c)
      PROVE  Good' /\ Simulates
  <2>1. /\ pc[c] = "replied" /\ row[c] \in DOMAIN stmt[c].rows
        /\ ThisRow(c) \in Row /\ Consumed(ThisRow(c))
        /\ UNCHANGED <<store, late, hit, stmt, nth>>
    BY <1>6, ThisRowType
       DEF InsertReply, UpdateReply, DeleteReply, Handles, service, Inv, PrefixInv, BusyOK,
           ReqOK
  <2>2. ASSUME NextRow(c), UNCHANGED req, reply[c].status \in {200, 204}, req[c].verb # "GET"
        PROVE  Good' /\ Simulates
    BY <2>1, <2>2, NextRowSimulates DEF Inv, PrefixInv, AckedOK
  <2>3. ASSUME Fail(c) PROVE Good' /\ Simulates
    BY <2>1, <2>3, EndSimulates DEF Fail
  <2>4. CASE InsertReply(c)
    <3>1. ThisRow(c).op = "insert" /\ req[c].verb # "GET"
      BY <2>1, <2>4 DEF InsertReply, Handles, Inv, PrefixInv, BusyOK
    <3>2. ASSUME Call(c, "PUT", ThisRow(c).id, ThisRow(c).vals), UNCHANGED row
          PROVE  Good' /\ Simulates
      BY <2>1, <3>1, <3>2, SinkAsks, CallSimulates, NullBodyType DEF Verbs, Inv, Consumed
    <3> QED BY <2>2, <2>3, <2>4, <3>1, <3>2 DEF InsertReply, Done
  <2>5. CASE UpdateReply(c)
    <3>1. ThisRow(c).op = "update" /\ reply[c].body \in Body
      BY <2>5 DEF UpdateReply, Handles, Inv, TypeOK, Reply
    <3>2. ASSUME Call(c, "PUT", ThisRow(c).id, Applied(reply[c].body, ThisRow(c))), UNCHANGED row
          PROVE  Good' /\ Simulates
      BY <2>1, <3>1, <3>2, SinkAsks, CallSimulates DEF Verbs, Inv
    <3> QED BY <2>2, <2>3, <2>5, <3>2 DEF UpdateReply, Done
  <2>6. CASE DeleteReply(c)
    <3>1. ThisRow(c).op = "delete"
      BY <2>6 DEF DeleteReply, Handles
    <3>2. ASSUME Call(c, "DELETE", ThisRow(c).id, NullBody), UNCHANGED row
          PROVE  Good' /\ Simulates
      BY <2>1, <3>1, <3>2, SinkAsks, CallSimulates, NullBodyType DEF Verbs, Inv
    <3> QED BY <2>2, <2>3, <2>6, <3>2 DEF DeleteReply
  <2> QED BY <1>6, <2>4, <2>5, <2>6
<1>7. ASSUME NEW c \in Conns, Serve(c) PROVE Good' /\ Simulates
  <2>1. PICK o \in Outcomes(req[c]), acked \in BOOLEAN :
          CarryOut(req[c], o, c, nth[c], row[c], acked)
    BY <1>7 DEF Serve
  <2>2. /\ pc[c] = "sent" /\ pc' = [pc EXCEPT ![c] = "replied"]
        /\ UNCHANGED <<late, stmt, nth, row, req>>
    BY <1>7 DEF Serve
  <2>3. pc'[c] = "replied" /\ \A d \in Conns \ {c} : pc'[d] = pc[d]
    BY <2>2 DEF Inv, TypeOK
  <2>4. Good'
    BY <2>2, <2>3 DEF Inv, Good, ReqOK, LateOne, ThisRow, TypeOK
  <2>5. PhaseOf' = PhaseOf
    BY <2>2, PhaseStays DEF Inv
  <2> QED BY <2>1, <2>2, <2>4, <2>5, EffectSimulates
<1>8. ASSUME NEW c \in Conns, Refuse(c) PROVE Good' /\ Simulates
  <2>1. /\ pc[c] = "sent" /\ pc' = [pc EXCEPT ![c] = "replied"]
        /\ UNCHANGED <<store, late, hit, stmt, nth, row, req>>
    BY <1>8 DEF Refuse, service, sink
  <2>2. pc'[c] = "replied" /\ \A d \in Conns \ {c} : pc'[d] = pc[d]
    BY <2>1 DEF Inv, TypeOK
  <2>3. Good'
    BY <2>1, <2>2 DEF Inv, Good, ReqOK, LateOne, ThisRow, TypeOK
  <2>4. PhaseOf' = PhaseOf
    BY <2>1, PhaseStays DEF Inv
  <2>5. StmtRows' = StmtRows /\ Owed' = Owed
    BY <2>1 DEF StmtRows, Owed
  <2> QED BY <2>1, <2>3, <2>4, <2>5 DEF Simulates, Promise!vars, Promise!statement
<1>9. ASSUME NEW c \in Conns, Broken(c) PROVE Good' /\ Simulates
  BY <1>9, BrokenSimulates
<1>10. CASE ServeLate
  BY <1>10, LateSimulates
<1> QED BY <1>1, <1>2, <1>3, <1>4, <1>5, <1>6, <1>7, <1>8, <1>9, <1>10 DEF Next, Client, Exchange

-----------------------------------------------------------------------------
\* The two invariants of this module, on top of those of EventsDmlProofs.
LEMMA GoodStart == Init => Good
BY DEF Init, Good, ReqOK, LateOne

LEMMA GoodStep ==
    ASSUME Inv, TypeOK', [Next]_vars
    PROVE  Good' /\ Simulates
<1>1. CASE Next
  BY <1>1, StepSimulates
<1>2. CASE UNCHANGED vars
  <2>1. PhaseOf' = PhaseOf /\ StmtRows' = StmtRows /\ Owed' = Owed
    BY <1>2 DEF vars, PhaseOf, StmtRows, Owed
  <2>2. Good'
    BY <1>2 DEF vars, Good, Inv, ReqOK, LateOne, ThisRow
  <2> QED BY <1>2, <2>1, <2>2 DEF vars, Simulates, Promise!vars, Promise!statement
<1> QED BY <1>1, <1>2

LEMMA Always == Spec => []Inv
<1>1. TypeOK /\ TypeOK' /\ PrefixInv /\ Good /\ [Next]_vars => Good'
  BY GoodStep DEF Inv, Good
<1>2. TypeOK /\ PrefixInv /\ Good => Inv
  BY DEF Inv, Good
<1> QED BY <1>1, <1>2, GoodStart, Inductive, PTL DEF Spec

\* EventsDml implements StatementPromise: with any number of connections, and
\* whatever the service refuses, loses, repeats or is late with, a statement changes
\* the calendar row by row, each as asked, passes a row over only when it has taken
\* effect, and once it has failed has at most one more effect to come.
THEOREM Implements == Spec => KeepsPromise
<1>1. Init => Promise!Init
  <2> SUFFICES ASSUME Init PROVE Promise!Init
    OBVIOUS
  <2>1. store \in [Ids \cup AutoIds -> [exists : BOOLEAN, body : Promise!Body]]
    BY ConstantsAssumption DEF Init, Store, AllIds, Event, Body, Promise!Body
  <2>2. PhaseOf = [c \in Conns |-> "ready"]
    BY PhaseValues DEF Init, PhaseOf
  <2>3. StmtRows = [c \in Conns |-> << >>] /\ Owed = {}
    BY DEF Init, StmtRows, Owed
  <2> QED BY <2>1, <2>2, <2>3 DEF Init, Promise!Init
<1>2. Inv /\ TypeOK' /\ [Next]_vars => Simulates
  BY GoodStep
<1>3. Simulates => [Promise!Next]_(Promise!vars)
  BY DEF Simulates
<1> QED BY <1>1, <1>2, <1>3, Always, Inductive, PTL DEF Spec, KeepsPromise, Promise!Spec

-----------------------------------------------------------------------------
\* What a statement that succeeded has stored.

\* The last row of connection c's statement that names event i, of those that have
\* taken effect, is what the event holds.
LastWord(c, i) ==
    \E k \in DOMAIN stmt[c].rows :
        /\ stmt[c].rows[k].id = i
        /\ \A m \in DOMAIN stmt[c].rows : m > k /\ m \in hit[c] => stmt[c].rows[m].id # i
        /\ AsAsked(stmt[c].rows[k], store[i])

\* Connection c's statement was the last to change event i.
Wrote(c, i) == writer[i] = [conn |-> c, nth |-> nth[c]]

\* No change comes from a statement still to be started.
WriterOK == \A i \in AllIds : writer[i].conn \in Conns => writer[i].nth <= nth[writer[i].conn]

\* A statement that is done has no row left.
EndOK == \A c \in Conns : row[c] # 0 /\ (pc[c] = "done" => row[c] \notin DOMAIN stmt[c].rows)

WordOK == \A c \in Conns, i \in Ids : pc[c] # "failed" /\ Wrote(c, i) => LastWord(c, i)

StoredInv == WriterOK /\ EndOK /\ WordOK

\* Where the calendar, the rows and the histories stay, and no statement has come
\* back from failure, the last words stand.
LEMMA WordStands ==
    ASSUME WordOK, UNCHANGED <<store, hit, writer, nth, stmt>>,
           \A d \in Conns : pc'[d] # "failed" => pc[d] # "failed"
    PROVE  WordOK'
BY DEF WordOK, LastWord, Wrote

\* An event that has become what row r asks is as r asked.
LEMMA BecomesAsked ==
    ASSUME TypeOK, NEW r \in Row, NEW w, NEW i \in Ids,
           Promise!Asks(r, w), Promise!Becomes(i, w)
    PROVE  r.id = i /\ AsAsked(r, store'[i])
<1>1. Ids \cap AutoIds = {} /\ i \in AllIds /\ store \in Store /\ Status \in Fields
  BY ConstantsAssumption DEF AllIds, TypeOK
<1>2. w.id = i /\ r.id = i
  BY <1>1 DEF Promise!Becomes, Promise!Asks
<1> DEFINE b == IF w.deletes THEN [store[i].body EXCEPT ![Status] = Cancelled] ELSE w.body
<1>3. store'[i] = [exists |-> TRUE, body |-> b]
  BY <1>1 DEF Promise!Becomes, Store
<1>4. r.op \in Ops /\ (w.deletes <=> r.op = "delete")
  BY DEF Row, Promise!Asks
<1>5. CASE r.op = "delete"
  <2>1. b = [store[i].body EXCEPT ![Status] = Cancelled]
    BY <1>4, <1>5
  <2>2. store[i].body \in [Fields -> Vals]
    BY <1>1 DEF Store, Event, Body
  <2>3. b[Status] = Cancelled
    BY <1>1, <2>1, <2>2
  <2> HIDE DEF b
  <2> QED BY <1>2, <1>3, <1>5, <2>3 DEF AsAsked, Live
<1>6. CASE r.op = "insert"
  <2>1. b = r.vals
    BY <1>4, <1>6 DEF Promise!Asks
  <2> HIDE DEF b
  <2> QED BY <1>2, <1>3, <1>6, <2>1 DEF AsAsked
<1>7. CASE r.op = "update"
  <2>1. \A f \in r.cols \cap Fields : b[f] = r.vals[f]
    BY <1>4, <1>7 DEF Promise!Asks
  <2> HIDE DEF b
  <2> QED BY <1>2, <1>3, <1>7, <2>1 DEF AsAsked
<1> QED BY <1>4, <1>5, <1>6, <1>7 DEF Ops

\* A request that is carried out, for the row in the sink of a statement under way
\* or for a statement that has failed or is gone, leaves the last words true.
LEMMA WriteWord ==
    ASSUME Inv, StoredInv, NEW q \in Request, NEW o \in Outcomes(q), NEW c \in Conns,
           NEW n \in Nat, NEW r \in Nat, NEW acked \in BOOLEAN, CarryOut(q, o, c, n, r, acked),
           UNCHANGED <<stmt, nth>>,
           \A d \in Conns : pc'[d] # "failed" => pc[d] # "failed",
           n = nth[c] /\ pc[c] # "failed" =>
               /\ r = row[c] /\ r \in DOMAIN stmt[c].rows
               /\ q.verb # "GET" => Promise!Asks(stmt[c].rows[r], EffectOf(q))
    PROVE  WordOK'
<1>1. CASE ~o.wrote
  <2>1. UNCHANGED <<store, hit, writer>>
    BY <1>1 DEF CarryOut
  <2> QED BY <2>1, WordStands DEF StoredInv
<1>2. CASE o.wrote
  <2> DEFINE j == o.reply.id
  <2>1. /\ q.verb # "GET" /\ j \in AllIds /\ Promise!Becomes(j, EffectOf(q))
        /\ hit' = [hit EXCEPT ![c] = IF n = nth[c] THEN @ \cup {r} ELSE @]
    BY <1>2, OutcomeBecomes DEF Inv, AllIds
  <2>2. /\ writer' = [writer EXCEPT ![j] = [conn |-> c, nth |-> n]]
        /\ store' = [store EXCEPT ![j] = [exists |-> TRUE, body |-> o.reply.body]]
    BY <1>2 DEF CarryOut
  <2>3. /\ writer'[j] = [conn |-> c, nth |-> n]
        /\ \A i \in AllIds \ {j} : writer'[i] = writer[i] /\ store'[i] = store[i]
    BY <2>1, <2>2 DEF Inv, TypeOK, Store
  <2>4. /\ \A d \in Conns \ {c} : hit'[d] = hit[d]
        /\ hit'[c] = IF n = nth[c] THEN hit[c] \cup {r} ELSE hit[c]
    BY <2>1 DEF Inv, TypeOK
  <2> HIDE DEF j
  <2> SUFFICES ASSUME NEW d \in Conns, NEW i \in Ids, pc[d] # "failed", Wrote(d, i)'
               PROVE  LastWord(d, i)'
    BY DEF WordOK
  <2>5. i \in AllIds /\ NoId \notin Ids
    BY ConstantsAssumption DEF AllIds
  <2>6. CASE i = j
    <3>1. d = c /\ n = nth[c]
      BY <2>3, <2>6 DEF Wrote
    <3>2. r = row[c] /\ r \in DOMAIN stmt[c].rows /\ Promise!Asks(stmt[c].rows[r], EffectOf(q))
      BY <2>1, <3>1
    <3>3. stmt[c].rows[r] \in Row
      BY <3>2 DEF Inv, TypeOK, Statement
    <3>4. stmt[c].rows[r].id = i /\ AsAsked(stmt[c].rows[r], store'[i])
      BY <2>1, <2>6, <3>2, <3>3, BecomesAsked DEF Inv
    <3>5. \A m \in hit'[c] : m <= r
      BY <2>4, <3>1, <3>2 DEF Inv, PrefixInv, PrefixApplied
    <3>6. \A m \in DOMAIN stmt[c].rows : m > r => m \notin hit'[c]
      <4>1. DOMAIN stmt[c].rows \subseteq Nat
        BY DEF Inv, TypeOK, Statement
      <4> QED BY <3>5, <4>1
    <3> QED BY <3>1, <3>2, <3>4, <3>6 DEF LastWord
  <2>7. CASE i # j
    <3>1. Wrote(d, i)
      BY <2>3, <2>5, <2>7 DEF Wrote
    <3>2. PICK k \in DOMAIN stmt[d].rows :
             /\ stmt[d].rows[k].id = i
             /\ \A m \in DOMAIN stmt[d].rows : m > k /\ m \in hit[d] => stmt[d].rows[m].id # i
             /\ AsAsked(stmt[d].rows[k], store[i])
      BY <3>1 DEF StoredInv, WordOK, LastWord
    <3>3. d = c /\ n = nth[c] => stmt[c].rows[r].id # i
      <4> SUFFICES ASSUME d = c, n = nth[c] PROVE stmt[c].rows[r].id # i
        OBVIOUS
      <4>1. EffectOf(q).id = stmt[c].rows[r].id
        BY <2>1 DEF Promise!Asks
      <4>2. EffectOf(q).id = NoId \/ EffectOf(q).id = j
        BY <2>1 DEF Promise!Becomes
      <4> QED BY <2>5, <2>7, <4>1, <4>2
    <3>4. \A m \in DOMAIN stmt[d].rows : m > k /\ m \in hit'[d] => stmt[d].rows[m].id # i
      BY <2>4, <3>2, <3>3
    <3>5. store'[i] = store[i]
      BY <2>3, <2>5, <2>7
    <3> QED BY <3>2, <3>4, <3>5 DEF LastWord
  <2> QED BY <2>6, <2>7
<1> QED BY <1>1, <1>2, OutcomeFacts DEF Inv, TypeOK

\* A write comes from a statement that was started.
LEMMA WriteWriter ==
    ASSUME TypeOK, WriterOK, NEW q \in Request, NEW o \in Outcomes(q), NEW c \in Conns,
           NEW n \in Nat, NEW r \in Nat, NEW acked \in BOOLEAN, CarryOut(q, o, c, n, r, acked),
           n <= nth[c], nth' = nth
    PROVE  WriterOK'
<1>1. CASE o.wrote
  <2> DEFINE j == o.reply.id
  <2>1. writer' = [writer EXCEPT ![j] = [conn |-> c, nth |-> n]]
    BY <1>1 DEF CarryOut
  <2> HIDE DEF j
  <2>2. \A i \in AllIds : writer'[i] = writer[i] \/ writer'[i] = [conn |-> c, nth |-> n]
    BY <2>1 DEF TypeOK
  <2> SUFFICES ASSUME NEW i \in AllIds, writer'[i].conn \in Conns
               PROVE  writer'[i].nth <= nth[writer'[i].conn]
    BY DEF WriterOK
  <2>3. CASE writer'[i] = writer[i]
    BY <2>3 DEF WriterOK
  <2>4. CASE writer'[i] = [conn |-> c, nth |-> n]
    BY <2>4
  <2> QED BY <2>2, <2>3, <2>4
<1>2. CASE ~o.wrote
  BY <1>2 DEF CarryOut, WriterOK
<1> QED BY <1>1, <1>2

\* The actions of one connection that leave the calendar and the histories alone.
Quiet(c) ==
    \/ SinkInsert(c) \/ SinkUpdate(c) \/ SinkDelete(c) \/ SkipNull(c) \/ Finish(c)
    \/ Retry(c) \/ InsertReply(c) \/ UpdateReply(c) \/ DeleteReply(c)
    \/ Refuse(c) \/ Broken(c)

LEMMA QuietFacts ==
    ASSUME TypeOK, NEW c \in Conns, Quiet(c)
    PROVE  /\ UNCHANGED <<store, hit, writer, lost, stmt, nth>>
           /\ \A d \in Conns \ {c} : pc'[d] = pc[d] /\ row'[d] = row[d] /\ reply'[d] = reply[d]
           /\ row'[c] \in {row[c], row[c] + 1}
           /\ pc[c] \in {"sink", "sent", "replied"}
           /\ pc'[c] = "done" => row'[c] \notin DOMAIN stmt[c].rows
<1>1. CASE SinkInsert(c) \/ SinkUpdate(c) \/ SinkDelete(c)
  BY <1>1 DEF SinkInsert, SinkUpdate, SinkDelete, InSink, Call, TypeOK, service, sink
<1>2. CASE SkipNull(c)
  BY <1>2 DEF SkipNull, InSink, NextRow, TypeOK, service, sink
<1>3. CASE Finish(c) \/ Retry(c)
  BY <1>3 DEF Finish, Retry, TypeOK, service, sink
<1>4. CASE InsertReply(c) \/ UpdateReply(c) \/ DeleteReply(c)
  <2>1. UNCHANGED <<service, stmt, nth, reply>> /\ pc[c] = "replied"
    BY <1>4 DEF InsertReply, UpdateReply, DeleteReply, Handles
  <2>2. ASSUME NEW verb, NEW id, NEW body, Call(c, verb, id, body), UNCHANGED row
        PROVE  pc' = [pc EXCEPT ![c] = "sent"] /\ row' = row
    BY <2>2 DEF Call
  <2>3. ASSUME Fail(c) PROVE pc' = [pc EXCEPT ![c] = "failed"] /\ row' = row
    BY <2>3 DEF Fail
  <2>4. \/ pc' = [pc EXCEPT ![c] = "sent"] /\ row' = row
        \/ pc' = [pc EXCEPT ![c] = "failed"] /\ row' = row
        \/ NextRow(c)
    BY <1>4, <2>2, <2>3 DEF InsertReply, UpdateReply, DeleteReply, Done
  <2> QED BY <2>1, <2>4 DEF NextRow, TypeOK, service
<1>5. CASE Refuse(c) \/ Broken(c)
  BY <1>5 DEF Refuse, Broken, TypeOK, service, sink
<1> QED BY <1>1, <1>2, <1>3, <1>4, <1>5 DEF Quiet

\* Every step keeps the invariant.
LEMMA StoredStep ==
    ASSUME Inv, StoredInv, Next
    PROVE  StoredInv'
<1>1. ASSUME NEW c \in Conns, Start(c) PROVE StoredInv'
  <2>1. /\ pc'[c] = "sink" /\ row'[c] = 1 /\ nth'[c] = nth[c] + 1
        /\ UNCHANGED <<store, writer>>
        /\ \A d \in Conns \ {c} : /\ pc'[d] = pc[d] /\ row'[d] = row[d] /\ hit'[d] = hit[d]
                                  /\ nth'[d] = nth[d] /\ stmt'[d] = stmt[d]
    BY <1>1 DEF Start, Inv, TypeOK
  <2>2. \A d \in Conns : nth[d] \in Nat
    BY DEF Inv, TypeOK
  <2>3. \A i \in AllIds : writer[i].nth \in Nat
    BY DEF Inv, TypeOK
  <2>4. WriterOK'
    BY <2>1, <2>2, <2>3 DEF StoredInv, WriterOK
  <2>5. EndOK'
    BY <2>1 DEF StoredInv, EndOK
  <2>6. \A i \in AllIds : ~Wrote(c, i)'
    BY <2>1, <2>2, <2>3 DEF StoredInv, WriterOK, Wrote
  <2>7. WordOK'
    <3> SUFFICES ASSUME NEW d \in Conns, NEW i \in Ids, pc'[d] # "failed", Wrote(d, i)'
                 PROVE  LastWord(d, i)'
      BY DEF WordOK
    <3>1. d # c
      BY <2>6 DEF AllIds
    <3>2. LastWord(d, i)
      BY <2>1, <3>1 DEF StoredInv, WordOK, Wrote
    <3> QED BY <2>1, <3>1, <3>2 DEF LastWord
  <2> QED BY <2>4, <2>5, <2>7 DEF StoredInv
<1>2. ASSUME NEW c \in Conns, Quiet(c) PROVE StoredInv'
  <2>1. /\ UNCHANGED <<store, hit, writer, lost, stmt, nth>>
        /\ \A d \in Conns \ {c} : pc'[d] = pc[d] /\ row'[d] = row[d]
        /\ row'[c] \in {row[c], row[c] + 1}
        /\ pc[c] \in {"sink", "sent", "replied"}
        /\ pc'[c] = "done" => row'[c] \notin DOMAIN stmt[c].rows
    BY <1>2, QuietFacts DEF Inv
  <2>2. WriterOK'
    BY <2>1 DEF StoredInv, WriterOK
  <2>3. row[c] \in Nat
    BY DEF Inv, TypeOK
  <2>4. EndOK'
    BY <2>1, <2>3 DEF StoredInv, EndOK
  <2>5. WordOK'
    BY <2>1, WordStands DEF StoredInv
  <2> QED BY <2>2, <2>4, <2>5 DEF StoredInv
<1>3. ASSUME NEW c \in Conns, Serve(c) PROVE StoredInv'
  <2>1. PICK o \in Outcomes(req[c]), acked \in BOOLEAN :
          CarryOut(req[c], o, c, nth[c], row[c], acked)
    BY <1>3 DEF Serve
  <2>2. /\ pc[c] = "sent" /\ pc'[c] = "replied" /\ UNCHANGED <<stmt, nth, row>>
        /\ \A d \in Conns \ {c} : pc'[d] = pc[d]
    BY <1>3 DEF Serve, Inv, TypeOK
  <2>3. req[c] \in Request /\ nth[c] \in Nat /\ row[c] \in Nat
    BY DEF Inv, TypeOK
  <2>4. /\ row[c] \in DOMAIN stmt[c].rows
        /\ req[c].verb # "GET" => Promise!Asks(stmt[c].rows[row[c]], EffectOf(req[c]))
    BY <2>2 DEF Inv, PrefixInv, BusyOK, ReqOK, ThisRow
  <2>5. WordOK'
    BY <2>1, <2>2, <2>3, <2>4, WriteWord
  <2>6. EndOK'
    BY <2>2 DEF StoredInv, EndOK
  <2>7. WriterOK'
    BY <2>1, <2>2, <2>3, WriteWriter DEF StoredInv, Inv
  <2> QED BY <2>5, <2>6, <2>7 DEF StoredInv
<1>4. CASE ServeLate
  <2>1. PICK l \in late :
          /\ \E o \in Outcomes(l.req) : CarryOut(l.req, o, l.conn, l.nth, l.row, FALSE)
          /\ UNCHANGED <<pc, stmt, nth, row>>
    BY <1>4 DEF ServeLate, sink
  <2>2. PICK o \in Outcomes(l.req) : CarryOut(l.req, o, l.conn, l.nth, l.row, FALSE)
    BY <2>1
  <2>3. l.req \in Request /\ l.conn \in Conns /\ l.nth \in Nat /\ l.row \in Nat
    BY DEF Inv, TypeOK
  <2>4. l.nth <= nth[l.conn] /\ (l.nth = nth[l.conn] => pc[l.conn] = "failed")
    BY DEF Inv, PrefixInv, LateOK, LateOne
  <2>5. WordOK'
    BY <2>1, <2>2, <2>3, <2>4, WriteWord
  <2>6. EndOK'
    BY <2>1 DEF StoredInv, EndOK
  <2>7. WriterOK'
    BY <2>1, <2>2, <2>3, <2>4, WriteWriter DEF StoredInv, Inv
  <2> QED BY <2>5, <2>6, <2>7 DEF StoredInv
<1> QED BY <1>1, <1>2, <1>3, <1>4 DEF Next, Client, Exchange, Quiet

LEMMA StoredAlways == Spec => []StoredInv
<1>1. Init => StoredInv
  BY ConstantsAssumption DEF Init, StoredInv, WriterOK, EndOK, WordOK, Wrote, AllIds
<1>2. Inv /\ StoredInv /\ [Next]_vars => StoredInv'
  <2> SUFFICES ASSUME Inv, StoredInv, [Next]_vars PROVE StoredInv'
    OBVIOUS
  <2>1. CASE UNCHANGED vars
    BY <2>1 DEF vars, StoredInv, WriterOK, EndOK, WordOK, Wrote, LastWord
  <2> QED BY <2>1, StoredStep
<1> QED BY <1>1, <1>2, Always, PTL DEF Spec

\* A statement that succeeded took effect, with any number of connections at work:
\* an event that nobody has changed since is as the statement's last row for it
\* asked.
THEOREM SuccessIsStored == Spec => []DoneMeansStored
<1>1. Inv /\ StoredInv => DoneMeansStored
  <2> SUFFICES ASSUME Inv, StoredInv, NEW c \in Conns, NEW i \in Ids,
                      pc[c] = "done", writer[i] = [conn |-> c, nth |-> nth[c]]
               PROVE  \E k \in DOMAIN stmt[c].rows :
                        /\ stmt[c].rows[k].id = i
                        /\ \A m \in DOMAIN stmt[c].rows : m > k => stmt[c].rows[m].id # i
                        /\ AsAsked(stmt[c].rows[k], store[i])
    BY DEF DoneMeansStored
  <2>1. PICK k \in DOMAIN stmt[c].rows :
           /\ stmt[c].rows[k].id = i
           /\ \A m \in DOMAIN stmt[c].rows : m > k /\ m \in hit[c] => stmt[c].rows[m].id # i
           /\ AsAsked(stmt[c].rows[k], store[i])
    BY DEF StoredInv, WordOK, Wrote, LastWord
  <2>2. stmt[c].rows \in Seq(Row) /\ row[c] \in Nat /\ row[c] # 0 /\ row[c] \notin DOMAIN stmt[c].rows
    BY DEF Inv, TypeOK, Statement, StoredInv, EndOK
  <2>3. \A m \in DOMAIN stmt[c].rows : m \in 1 .. row[c] - 1
    <3> DEFINE n == Len(stmt[c].rows)
    <3>1. n \in Nat /\ DOMAIN stmt[c].rows = 1 .. n
      BY <2>2
    <3> HIDE DEF n
    <3> QED BY <2>2, <3>1
  <2>4. ASSUME NEW m \in DOMAIN stmt[c].rows, stmt[c].rows[m].id = i PROVE m \in hit[c]
    <3>1. Consumed(stmt[c].rows[m])
      BY <2>4, ConstantsAssumption DEF Consumed, AllIds
    <3> QED BY <2>3, <3>1 DEF Inv, PrefixInv, PrefixApplied
  <2> QED BY <2>1, <2>4
<1> QED BY <1>1, Always, StoredAlways, PTL

-----------------------------------------------------------------------------
\* Surplus events.

\* The events under an id of the service's choice that c's statement has made.
Made(c) == {i \in AutoIds : store[i].exists /\ Wrote(c, i)}

\* Its rows without an id for which the client has had its answer.
Settled(c) ==
    {k \in hit[c] : /\ stmt[c].rows[k].id = NoId
                    /\ k < row[c] \/ (pc[c] = "replied" /\ reply[c].status = 200)}

SettledFinite == \A c \in Conns : IsFiniteSet(Settled(c))

\* The answer settles a row once: every event made beyond those was lost sight of.
SurplusInv ==
    \A c \in Conns : IsFiniteSet(Made(c)) /\ Cardinality(Made(c)) <= lost + Cardinality(Settled(c))

LEMMA SettledIsFinite == Inv => SettledFinite
<1> SUFFICES ASSUME Inv, NEW c \in Conns PROVE IsFiniteSet(Settled(c))
  BY DEF SettledFinite
<1>1. hit[c] \in SUBSET Nat /\ row[c] \in Nat /\ \A k \in hit[c] : k <= row[c]
  BY DEF Inv, TypeOK, PrefixInv, PrefixApplied
<1>2. IsFiniteSet(hit[c])
  BY <1>1, FS_BoundedSetOfNaturals
<1>3. Settled(c) \in SUBSET hit[c]
  BY DEF Settled
<1> QED BY <1>2, <1>3, FS_Subset

\* A bound on a set's size moves with the set and with what bounds it.
LEMMA BoundMoves ==
    ASSUME NEW A, NEW A2, NEW B, NEW B2, NEW n \in Nat, NEW n2 \in Nat,
           IsFiniteSet(A), IsFiniteSet(B2), B \subseteq B2,
           Cardinality(A) <= n + Cardinality(B),
           \/ A2 \subseteq A /\ n <= n2
           \/ n < n2 /\ \E j : A2 \subseteq A \cup {j}
           \/ n <= n2 /\ (\E j : A2 \subseteq A \cup {j}) /\ (\E k \in B2 : k \notin B)
    PROVE  IsFiniteSet(A2) /\ Cardinality(A2) <= n2 + Cardinality(B2)
<1>1. /\ IsFiniteSet(B) /\ Cardinality(B) \in Nat /\ Cardinality(B2) \in Nat
      /\ Cardinality(B) <= Cardinality(B2) /\ Cardinality(A) \in Nat
  <2>1. B \in SUBSET B2
    OBVIOUS
  <2> QED BY <2>1, FS_Subset, FS_CardinalityType
<1>2. ASSUME A2 \subseteq A PROVE IsFiniteSet(A2) /\ Cardinality(A2) <= Cardinality(A)
  <2>1. A2 \in SUBSET A
    BY <1>2
  <2> QED BY <2>1, FS_Subset
<1>3. ASSUME NEW j, A2 \subseteq A \cup {j}
      PROVE  IsFiniteSet(A2) /\ Cardinality(A2) <= Cardinality(A) + 1
  <2>1. A2 \in SUBSET (A \cup {j})
    BY <1>3
  <2>2. IsFiniteSet(A \cup {j}) /\ Cardinality(A \cup {j}) <= Cardinality(A) + 1
    <3>1. /\ IsFiniteSet(A \cup {j})
          /\ Cardinality(A \cup {j}) = IF j \in A THEN Cardinality(A) ELSE Cardinality(A) + 1
      BY FS_AddElement
    <3> QED BY <1>1, <3>1
  <2>3. IsFiniteSet(A2) /\ Cardinality(A2) <= Cardinality(A \cup {j})
    BY <2>1, <2>2, FS_Subset
  <2> QED BY <1>1, <2>2, <2>3, FS_CardinalityType
<1>4. ASSUME NEW k \in B2, k \notin B PROVE Cardinality(B) + 1 <= Cardinality(B2)
  <2>1. B \cup {k} \in SUBSET B2
    BY <1>4
  <2>2. Cardinality(B \cup {k}) = Cardinality(B) + 1
    BY <1>1, <1>4, FS_AddElement
  <2>3. Cardinality(B \cup {k}) <= Cardinality(B2)
    BY <2>1, FS_Subset
  <2> QED BY <2>2, <2>3
<1>5. IsFiniteSet(A2)
  BY <1>2, <1>3
<1>6. Cardinality(A2) \in Nat
  BY <1>5, FS_CardinalityType
<1> QED BY <1>1, <1>2, <1>3, <1>4, <1>5, <1>6

\* The row of an INSERT without an id is left when its answer is good.
LEMMA QuietSettles ==
    ASSUME Inv, NEW c \in Conns, Quiet(c), pc[c] = "replied", reply[c].status = 200,
           ThisRow(c).id = NoId
    PROVE  row'[c] = row[c] + 1
<1>1. ThisRow(c).op = "insert"
  BY DEF Inv, ReqOK, Consumed
<1>2. Returns(c)
  BY DEF Returns, IsRetryable
<1>3. InsertReply(c)
  BY <1>1, <1>2 DEF Quiet, SinkInsert, SinkUpdate, SinkDelete, SkipNull, InSink, Finish, Retry,
                    UpdateReply, DeleteReply, Handles, Refuse, Broken
<1>4. NextRow(c)
  BY <1>3 DEF InsertReply, Upserts, Done
<1> QED BY <1>4 DEF NextRow, Inv, TypeOK

\* An id of the service's choice is written by a POST without an id only, and then
\* the answer is good.
LEMMA AutoWrite ==
    ASSUME TypeOK, NEW q \in Request, NEW o \in Outcomes(q), NEW c \in Conns,
           NEW n \in Nat, NEW r \in Nat, NEW acked \in BOOLEAN,
           CarryOut(q, o, c, n, r, acked), o.wrote, o.reply.id \in AutoIds
    PROVE  q.id = NoId /\ o.reply.status = 200
<1>1. /\ q.verb \in Verbs /\ q.id \in Ids \cup {NoId} /\ NoId \notin AutoIds /\ Ids \cap AutoIds = {}
  BY ConstantsAssumption DEF Request, AllIds
<1>2. Promise!Becomes(o.reply.id, EffectOf(q))
  BY OutcomeBecomes
<1>3. q.id = NoId
  BY <1>1, <1>2 DEF Promise!Becomes, EffectOf
<1>4. CASE q.verb = "POST"
  BY <1>3, <1>4 DEF Outcomes, Answer
<1>5. CASE q.verb # "POST"
  BY <1>3, <1>5 DEF Outcomes, Answer
<1> QED BY <1>3, <1>4, <1>5

\* Carrying out a request: what the statements have made grows by one event at most,
\* that of connection c, and only if the answer is good or is not told.
LEMMA WriteMade ==
    ASSUME TypeOK, NEW q \in Request, NEW o \in Outcomes(q), NEW c \in Conns,
           NEW n \in Nat, NEW r \in Nat, NEW acked \in BOOLEAN,
           CarryOut(q, o, c, n, r, acked), nth' = nth
    PROVE  /\ lost' \in Nat /\ lost <= lost'
           /\ \A d \in Conns \ {c} : Made(d)' \subseteq Made(d)
           /\ \/ Made(c)' \subseteq Made(c)
              \/ /\ \E j : Made(c)' \subseteq Made(c) \cup {j}
                 /\ o.wrote /\ q.id = NoId /\ o.reply.status = 200
                 /\ acked \/ lost < lost'
<1>1. CASE ~o.wrote
  BY <1>1 DEF CarryOut, Made, Wrote, TypeOK
<1>2. CASE o.wrote
  <2> DEFINE j == o.reply.id
  <2>1. j \in AllIds /\ lost \in Nat
    BY <1>2, OutcomeFacts DEF TypeOK
  <2>2. /\ writer' = [writer EXCEPT ![j] = [conn |-> c, nth |-> n]]
        /\ store' = [store EXCEPT ![j] = [exists |-> TRUE, body |-> o.reply.body]]
        /\ lost' = IF q.id = NoId /\ ~acked THEN lost + 1 ELSE lost
    BY <1>2 DEF CarryOut
  <2>3. j \in AutoIds => q.id = NoId /\ o.reply.status = 200
    BY <1>2, AutoWrite
  <2>4. writer'[j].conn = c /\ \A i \in AllIds \ {j} : writer'[i] = writer[i] /\ store'[i] = store[i]
    BY <2>1, <2>2 DEF TypeOK, Store
  <2> HIDE DEF j
  <2>5. AutoIds \subseteq AllIds
    BY DEF AllIds
  <2>6. \A d \in Conns \ {c} : Made(d)' \subseteq Made(d)
    BY <2>4, <2>5 DEF Made, Wrote
  <2>7. Made(c)' \subseteq Made(c) \cup {j}
    BY <2>4, <2>5 DEF Made, Wrote
  <2>8. CASE j \notin AutoIds
    BY <2>1, <2>2, <2>6, <2>7, <2>8 DEF Made
  <2>9. CASE j \in AutoIds
    BY <1>2, <2>1, <2>2, <2>3, <2>6, <2>7, <2>9
  <2> QED BY <2>8, <2>9
<1> QED BY <1>1, <1>2, OutcomeFacts DEF TypeOK

\* Every step keeps the invariant.
LEMMA SurplusStep ==
    ASSUME Inv, StoredInv, SurplusInv, SettledFinite', Next
    PROVE  SurplusInv'
<1>0. /\ lost \in Nat
      /\ \A d \in Conns : /\ IsFiniteSet(Made(d)) /\ IsFiniteSet(Settled(d)')
                          /\ Cardinality(Made(d)) <= lost + Cardinality(Settled(d))
  BY DEF Inv, TypeOK, SurplusInv, SettledFinite
<1> SUFFICES ASSUME NEW d \in Conns
             PROVE  IsFiniteSet(Made(d)') /\ Cardinality(Made(d)') <= lost' + Cardinality(Settled(d)')
  BY DEF SurplusInv
<1> DEFINE Kept == Settled(d) \subseteq Settled(d)'
<1>1. ASSUME Kept, lost' \in Nat,
             \/ Made(d)' \subseteq Made(d) /\ lost <= lost'
             \/ lost < lost' /\ \E j : Made(d)' \subseteq Made(d) \cup {j}
             \/ /\ lost <= lost' /\ \E j : Made(d)' \subseteq Made(d) \cup {j}
                /\ \E k \in Settled(d)' : k \notin Settled(d)
      PROVE  IsFiniteSet(Made(d)') /\ Cardinality(Made(d)') <= lost' + Cardinality(Settled(d)')
  BY <1>0, <1>1, BoundMoves
<1>2. ASSUME NEW c \in Conns, Start(c)
      PROVE  IsFiniteSet(Made(d)') /\ Cardinality(Made(d)') <= lost' + Cardinality(Settled(d)')
  <2>1. /\ nth'[c] = nth[c] + 1 /\ UNCHANGED <<store, writer, lost, reply>>
        /\ \A e \in Conns \ {c} : /\ pc'[e] = pc[e] /\ row'[e] = row[e] /\ hit'[e] = hit[e]
                                  /\ nth'[e] = nth[e] /\ stmt'[e] = stmt[e]
    BY <1>2 DEF Start, Inv, TypeOK
  <2>2. CASE d # c
    <3>1. Made(d)' = Made(d) /\ Settled(d)' = Settled(d)
      BY <2>1, <2>2 DEF Made, Wrote, Settled
    <3> QED BY <1>0, <1>1, <2>1, <3>1
  <2>3. CASE d = c
    <3>1. \A i \in AllIds : ~Wrote(c, i)'
      <4>1. nth[c] \in Nat /\ \A i \in AllIds : writer[i].nth \in Nat
        BY DEF Inv, TypeOK
      <4> QED BY <2>1, <4>1 DEF StoredInv, WriterOK, Wrote
    <3>2. Made(d)' = {}
      BY <2>3, <3>1 DEF Made, AllIds
    <3>3. Cardinality(Settled(d)') \in Nat
      BY <1>0, FS_CardinalityType
    <3> QED BY <1>0, <2>1, <3>2, <3>3, FS_EmptySet
  <2> QED BY <2>2, <2>3
<1>3. ASSUME NEW c \in Conns, Quiet(c)
      PROVE  IsFiniteSet(Made(d)') /\ Cardinality(Made(d)') <= lost' + Cardinality(Settled(d)')
  <2>1. /\ UNCHANGED <<store, hit, writer, lost, stmt, nth>>
        /\ \A e \in Conns \ {c} : pc'[e] = pc[e] /\ row'[e] = row[e] /\ reply'[e] = reply[e]
        /\ row'[c] \in {row[c], row[c] + 1} /\ row[c] \in Nat
    BY <1>3, QuietFacts DEF Inv, TypeOK
  <2>2. Made(d)' = Made(d)
    BY <2>1 DEF Made, Wrote
  <2>3. Kept
    <3>1. CASE d # c
      BY <2>1, <3>1 DEF Settled
    <3>2. CASE d = c
      <4> SUFFICES ASSUME NEW k \in Settled(c) PROVE k < row'[c]
        BY <2>1, <3>2 DEF Settled
      <4>1. k \in Nat /\ k <= row[c] /\ stmt[c].rows[k].id = NoId
        BY DEF Settled, Inv, TypeOK, PrefixInv, PrefixApplied
      <4>2. CASE k < row[c]
        BY <2>1, <4>1, <4>2
      <4>3. CASE ~(k < row[c])
        <5>1. k = row[c]
          BY <2>1, <4>1, <4>3
        <5>2. pc[c] = "replied" /\ reply[c].status = 200 /\ ThisRow(c).id = NoId
          BY <4>1, <4>3, <5>1 DEF Settled, ThisRow
        <5> QED BY <1>3, <2>1, <5>1, <5>2, QuietSettles
      <4> QED BY <4>2, <4>3
    <3> QED BY <3>1, <3>2
  <2> QED BY <1>0, <1>1, <2>1, <2>2, <2>3
<1>4. ASSUME NEW c \in Conns, Serve(c)
      PROVE  IsFiniteSet(Made(d)') /\ Cardinality(Made(d)') <= lost' + Cardinality(Settled(d)')
  <2>1. PICK o \in Outcomes(req[c]), acked \in BOOLEAN :
          /\ CarryOut(req[c], o, c, nth[c], row[c], acked)
          /\ reply' = [reply EXCEPT ![c] = IF acked THEN o.reply ELSE Answer(503, NoId, NullBody)]
    BY <1>4 DEF Serve
  <2>2. /\ pc[c] = "sent" /\ pc'[c] = "replied" /\ UNCHANGED <<stmt, nth, row>>
        /\ \A e \in Conns \ {c} : pc'[e] = pc[e] /\ reply'[e] = reply[e]
        /\ acked => reply'[c] = o.reply
    BY <1>4, <2>1 DEF Serve, Inv, TypeOK
  <2>3. req[c] \in Request /\ nth[c] \in Nat /\ row[c] \in Nat
    BY DEF Inv, TypeOK
  <2>4. /\ \A e \in Conns : hit[e] \subseteq hit'[e]
        /\ o.wrote => row[c] \in hit'[c]
    BY <2>1, <2>3, CarryOutHit DEF CarryOut, Inv
  <2>5. Kept
    BY <2>2, <2>4 DEF Settled
  <2>6. /\ lost' \in Nat /\ lost <= lost'
        /\ \A e \in Conns \ {c} : Made(e)' \subseteq Made(e)
        /\ \/ Made(c)' \subseteq Made(c)
           \/ /\ \E j : Made(c)' \subseteq Made(c) \cup {j}
              /\ o.wrote /\ req[c].id = NoId /\ o.reply.status = 200
              /\ acked \/ lost < lost'
    <3>1. TypeOK /\ nth' = nth
      BY <2>2 DEF Inv
    <3>2. PICK q \in Request, n \in Nat, r \in Nat : q = req[c] /\ n = nth[c] /\ r = row[c]
      BY <2>3
    <3>3. o \in Outcomes(q) /\ CarryOut(q, o, c, n, r, acked)
      BY <2>1, <3>2
    <3>4. /\ lost' \in Nat /\ lost <= lost'
          /\ \A e \in Conns \ {c} : Made(e)' \subseteq Made(e)
          /\ \/ Made(c)' \subseteq Made(c)
             \/ /\ \E j : Made(c)' \subseteq Made(c) \cup {j}
                /\ o.wrote /\ q.id = NoId /\ o.reply.status = 200
                /\ acked \/ lost < lost'
      BY <3>1, <3>3, WriteMade
    <3> QED BY <3>2, <3>4
  <2>7. CASE Made(d)' \subseteq Made(d)
    BY <1>1, <2>5, <2>6, <2>7
  <2>8. CASE ~(Made(d)' \subseteq Made(d))
    <3>1. /\ d = c /\ \E j : Made(c)' \subseteq Made(c) \cup {j}
          /\ o.wrote /\ req[c].id = NoId /\ o.reply.status = 200
          /\ acked \/ lost < lost'
      BY <2>6, <2>8
    <3>2. CASE ~acked
      BY <1>1, <2>5, <2>6, <3>1, <3>2
    <3>3. CASE acked
      <4>1. req[c].verb # "GET"
        BY <2>1, <2>3, <3>1, OutcomeBecomes DEF Inv
      <4>2. stmt[c].rows[row[c]].id = NoId
        BY <2>2, <3>1, <4>1 DEF Inv, ReqOK, ThisRow, Promise!Asks, EffectOf
      <4>3. row[c] \in Settled(c)'
        BY <2>2, <2>4, <3>1, <3>3, <4>2 DEF Settled
      <4>4. row[c] \notin Settled(c)
        BY <2>2, <2>3 DEF Settled
      <4> QED BY <1>1, <2>5, <2>6, <3>1, <4>3, <4>4
    <3> QED BY <3>2, <3>3
  <2> QED BY <2>7, <2>8
<1>5. CASE ServeLate
  <2>1. PICK l \in late :
          /\ \E o \in Outcomes(l.req) : CarryOut(l.req, o, l.conn, l.nth, l.row, FALSE)
          /\ UNCHANGED <<pc, stmt, nth, row, reply>>
    BY <1>5 DEF ServeLate, sink
  <2>2. PICK o \in Outcomes(l.req) : CarryOut(l.req, o, l.conn, l.nth, l.row, FALSE)
    BY <2>1
  <2>3. l.req \in Request /\ l.conn \in Conns /\ l.nth \in Nat /\ l.row \in Nat
    BY DEF Inv, TypeOK
  <2>4. \A e \in Conns : hit[e] \subseteq hit'[e]
    BY <2>2, <2>3, CarryOutHit DEF CarryOut, Inv
  <2>5. Kept
    BY <2>1, <2>4 DEF Settled
  <2>6. /\ lost' \in Nat /\ lost <= lost'
        /\ \/ Made(d)' \subseteq Made(d)
           \/ lost < lost' /\ \E j : Made(d)' \subseteq Made(d) \cup {j}
    <3>1. PICK c \in Conns : c = l.conn
      BY <2>3
    <3>2. PICK acked \in BOOLEAN : ~acked /\ CarryOut(l.req, o, c, l.nth, l.row, acked)
      BY <2>2, <3>1
    <3>3. /\ lost' \in Nat /\ lost <= lost'
          /\ \A e \in Conns \ {c} : Made(e)' \subseteq Made(e)
          /\ \/ Made(c)' \subseteq Made(c)
             \/ /\ \E j : Made(c)' \subseteq Made(c) \cup {j}
                /\ o.wrote /\ l.req.id = NoId /\ o.reply.status = 200
                /\ acked \/ lost < lost'
      <4>1. TypeOK /\ nth' = nth
        BY <2>1 DEF Inv
      <4>2. PICK q \in Request, n \in Nat, r \in Nat :
               q = l.req /\ n = l.nth /\ r = l.row
        BY <2>3
      <4>3. o \in Outcomes(q) /\ CarryOut(q, o, c, n, r, acked)
        BY <3>2, <4>2
      <4>4. /\ lost' \in Nat /\ lost <= lost'
            /\ \A e \in Conns \ {c} : Made(e)' \subseteq Made(e)
            /\ \/ Made(c)' \subseteq Made(c)
               \/ /\ \E j : Made(c)' \subseteq Made(c) \cup {j}
                  /\ o.wrote /\ q.id = NoId /\ o.reply.status = 200
                  /\ acked \/ lost < lost'
        BY <4>1, <4>3, WriteMade
      <4> QED BY <4>2, <4>4
    <3> QED BY <3>2, <3>3
  <2> QED BY <1>1, <2>5, <2>6
<1> QED BY <1>2, <1>3, <1>4, <1>5 DEF Next, Client, Exchange, Quiet

\* A row inserted without an event_id may become several events, with any number of
\* connections, attempts and rows: but no more of them than rows without one that
\* took effect, and POSTs that were carried out without the client being told.
THEOREM SurplusIsLost == Spec => []DuplicatesOnlyFromLostReplies
<1>1. Init => SurplusInv
  <2> SUFFICES ASSUME Init, NEW c \in Conns PROVE Made(c) = {} /\ Settled(c) = {} /\ lost = 0
    BY FS_EmptySet DEF SurplusInv
  <2>1. \A i \in AllIds : ~Wrote(c, i)
    BY ConstantsAssumption DEF Init, Wrote
  <2> QED BY <2>1 DEF Init, Made, Settled, AllIds
<1>2. Inv /\ StoredInv /\ SurplusInv /\ SettledFinite' /\ [Next]_vars => SurplusInv'
  <2> SUFFICES ASSUME Inv, StoredInv, SurplusInv, SettledFinite', [Next]_vars PROVE SurplusInv'
    OBVIOUS
  <2>1. CASE UNCHANGED vars
    BY <2>1 DEF vars, SurplusInv, Made, Settled, Wrote
  <2> QED BY <2>1, SurplusStep
<1>3. Inv /\ SurplusInv => DuplicatesOnlyFromLostReplies
  <2> SUFFICES ASSUME Inv, SurplusInv, NEW c \in Conns
               PROVE  Cardinality(Made(c)) <= lost + Cardinality({k \in hit[c] : stmt[c].rows[k].id = NoId})
    BY DEF DuplicatesOnlyFromLostReplies, Made, Wrote
  <2> DEFINE H == {k \in hit[c] : stmt[c].rows[k].id = NoId}
  <2>1. IsFiniteSet(H)
    <3>1. H \in SUBSET Nat /\ row[c] \in Nat /\ \A k \in H : k <= row[c]
      BY DEF Inv, TypeOK, PrefixInv, PrefixApplied
    <3> QED BY <3>1, FS_BoundedSetOfNaturals
  <2>2. Settled(c) \subseteq H
    BY DEF Settled
  <2> HIDE DEF H
  <2>3. IsFiniteSet(Made(c)) /\ Cardinality(Made(c)) <= lost + Cardinality(Settled(c)) /\ lost \in Nat
    BY DEF SurplusInv, Inv, TypeOK
  <2>4. Cardinality(Made(c)) <= lost + Cardinality(H)
    BY <2>1, <2>2, <2>3, BoundMoves
  <2> QED BY <2>4 DEF H
<1> QED BY <1>1, <1>2, <1>3, Always, StoredAlways, SettledIsFinite, PTL DEF Spec

-----------------------------------------------------------------------------
\* What a statement that succeeded reports.

\* An answer tells back what the request was about.
Echo(q, a) ==
    /\ q.verb \in {"POST", "PUT"} => a.body = q.body
    /\ IF q.id = NoId THEN a.id \in AutoIds ELSE a.id = q.id

\* A request names the event of its row, a good answer echoes it, and a DELETE reads
\* its event only for RETURNING.
EchoAt(c) ==
    pc[c] \in {"sent", "replied"} =>
        /\ req[c].id = ThisRow(c).id
        /\ ThisRow(c).op = "delete" /\ req[c].verb = "GET" => stmt[c].returning
        /\ pc[c] = "replied" /\ reply[c].status = 200 => Echo(req[c], reply[c])

EchoOK == \A c \in Conns : EchoAt(c)

\* The last row that sink op has collected: DELETE collects what it read before it
\* deletes.
Upto(c, op) ==
    IF op = "delete" /\ pc[c] \in {"sent", "replied"} /\ req[c].verb = "DELETE"
      THEN row[c] ELSE row[c] - 1

\* What the sinks have counted and collected so far.
Counted(c, op)  == count[c][op] = Place(stmt[c].rows, op, row[c] - 1)
Collects(c, op) ==
    Len(returned[c][op]) = IF stmt[c].returning THEN Place(stmt[c].rows, op, Upto(c, op)) ELSE 0
Shows(c, op) ==
    stmt[c].returning =>
        \A k \in Asked(stmt[c].rows, op) :
            k <= Upto(c, op) =>
                Reports(returned[c][op][Place(stmt[c].rows, op, k)], stmt[c].rows[k])

Report(c, op) == Counted(c, op) /\ Collects(c, op) /\ Shows(c, op)

ReportAt(c) == \A op \in Ops : Report(c, op)

ReportOK == \A c \in Conns : pc[c] \in {"sink", "sent", "replied", "done"} => ReportAt(c)

\* The places that a sink's rows have among them.
LEMMA PlaceFacts ==
    ASSUME NEW rows \in Seq(Row), NEW op
    PROVE  /\ Place(rows, op, 0) = 0
           /\ \A n \in Nat : Place(rows, op, n) \in Nat
           /\ \A n \in Nat : Place(rows, op, n + 1) =
                 IF n + 1 \in Asked(rows, op) THEN Place(rows, op, n) + 1 ELSE Place(rows, op, n)
           /\ \A n \in Nat, k \in Asked(rows, op) :
                 k <= n => Place(rows, op, k) \in 1 .. Place(rows, op, n)
           /\ \A n \in Nat : n >= Len(rows) => Place(rows, op, n) = Cardinality(Asked(rows, op))
<1> DEFINE A == Asked(rows, op)
           To(n) == {m \in A : m <= n}
<1>1. A \subseteq 1 .. Len(rows) /\ Len(rows) \in Nat
  BY DEF Asked
<1>2. A \in SUBSET Nat /\ 0 \notin A
  BY <1>1
<1>3. \A n : Place(rows, op, n) = Cardinality(To(n))
  BY DEF Place
<1> HIDE DEF A
<1>4. \A n, m : m \in To(n) <=> m \in A /\ m <= n
  OBVIOUS
<1> HIDE DEF To
<1>5. ASSUME NEW n \in Nat PROVE IsFiniteSet(To(n)) /\ Cardinality(To(n)) \in Nat
  <2>1. To(n) \in SUBSET Nat
    BY <1>2, <1>4
  <2>2. \A m \in To(n) : m <= n
    BY <1>4
  <2>3. IsFiniteSet(To(n))
    BY <2>1, <2>2, FS_BoundedSetOfNaturals
  <2> QED BY <2>3, FS_CardinalityType
<1>6. Cardinality(To(0)) = 0
  <2>1. \A m \in A : ~(m <= 0)
    BY <1>2
  <2>2. To(0) = {}
    BY <1>4, <2>1
  <2> QED BY <2>2, FS_EmptySet
<1>7. ASSUME NEW n \in Nat
      PROVE  Cardinality(To(n + 1)) = IF n + 1 \in A THEN Cardinality(To(n)) + 1 ELSE Cardinality(To(n))
  <2>1. \A m \in A : m <= n + 1 <=> m <= n \/ m = n + 1
    BY <1>2
  <2>2. CASE n + 1 \in A
    <3>1. \A m : m \in To(n + 1) <=> m \in To(n) \/ m = n + 1
      BY <1>4, <2>1, <2>2
    <3>2. To(n + 1) = To(n) \cup {n + 1} /\ n + 1 \notin To(n)
      BY <1>4, <3>1
    <3>3. IsFiniteSet(To(n))
      BY <1>5
    <3>4. Cardinality(To(n) \cup {n + 1}) = Cardinality(To(n)) + 1
      BY <3>2, <3>3, FS_AddElement
    <3> QED BY <2>2, <3>2, <3>4
  <2>3. CASE n + 1 \notin A
    <3>1. \A m : m \in To(n + 1) <=> m \in To(n)
      BY <1>4, <2>1, <2>3
    <3>2. To(n + 1) = To(n)
      BY <3>1
    <3> QED BY <2>3, <3>2
  <2> QED BY <2>2, <2>3
<1>8. ASSUME NEW n \in Nat, NEW k \in A, k <= n
      PROVE  Cardinality(To(k)) \in 1 .. Cardinality(To(n))
  <2>1. k \in Nat
    BY <1>2
  <2>2. \A m \in A : m <= k => m <= n
    BY <1>2, <1>8, <2>1
  <2>3. To(k) \in SUBSET To(n)
    BY <1>4, <2>2
  <2>4. k \in To(k)
    BY <1>4, <2>1
  <2>5. IsFiniteSet(To(k)) /\ IsFiniteSet(To(n)) /\ Cardinality(To(k)) \in Nat /\ Cardinality(To(n)) \in Nat
    BY <1>5, <2>1
  <2>6. Cardinality(To(k)) <= Cardinality(To(n))
    BY <2>3, <2>5, FS_Subset
  <2>7. Cardinality(To(k)) # 0
    BY <2>4, <2>5, FS_EmptySet
  <2> QED BY <2>5, <2>6, <2>7
<1>9. ASSUME NEW n \in Nat, n >= Len(rows) PROVE Cardinality(To(n)) = Cardinality(A)
  <2>1. \A m \in A : m <= n
    BY <1>1, <1>9
  <2>2. To(n) = A
    BY <1>4, <2>1
  <2> QED BY <2>2
<1> QED BY <1>3, <1>5, <1>6, <1>7, <1>8, <1>9 DEF A

\* A good answer echoes the request.
LEMMA OutcomeEcho ==
    ASSUME NEW q \in Request, NEW o \in Outcomes(q), o.reply.status = 200
    PROVE  Echo(q, o.reply)
<1> DEFINE Gives(w, a) == o = [wrote |-> w, reply |-> a]
<1>1. q.verb \in Verbs
  BY DEF Request
<1>2. CASE q.verb = "POST" /\ q.id = NoId
  <2>1. PICK i \in AutoIds : Gives(TRUE, Answer(200, i, q.body))
    BY <1>2 DEF Outcomes
  <2> QED BY <1>2, <2>1 DEF Answer, Echo
<1>3. CASE q.verb = "POST" /\ q.id # NoId
  <2>1. Gives(TRUE, Answer(200, q.id, q.body)) \/ Gives(FALSE, Answer(409, q.id, q.body))
    BY <1>3 DEF Outcomes
  <2> QED BY <1>3, <2>1 DEF Answer, Echo
<1>4. CASE q.verb # "POST" /\ (q.id = NoId \/ ~store[q.id].exists)
  <2>1. Gives(FALSE, Answer(404, q.id, q.body))
    BY <1>4 DEF Outcomes
  <2> QED BY <2>1 DEF Answer
<1>5. CASE q.verb = "GET" /\ q.id # NoId /\ store[q.id].exists
  <2>1. Gives(FALSE, Answer(200, q.id, store[q.id].body))
    BY <1>5 DEF Outcomes
  <2> QED BY <1>5, <2>1 DEF Answer, Echo
<1>6. CASE q.verb = "PUT" /\ q.id # NoId /\ store[q.id].exists
  <2>1. Gives(TRUE, Answer(200, q.id, q.body))
    BY <1>6 DEF Outcomes
  <2> QED BY <1>6, <2>1 DEF Answer, Echo
<1>7. CASE q.verb = "DELETE" /\ q.id # NoId /\ store[q.id].exists
  <2> DEFINE b == [store[q.id].body EXCEPT ![Status] = Cancelled]
  <2>1. Gives(TRUE, Answer(204, q.id, b)) \/ Gives(FALSE, Answer(410, q.id, q.body))
    BY <1>7 DEF Outcomes
  <2> HIDE DEF b
  <2> QED BY <2>1 DEF Answer
<1> QED BY <1>1, <1>2, <1>3, <1>4, <1>5, <1>6, <1>7 DEF Verbs

\* What a connection does leaves the others' sinks alone.
Stands(d) ==
    /\ pc'[d] = pc[d] /\ stmt'[d] = stmt[d] /\ row'[d] = row[d] /\ req'[d] = req[d]
    /\ reply'[d] = reply[d] /\ count'[d] = count[d] /\ returned'[d] = returned[d]

LEMMA OthersStand ==
    ASSUME TypeOK, NEW c \in Conns, Start(c) \/ Client(c) \/ Exchange(c), NEW d \in Conns, d # c
    PROVE  Stands(d)
<1>1. CASE Start(c)
  BY <1>1 DEF Start, Stands, TypeOK
<1>2. CASE SinkInsert(c) \/ SinkUpdate(c) \/ SinkDelete(c)
  BY <1>2 DEF SinkInsert, SinkUpdate, SinkDelete, Call, Stands, TypeOK, service, sink
<1>3. CASE SkipNull(c) \/ Finish(c) \/ Retry(c)
  BY <1>3 DEF SkipNull, Finish, Retry, NextRow, Stands, TypeOK, service, sink
<1>4. CASE InsertReply(c) \/ UpdateReply(c) \/ DeleteReply(c)
  <2>1. UNCHANGED <<stmt, reply>>
    BY <1>4 DEF InsertReply, UpdateReply, DeleteReply
  <2>2. pc'[d] = pc[d] /\ row'[d] = row[d] /\ req'[d] = req[d]
    <3>1. ASSUME NEW verb, NEW id, NEW body, Call(c, verb, id, body), UNCHANGED row
          PROVE  pc'[d] = pc[d] /\ row'[d] = row[d] /\ req'[d] = req[d]
      BY <3>1 DEF Call, TypeOK
    <3>2. ASSUME NextRow(c) \/ Fail(c), UNCHANGED req \/ Fail(c)
          PROVE  pc'[d] = pc[d] /\ row'[d] = row[d] /\ req'[d] = req[d]
      BY <3>2 DEF NextRow, Fail, TypeOK
    <3> QED BY <1>4, <3>1, <3>2 DEF InsertReply, UpdateReply, DeleteReply, Done
  <2>3. /\ UNCHANGED count \/ \E op \in Ops : count' = [count EXCEPT ![c][op] = @ + 1]
        /\ UNCHANGED returned \/ \E op \in Ops : returned' = Collected(c, op)
    BY <1>4 DEF InsertReply, UpdateReply, DeleteReply, Done, Fail, Ops
  <2>4. count'[d] = count[d] /\ returned'[d] = returned[d]
    BY <2>3 DEF Collected, TypeOK
  <2> QED BY <2>1, <2>2, <2>4 DEF Stands
<1>5. CASE Serve(c) \/ Refuse(c) \/ Broken(c)
  BY <1>5 DEF Serve, Refuse, Broken, Stands, TypeOK, service, sink
<1> QED BY <1>1, <1>2, <1>3, <1>4, <1>5 DEF Client, Exchange

\* A request is made for its row, and the last answer echoes it.
LEMMA EchoStep ==
    ASSUME Inv, EchoOK, Next
    PROVE  EchoOK'
<1>1. ASSUME NEW c \in Conns, Start(c) \/ Client(c) \/ Exchange(c), EchoAt(c)'
      PROVE  EchoOK'
  <2>1. \A d \in Conns : d # c => Stands(d)
    BY <1>1, OthersStand DEF Inv
  <2>2. \A d \in Conns : Stands(d) => EchoAt(d)'
    BY DEF EchoOK, EchoAt, Stands, ThisRow
  <2> QED BY <1>1, <2>1, <2>2 DEF EchoOK
<1>2. ASSUME NEW c \in Conns, NEW p, pc' = [pc EXCEPT ![c] = p], p \notin {"sent", "replied"}
      PROVE  EchoAt(c)'
  BY <1>2 DEF EchoAt, Inv, TypeOK
<1>3. ASSUME NEW c \in Conns, NEW verb, NEW id, NEW body, Call(c, verb, id, body),
             id = ThisRow(c).id, ThisRow(c).op = "delete" /\ verb = "GET" => stmt[c].returning,
             UNCHANGED <<stmt, row>>
      PROVE  EchoAt(c)'
  <2>1. pc'[c] = "sent" /\ req'[c] = [verb |-> verb, id |-> id, body |-> body]
    BY <1>3 DEF Call, Inv, TypeOK
  <2>2. req'[c].id = id /\ req'[c].verb = verb
    BY <2>1
  <2> QED BY <1>3, <2>1, <2>2 DEF EchoAt, ThisRow
<1>4. ASSUME NEW c \in Conns, Start(c) \/ SkipNull(c) \/ Finish(c) \/ Broken(c)
      PROVE  EchoAt(c)'
  BY <1>2, <1>4 DEF Start, SkipNull, NextRow, Finish, Broken
<1>5. ASSUME NEW c \in Conns, SinkInsert(c) \/ SinkUpdate(c) \/ SinkDelete(c)
      PROVE  EchoAt(c)'
  BY <1>3, <1>5 DEF SinkInsert, SinkUpdate, SinkDelete, InSink, sink
<1>6. ASSUME NEW c \in Conns, Retry(c) PROVE EchoAt(c)'
  BY <1>6 DEF Retry, EchoOK, EchoAt, ThisRow, Inv, TypeOK, sink
<1>7. ASSUME NEW c \in Conns, InsertReply(c) \/ UpdateReply(c) \/ DeleteReply(c)
      PROVE  EchoAt(c)'
  <2>1. UNCHANGED stmt
    BY <1>7 DEF InsertReply, UpdateReply, DeleteReply
  <2>2. ASSUME NextRow(c) \/ Fail(c) PROVE EchoAt(c)'
    BY <1>2, <2>2 DEF NextRow, Fail
  <2>3. ASSUME NEW verb \in {"PUT", "DELETE"}, NEW body,
               Call(c, verb, ThisRow(c).id, body), UNCHANGED row
        PROVE  EchoAt(c)'
    BY <1>3, <2>1, <2>3
  <2> QED BY <1>7, <2>2, <2>3 DEF InsertReply, UpdateReply, DeleteReply, Done
<1>8. ASSUME NEW c \in Conns, Serve(c) PROVE EchoAt(c)'
  <2>1. PICK o \in Outcomes(req[c]), acked \in BOOLEAN :
          reply' = [reply EXCEPT ![c] = IF acked THEN o.reply ELSE Answer(503, NoId, NullBody)]
    BY <1>8 DEF Serve
  <2>2. /\ pc[c] = "sent" /\ UNCHANGED <<stmt, row, req>>
        /\ reply'[c] = IF acked THEN o.reply ELSE Answer(503, NoId, NullBody)
    BY <1>8, <2>1 DEF Serve, Inv, TypeOK
  <2>3. reply'[c].status = 200 => acked
    BY <2>2 DEF Answer
  <2>4. reply'[c].status = 200 => Echo(req[c], reply'[c])
    BY <2>2, <2>3, OutcomeEcho DEF Inv, TypeOK
  <2> QED BY <2>2, <2>4 DEF EchoOK, EchoAt, ThisRow
<1>9. ASSUME NEW c \in Conns, Refuse(c) PROVE EchoAt(c)'
  <2>1. /\ pc[c] = "sent" /\ UNCHANGED <<stmt, row, req>>
        /\ reply'[c].status # 200
    BY <1>9 DEF Refuse, Inv, TypeOK, sink
  <2> QED BY <2>1 DEF EchoOK, EchoAt, ThisRow
<1>10. CASE ServeLate
  BY <1>10 DEF ServeLate, EchoOK, EchoAt, ThisRow, sink
<1> QED BY <1>1, <1>4, <1>5, <1>6, <1>7, <1>8, <1>9, <1>10 DEF Next, Client, Exchange

\* The row in the sink takes the next place of the sink it is for, and none elsewhere.
LEMMA PlaceHere ==
    ASSUME TypeOK, EndOK, NEW c \in Conns, NEW op
    PROVE  LET rows == stmt[c].rows
               n    == row[c] - 1
           IN  /\ n \in Nat /\ row[c] \in Nat /\ rows \in Seq(Row)
               /\ Place(rows, op, n) \in Nat /\ Place(rows, op, row[c]) \in Nat
               /\ Place(rows, op, row[c]) =
                     IF row[c] \in Asked(rows, op) THEN Place(rows, op, n) + 1 ELSE Place(rows, op, n)
               /\ \A k \in Asked(rows, op) :
                     /\ k \in Nat /\ (k <= row[c] => k <= n \/ k = row[c])
                     /\ k <= n => Place(rows, op, k) \in 1 .. Place(rows, op, n)
<1> DEFINE rows == stmt[c].rows
           n    == row[c] - 1
<1>1. rows \in Seq(Row) /\ row[c] \in Nat /\ row[c] # 0
  BY DEF TypeOK, Statement, EndOK
<1>2. \A k \in Asked(rows, op) : k \in Nat
  BY <1>1 DEF Asked
<1> HIDE DEF rows
<1>3. n \in Nat /\ n + 1 = row[c]
  BY <1>1
<1> HIDE DEF n
<1>4. /\ Place(rows, op, n) \in Nat /\ Place(rows, op, row[c]) \in Nat
      /\ Place(rows, op, n + 1) =
            IF n + 1 \in Asked(rows, op) THEN Place(rows, op, n) + 1 ELSE Place(rows, op, n)
      /\ \A k \in Asked(rows, op) : k <= n => Place(rows, op, k) \in 1 .. Place(rows, op, n)
  BY <1>1, <1>3, PlaceFacts
<1>5. \A k \in Asked(rows, op) : k <= row[c] => k <= n \/ k = row[c]
  BY <1>1, <1>2, <1>3
<1>6. /\ n \in Nat /\ row[c] \in Nat /\ rows \in Seq(Row)
      /\ Place(rows, op, n) \in Nat /\ Place(rows, op, row[c]) \in Nat
      /\ Place(rows, op, row[c]) =
            IF row[c] \in Asked(rows, op) THEN Place(rows, op, n) + 1 ELSE Place(rows, op, n)
      /\ \A k \in Asked(rows, op) :
            /\ k \in Nat /\ (k <= row[c] => k <= n \/ k = row[c])
            /\ k <= n => Place(rows, op, k) \in 1 .. Place(rows, op, n)
  BY <1>1, <1>2, <1>3, <1>4, <1>5
<1> QED BY <1>6 DEF rows, n

\* Collecting one more row leaves those before it at their places.
LEMMA CollectOne ==
    ASSUME NEW R, NEW out \in Seq(R), NEW x \in R
    PROVE  /\ Append(out, x) \in Seq(R) /\ Len(Append(out, x)) = Len(out) + 1
           /\ \A i \in 1 .. Len(out) : Append(out, x)[i] = out[i]
           /\ Append(out, x)[Len(out) + 1] = x
OBVIOUS

\* A statement whose report and rows stay, and whose collection does not advance.
LEMMA ReportStands ==
    ASSUME NEW c \in Conns, ReportAt(c),
           count'[c] = count[c], returned'[c] = returned[c], stmt'[c] = stmt[c], row'[c] = row[c],
           stmt[c].returning => \A op \in Ops : Upto(c, op)' = Upto(c, op)
    PROVE  ReportAt(c)'
BY DEF ReportAt, Report, Counted, Collects, Shows

\* The row passes by a sink it is not for.
LEMMA PassesBy ==
    ASSUME TypeOK, EndOK, NEW c \in Conns, NEW op \in Ops, Report(c, op),
           row[c] \notin Asked(stmt[c].rows, op),
           count'[c][op] = count[c][op], returned'[c][op] = returned[c][op],
           stmt'[c] = stmt[c], row'[c] = row[c] + 1, pc'[c] = "sink"
    PROVE  Report(c, op)'
<1> DEFINE rows == stmt[c].rows
           n    == row[c] - 1
<1>1. /\ row[c] \in Nat /\ n \in Nat /\ Place(rows, op, row[c]) = Place(rows, op, n)
      /\ \A k \in Asked(rows, op) : k <= row[c] => k <= n
  BY PlaceHere
<1>2. Upto(c, op) \in {n, row[c]} /\ row'[c] - 1 = row[c] /\ Upto(c, op)' = row[c]
  BY <1>1 DEF Upto
<1>3. Counted(c, op)'
  BY <1>1, <1>2 DEF Report, Counted
<1>4. Collects(c, op)'
  BY <1>1, <1>2 DEF Report, Collects
<1>5. Shows(c, op)'
  <2>1. \A k \in Asked(rows, op) : k <= row[c] => k <= Upto(c, op)
    BY <1>1, <1>2
  <2> QED BY <1>2, <2>1 DEF Report, Shows
<1> QED BY <1>3, <1>4, <1>5 DEF Report

\* The row in the sink is among those its sink is asked for.
LEMMA HereAsked ==
    ASSUME Inv, NEW c \in Conns, pc[c] \in {"sent", "replied"}, NEW op \in Ops, ThisRow(c).op = op
    PROVE  /\ row[c] \in Asked(stmt[c].rows, op)
           /\ \A p \in Ops : p # op => row[c] \notin Asked(stmt[c].rows, p)
BY DEF Inv, PrefixInv, BusyOK, ReqOK, Asked, ThisRow

\* A row of sink op is collected.
LEMMA CollectHere ==
    ASSUME TypeOK, NEW c \in Conns, NEW op \in Ops, returned' = Collected(c, op)
    PROVE  /\ Len(returned'[c][op]) = Len(returned[c][op]) + 1 /\ Len(returned[c][op]) \in Nat
           /\ \A i \in 1 .. Len(returned[c][op]) : returned'[c][op][i] = returned[c][op][i]
           /\ returned'[c][op][Len(returned[c][op]) + 1] = ReturnedRow(c)
           /\ \A p \in Ops : p # op => returned'[c][p] = returned[c][p]
<1> DEFINE R == [id : AllIds \cup {NoId}, body : Body]
           x == ReturnedRow(c)
           out == returned[c][op]
<1>1. x \in R
  BY DEF TypeOK, Reply, ReturnedRow
<1>2. returned[c] \in [Ops -> Seq(R)] /\ out \in Seq(R)
  BY DEF TypeOK
<1>3. returned'[c] = [returned[c] EXCEPT ![op] = Append(@, x)]
  BY DEF TypeOK, Collected
<1>4. returned'[c][op] = Append(out, x) /\ \A p \in Ops : p # op => returned'[c][p] = returned[c][p]
  BY <1>2, <1>3
<1> HIDE DEF R, x, out
<1>5. /\ Len(Append(out, x)) = Len(out) + 1 /\ Len(out) \in Nat
      /\ \A i \in 1 .. Len(out) : Append(out, x)[i] = out[i]
      /\ Append(out, x)[Len(out) + 1] = x
  BY <1>1, <1>2, CollectOne
<1>6. /\ Len(returned'[c][op]) = Len(out) + 1 /\ Len(out) \in Nat
      /\ \A i \in 1 .. Len(out) : returned'[c][op][i] = out[i]
      /\ returned'[c][op][Len(out) + 1] = x
  BY <1>4, <1>5
<1> QED BY <1>4, <1>6 DEF x, out

\* Collecting the row in the sink, at its place, keeps what the sink shows.
LEMMA CollectShows ==
    ASSUME TypeOK, EndOK, NEW c \in Conns, NEW op \in Ops, stmt[c].returning,
           row[c] \in Asked(stmt[c].rows, op), Upto(c, op) = row[c] - 1,
           Collects(c, op), Shows(c, op), returned' = Collected(c, op),
           Reports(ReturnedRow(c), ThisRow(c)),
           stmt'[c] = stmt[c], Upto(c, op)' = row[c]
    PROVE  Collects(c, op)' /\ Shows(c, op)'
<1> DEFINE rows == stmt[c].rows
           n    == row[c] - 1
           out  == returned[c][op]
           At(k) == Place(rows, op, k)
<1>1. /\ row[c] \in Nat /\ n \in Nat /\ At(n) \in Nat /\ At(row[c]) = At(n) + 1
      /\ \A k \in Asked(rows, op) :
            /\ k <= row[c] => k <= n \/ k = row[c]
            /\ k <= n => At(k) \in 1 .. At(n)
  BY PlaceHere
<1>2. Len(out) = At(n)
  BY DEF Collects
<1>3. \A k \in Asked(rows, op) : k <= n => Reports(out[At(k)], rows[k])
  BY DEF Shows
<1>4. /\ Len(returned'[c][op]) = Len(out) + 1
      /\ \A i \in 1 .. Len(out) : returned'[c][op][i] = out[i]
      /\ returned'[c][op][Len(out) + 1] = ReturnedRow(c)
  BY CollectHere
<1>5. Reports(ReturnedRow(c), rows[row[c]])
  BY DEF ThisRow
<1> HIDE DEF At, n, out
<1>6. \A k \in Asked(rows, op) : k <= row[c] => Reports(returned'[c][op][At(k)], rows[k])
  <2> SUFFICES ASSUME NEW k \in Asked(rows, op), k <= row[c]
               PROVE  Reports(returned'[c][op][At(k)], rows[k])
    OBVIOUS
  <2>1. CASE k = row[c]
    <3>1. At(k) = Len(out) + 1
      BY <1>1, <1>2, <2>1
    <3> QED BY <1>4, <1>5, <2>1, <3>1
  <2>2. CASE k <= n
    <3>1. At(k) \in 1 .. Len(out)
      BY <1>1, <1>2, <2>2
    <3>2. returned'[c][op][At(k)] = out[At(k)]
      BY <1>4, <3>1
    <3> QED BY <1>3, <2>2, <3>2
  <2> QED BY <1>1, <2>1, <2>2
<1>7. Len(returned'[c][op]) = At(row[c])
  BY <1>1, <1>2, <1>4
<1>8. Collects(c, op)'
  BY <1>7 DEF Collects, At
<1>9. Shows(c, op)'
  BY <1>6 DEF Shows, At
<1> QED BY <1>8, <1>9

\* What the sink collects shows the row it is for.
LEMMA AnswerReports ==
    ASSUME Inv, EchoOK, NEW c \in Conns, pc[c] = "replied", reply[c].status = 200,
           ThisRow(c).op = "delete" \/ req[c].verb \in {"POST", "PUT"}
    PROVE  Reports(ReturnedRow(c), ThisRow(c))
<1>1. /\ req[c].id = ThisRow(c).id /\ Echo(req[c], reply[c]) /\ Consumed(ThisRow(c))
      /\ req[c].verb # "GET" => Promise!Asks(ThisRow(c), EffectOf(req[c]))
  BY DEF EchoOK, EchoAt, Inv, ReqOK
<1>2. ReturnedRow(c).id = reply[c].id /\ ReturnedRow(c).body = reply[c].body
  BY DEF ReturnedRow
<1>3. IF ThisRow(c).id = NoId THEN ReturnedRow(c).id \in AutoIds ELSE ReturnedRow(c).id = ThisRow(c).id
  BY <1>1, <1>2 DEF Echo
<1>4. ThisRow(c).op \in Ops
  BY ThisRowType DEF Inv, PrefixInv, BusyOK, Row
<1>5. CASE ThisRow(c).op # "delete"
  <2>1. ReturnedRow(c).body = EffectOf(req[c]).body /\ req[c].verb # "GET"
    BY <1>1, <1>2, <1>5 DEF Echo, EffectOf
  <2>2. Promise!Asks(ThisRow(c), EffectOf(req[c]))
    BY <1>1, <2>1
  <2> HIDE DEF EffectOf
  <2>3. AsAsked(ThisRow(c), [exists |-> TRUE, body |-> ReturnedRow(c).body])
    BY <1>4, <1>5, <2>1, <2>2 DEF AsAsked, Ops, Promise!Asks
  <2> QED BY <1>3, <2>3 DEF Reports
<1>6. CASE ThisRow(c).op = "delete"
  BY <1>3, <1>6 DEF Reports
<1> QED BY <1>5, <1>6

\* An INSERT or UPDATE goes on to the next row.
LEMMA DoneReports ==
    ASSUME Inv, EndOK, EchoOK, NEW c \in Conns, ReportAt(c), pc[c] = "replied",
           reply[c].status = 200, req[c].verb \in {"POST", "PUT"},
           NEW op \in Ops, ThisRow(c).op = op, Done(c, op), stmt' = stmt,
           Upto(c, op) = row[c] - 1, Upto(c, op)' = row'[c] - 1
    PROVE  ReportAt(c)'
<1>1. op \in Ops /\ TypeOK
  BY DEF Inv
<1>2. /\ row[c] \in Asked(stmt[c].rows, op)
      /\ \A p \in Ops : p # op => row[c] \notin Asked(stmt[c].rows, p)
  BY <1>1, HereAsked
<1>3. pc'[c] = "sink" /\ row'[c] = row[c] + 1
  BY <1>1 DEF Done, NextRow, TypeOK
<1>4. count'[c][op] = count[c][op] + 1 /\ \A p \in Ops : p # op => count'[c][p] = count[c][p]
  <2>1. count' = [count EXCEPT ![c][op] = @ + 1]
    BY DEF Done
  <2>2. count[c] \in [Ops -> Nat] /\ count'[c] = [count[c] EXCEPT ![op] = @ + 1]
    BY <1>1, <2>1 DEF TypeOK
  <2> QED BY <1>1, <2>2
<1>5. row[c] \in Nat /\ row'[c] - 1 = row[c]
  BY <1>1, <1>3 DEF TypeOK
<1>6. returned' = IF stmt[c].returning THEN Collected(c, op) ELSE returned
  BY DEF Done
<1>7. Report(c, op)'
  <2>1. Report(c, op)
    BY <1>1 DEF ReportAt
  <2>2. Counted(c, op)'
    <3>1. Place(stmt[c].rows, op, row[c]) = Place(stmt[c].rows, op, row[c] - 1) + 1
      BY <1>1, <1>2, PlaceHere
    <3>2. count[c][op] = Place(stmt[c].rows, op, row[c] - 1)
      BY <2>1 DEF Report, Counted
    <3>3. count'[c][op] = Place(stmt[c].rows, op, row[c])
      BY <1>4, <3>1, <3>2
    <3> QED BY <1>5, <3>3 DEF Counted
  <2>3. CASE stmt[c].returning
    <3>1. Reports(ReturnedRow(c), ThisRow(c))
      BY AnswerReports
    <3>2. Collects(c, op)' /\ Shows(c, op)'
      BY <1>1, <1>2, <1>5, <1>6, <2>1, <2>3, <3>1, CollectShows DEF Report
    <3> QED BY <2>2, <3>2 DEF Report
  <2>4. CASE ~stmt[c].returning
    BY <1>6, <2>1, <2>2, <2>4 DEF Report, Collects, Shows
  <2> QED BY <2>3, <2>4
<1>8. ASSUME NEW p \in Ops, p # op PROVE Report(c, p)'
  <2>1. Report(c, p) /\ row[c] \notin Asked(stmt[c].rows, p) /\ count'[c][p] = count[c][p]
    BY <1>2, <1>4, <1>8 DEF ReportAt
  <2>2. returned'[c][p] = returned[c][p]
    BY <1>1, <1>6, <1>8, CollectHere
  <2> QED BY <1>1, <1>3, <2>1, <2>2, PassesBy
<1> QED BY <1>7, <1>8 DEF ReportAt

\* A DELETE with RETURNING has read its event.
LEMMA ReadReports ==
    ASSUME Inv, EndOK, EchoOK, NEW c \in Conns, ReportAt(c), pc[c] = "replied",
           reply[c].status = 200, req[c].verb = "GET", ThisRow(c).op = "delete",
           returned' = Collected(c, "delete"), Call(c, "DELETE", ThisRow(c).id, NullBody),
           UNCHANGED <<stmt, row, count>>
    PROVE  ReportAt(c)'
<1>1. "delete" \in Ops /\ TypeOK /\ stmt[c].returning
  BY DEF Ops, Inv, EchoOK, EchoAt
<1>2. row[c] \in Asked(stmt[c].rows, "delete")
  BY <1>1, HereAsked
<1>3. pc'[c] = "sent" /\ req'[c].verb = "DELETE"
  BY <1>1 DEF Call, TypeOK
<1>4. Upto(c, "delete") = row[c] - 1 /\ Upto(c, "delete")' = row[c]
  BY <1>3 DEF Upto
<1>5. Report(c, "delete")'
  <2>1. Report(c, "delete")
    BY <1>1 DEF ReportAt
  <2>2. Counted(c, "delete")'
    BY <2>1 DEF Report, Counted
  <2>3. Reports(ReturnedRow(c), ThisRow(c))
    BY AnswerReports
  <2>4. Collects(c, "delete")' /\ Shows(c, "delete")'
    BY <1>1, <1>2, <1>4, <2>1, <2>3, CollectShows DEF Report
  <2> QED BY <2>2, <2>4 DEF Report
<1>6. ASSUME NEW p \in Ops, p # "delete" PROVE Report(c, p)'
  <2>1. Report(c, p) /\ returned'[c][p] = returned[c][p]
    BY <1>1, <1>6, CollectHere DEF ReportAt
  <2>2. Upto(c, p)' = Upto(c, p)
    BY <1>6 DEF Upto
  <2> QED BY <2>1, <2>2 DEF Report, Counted, Collects, Shows
<1> QED BY <1>5, <1>6 DEF ReportAt

\* A DELETE goes on to the next row.
LEMMA DeletedReports ==
    ASSUME Inv, EndOK, NEW c \in Conns, ReportAt(c), pc[c] = "replied",
           req[c].verb = "DELETE", ThisRow(c).op = "delete",
           count' = [count EXCEPT ![c]["delete"] = @ + 1], NextRow(c), UNCHANGED <<stmt, returned>>
    PROVE  ReportAt(c)'
<1>1. "delete" \in Ops /\ TypeOK
  BY DEF Ops, Inv
<1>2. /\ row[c] \in Asked(stmt[c].rows, "delete")
      /\ \A p \in Ops : p # "delete" => row[c] \notin Asked(stmt[c].rows, p)
  BY <1>1, HereAsked
<1>3. pc'[c] = "sink" /\ row'[c] = row[c] + 1 /\ row[c] \in Nat
  BY <1>1 DEF NextRow, TypeOK
<1>4. /\ count'[c]["delete"] = count[c]["delete"] + 1
      /\ \A p \in Ops : p # "delete" => count'[c][p] = count[c][p]
  <2>1. count[c] \in [Ops -> Nat] /\ count'[c] = [count[c] EXCEPT !["delete"] = @ + 1]
    BY <1>1 DEF TypeOK
  <2> QED BY <1>1, <2>1
<1>5. Upto(c, "delete") = row[c] /\ Upto(c, "delete")' = row[c] /\ row'[c] - 1 = row[c]
  BY <1>3 DEF Upto
<1>6. Report(c, "delete")'
  <2>1. Report(c, "delete")
    BY <1>1 DEF ReportAt
  <2>2. Place(stmt[c].rows, "delete", row[c]) = Place(stmt[c].rows, "delete", row[c] - 1) + 1
    BY <1>1, <1>2, PlaceHere
  <2>3. Counted(c, "delete")'
    BY <1>4, <1>5, <2>1, <2>2 DEF Report, Counted
  <2>4. Collects(c, "delete")' /\ Shows(c, "delete")'
    BY <1>5, <2>1 DEF Report, Collects, Shows
  <2> QED BY <2>3, <2>4 DEF Report
<1>7. ASSUME NEW p \in Ops, p # "delete" PROVE Report(c, p)'
  BY <1>1, <1>2, <1>3, <1>4, <1>7, PassesBy DEF ReportAt
<1> QED BY <1>6, <1>7 DEF ReportAt

\* Every step keeps the invariant.
LEMMA ReportStep ==
    ASSUME Inv, EndOK, EchoOK, ReportOK, Next
    PROVE  ReportOK'
<1> DEFINE Running == {"sink", "sent", "replied", "done"}
<1>1. ASSUME NEW c \in Conns, Start(c) \/ Client(c) \/ Exchange(c),
             pc'[c] \in Running => ReportAt(c)'
      PROVE  ReportOK'
  <2>1. \A d \in Conns : d # c => Stands(d)
    BY <1>1, OthersStand DEF Inv
  <2>2. ASSUME NEW d \in Conns, Stands(d), pc'[d] \in Running PROVE ReportAt(d)'
    <3>1. ReportAt(d)
      BY <2>2 DEF Stands, ReportOK
    <3>2. \A op \in Ops : Upto(d, op)' = Upto(d, op)
      BY <2>2 DEF Stands, Upto
    <3> QED BY <2>2, <3>1, <3>2, ReportStands DEF Stands
  <2> QED BY <1>1, <2>1, <2>2 DEF ReportOK
<1>2. ASSUME NEW c \in Conns, Start(c) PROVE ReportAt(c)'
  <2>1. /\ pc'[c] = "sink" /\ row'[c] = 1
        /\ count'[c] = [op \in Ops |-> 0] /\ returned'[c] = [op \in Ops |-> << >>]
    BY <1>2 DEF Start, Inv, TypeOK
  <2>2. stmt'[c].rows \in Seq(Row)
    <3>1. PICK s \in Statements :
             stmt' = [stmt EXCEPT ![c] = [s EXCEPT !.rows =
                        [k \in DOMAIN s.rows |-> Bound(s.rows[k], s.returning)]]]
      BY <1>2 DEF Start
    <3> DEFINE b == [s EXCEPT !.rows = [k \in DOMAIN s.rows |-> Bound(s.rows[k], s.returning)]]
    <3>2. b \in Statement
      BY StartType DEF Inv
    <3> HIDE DEF b
    <3>3. stmt' = [stmt EXCEPT ![c] = b]
      BY <3>1 DEF b
    <3> QED BY <3>2, <3>3 DEF Inv, TypeOK, Statement
  <2> SUFFICES ASSUME NEW op \in Ops PROVE Report(c, op)'
    BY DEF ReportAt
  <2>3. Place(stmt'[c].rows, op, 0) = 0
    BY <2>2, PlaceFacts
  <2>4. Upto(c, op)' = 0 /\ row'[c] - 1 = 0
    BY <2>1 DEF Upto
  <2>5. Counted(c, op)'
    BY <2>1, <2>3, <2>4 DEF Counted
  <2>6. Len(returned'[c][op]) = 0
    BY <2>1
  <2>7. Collects(c, op)'
    BY <2>3, <2>4, <2>6 DEF Collects
  <2>8. \A k \in Asked(stmt'[c].rows, op) : k \in Nat /\ k # 0
    BY <2>2 DEF Asked
  <2>9. Shows(c, op)'
    BY <2>4, <2>8 DEF Shows
  <2> QED BY <2>5, <2>7, <2>9 DEF Report
<1>3. ASSUME NEW c \in Conns, pc[c] \in Running,
             UNCHANGED <<count, returned, stmt, row>>,
             stmt[c].returning => \A op \in Ops : Upto(c, op)' = Upto(c, op)
      PROVE  ReportAt(c)'
  BY <1>3, ReportStands DEF ReportOK
<1>4. ASSUME NEW c \in Conns, SinkInsert(c) \/ SinkUpdate(c) \/ SinkDelete(c) PROVE ReportAt(c)'
  <2>1. pc[c] = "sink" /\ UNCHANGED <<count, returned, stmt, row>>
    BY <1>4 DEF SinkInsert, SinkUpdate, SinkDelete, InSink, sink
  <2>2. stmt[c].returning => req'[c].verb # "DELETE"
    BY <1>4 DEF SinkInsert, SinkUpdate, SinkDelete, Call, Inv, TypeOK
  <2>3. stmt[c].returning => \A op \in Ops : Upto(c, op)' = Upto(c, op)
    BY <2>1, <2>2 DEF Upto
  <2> QED BY <1>3, <2>1, <2>3
<1>5. ASSUME NEW c \in Conns, SkipNull(c) PROVE ReportAt(c)'
  <2>1. /\ pc[c] = "sink" /\ row[c] \in DOMAIN stmt[c].rows /\ ~Consumed(ThisRow(c))
        /\ pc'[c] = "sink" /\ row'[c] = row[c] + 1 /\ UNCHANGED <<count, returned, stmt>>
    BY <1>5 DEF SkipNull, InSink, NextRow, Consumed, Inv, TypeOK, sink
  <2>2. ReportAt(c)
    BY <2>1 DEF ReportOK
  <2>3. \A op \in Ops : row[c] \notin Asked(stmt[c].rows, op)
    BY <2>1 DEF Asked, ThisRow
  <2>4. TypeOK
    BY DEF Inv
  <2> QED BY <2>1, <2>2, <2>3, <2>4, PassesBy DEF ReportAt
<1>6. ASSUME NEW c \in Conns, Finish(c) \/ Retry(c) \/ Serve(c) \/ Refuse(c) PROVE ReportAt(c)'
  <2>1. /\ UNCHANGED <<count, returned, stmt, row, req>>
        /\ \/ pc[c] = "sink" /\ pc'[c] = "done"
           \/ pc[c] \in {"sent", "replied"} /\ pc'[c] \in {"sent", "replied"}
    BY <1>6 DEF Finish, Retry, Serve, Refuse, Inv, TypeOK, sink
  <2>2. \A op \in Ops : Upto(c, op)' = Upto(c, op)
    BY <2>1 DEF Upto
  <2> QED BY <1>3, <2>1, <2>2
<1>7. ASSUME NEW c \in Conns, Broken(c) \/ Fail(c) PROVE pc'[c] = "failed"
  BY <1>7 DEF Broken, Fail, Inv, TypeOK
<1>8. ASSUME NEW c \in Conns, InsertReply(c) \/ UpdateReply(c) \/ DeleteReply(c)
      PROVE  pc'[c] \in Running => ReportAt(c)'
  <2>1. pc[c] = "replied" /\ UNCHANGED <<stmt, reply>>
    BY <1>8 DEF InsertReply, UpdateReply, DeleteReply, Handles
  <2>2. ReportAt(c) /\ TypeOK
    BY <2>1 DEF ReportOK, Inv
  <2>3. /\ req[c].verb \in Verbs /\ (req[c].verb = "DELETE" => ThisRow(c).op = "delete")
        /\ ThisRow(c).op = "insert" => req[c].verb # "GET"
    BY <2>1 DEF Inv, TypeOK, Request, PrefixInv, BusyOK, ReqOK, Promise!Asks, EffectOf
  <2>4. CASE InsertReply(c)
    <3>1. ThisRow(c).op = "insert" /\ req[c].verb \in {"POST", "PUT"}
      BY <2>3, <2>4 DEF InsertReply, Handles, Verbs
    <3>2. ASSUME reply[c].status = 200, Done(c, "insert") PROVE ReportAt(c)'
      <4>1. Upto(c, "insert") = row[c] - 1 /\ Upto(c, "insert")' = row'[c] - 1
        BY DEF Upto
      <4> QED BY <2>1, <2>2, <3>1, <3>2, <4>1, DoneReports DEF Ops
    <3>3. ASSUME Call(c, "PUT", ThisRow(c).id, ThisRow(c).vals), UNCHANGED <<row, count, returned>>
          PROVE  ReportAt(c)'
      <4>1. pc'[c] = "sent" /\ req'[c].verb = "PUT"
        BY <2>2, <3>3 DEF Call, TypeOK
      <4>2. \A op \in Ops : Upto(c, op)' = Upto(c, op)
        BY <3>1, <3>3, <4>1 DEF Upto
      <4> QED BY <1>3, <2>1, <3>3, <4>2
    <3> QED BY <1>7, <2>4, <3>2, <3>3 DEF InsertReply
  <2>5. CASE UpdateReply(c)
    <3>1. ThisRow(c).op = "update"
      BY <2>5 DEF UpdateReply, Handles
    <3>2. ASSUME req[c].verb = "PUT", reply[c].status = 200, Done(c, "update") PROVE ReportAt(c)'
      <4>1. Upto(c, "update") = row[c] - 1 /\ Upto(c, "update")' = row'[c] - 1
        BY DEF Upto
      <4> QED BY <2>1, <2>2, <3>1, <3>2, <4>1, DoneReports DEF Ops
    <3>3. ASSUME req[c].verb = "GET", UNCHANGED <<row, count, returned>>,
                 Call(c, "PUT", ThisRow(c).id, Applied(reply[c].body, ThisRow(c)))
          PROVE  ReportAt(c)'
      <4>1. pc'[c] = "sent" /\ req'[c].verb = "PUT"
        BY <2>2, <3>3 DEF Call, TypeOK
      <4>2. \A op \in Ops : Upto(c, op)' = Upto(c, op)
        BY <3>3, <4>1 DEF Upto
      <4> QED BY <1>3, <2>1, <3>3, <4>2
    <3> QED BY <1>7, <2>5, <3>2, <3>3 DEF UpdateReply
  <2>6. CASE DeleteReply(c)
    <3>1. ThisRow(c).op = "delete"
      BY <2>6 DEF DeleteReply, Handles
    <3>2. ASSUME req[c].verb = "GET", reply[c].status = 200, UNCHANGED <<row, count>>,
                 returned' = Collected(c, "delete"), Call(c, "DELETE", ThisRow(c).id, NullBody)
          PROVE  ReportAt(c)'
      BY <2>1, <2>2, <3>1, <3>2, ReadReports
    <3>3. ASSUME req[c].verb = "DELETE", NextRow(c), UNCHANGED returned,
                 count' = [count EXCEPT ![c]["delete"] = @ + 1]
          PROVE  ReportAt(c)'
      BY <2>1, <2>2, <3>1, <3>3, DeletedReports
    <3> QED BY <1>7, <2>6, <3>2, <3>3 DEF DeleteReply
  <2> QED BY <1>8, <2>4, <2>5, <2>6
<1>9. CASE ServeLate
  <2>1. UNCHANGED <<pc, count, returned, stmt, row, req>>
    BY <1>9 DEF ServeLate, sink
  <2> QED BY <2>1 DEF ReportOK, ReportAt, Report, Counted, Collects, Shows, Upto
<1>10. ASSUME NEW c \in Conns, Start(c) \/ Client(c) \/ Exchange(c) PROVE ReportOK'
  <2>1. pc'[c] \in Running => ReportAt(c)'
    BY <1>2, <1>4, <1>5, <1>6, <1>7, <1>8, <1>10 DEF Client, Exchange
  <2> QED BY <1>1, <1>10, <2>1
<1> QED BY <1>9, <1>10 DEF Next

LEMMA ReportAlways == Spec => [](EchoOK /\ ReportOK)
<1>1. Init => EchoOK /\ ReportOK
  BY DEF Init, EchoOK, EchoAt, ReportOK
<1>2. Inv /\ StoredInv /\ EchoOK /\ ReportOK /\ [Next]_vars => EchoOK' /\ ReportOK'
  <2> SUFFICES ASSUME Inv, StoredInv, EchoOK, ReportOK, [Next]_vars PROVE EchoOK' /\ ReportOK'
    OBVIOUS
  <2>1. CASE UNCHANGED vars
    BY <2>1 DEF vars, EchoOK, EchoAt, ThisRow, ReportOK, ReportAt, Report, Counted, Collects,
                Shows, Upto
  <2>2. CASE Next
    BY <2>2, EchoStep, ReportStep DEF StoredInv
  <2> QED BY <2>1, <2>2
<1> QED BY <1>1, <1>2, Always, StoredAlways, PTL DEF Spec

\* What a statement that succeeded reports, whatever it took: each sink's count is the
\* number of rows it was asked for, and RETURNING shows each of them once, in the rows'
\* order, under its id and with the values written.
THEOREM SuccessIsReported == Spec => []ReportIsTrue
<1>1. Inv /\ StoredInv /\ ReportOK => ReportIsTrue
  <2> SUFFICES ASSUME Inv, StoredInv, ReportOK, NEW c \in Conns, NEW op \in Ops, pc[c] = "done"
               PROVE  /\ count[c][op] = Cardinality(Asked(stmt[c].rows, op))
                      /\ Len(returned[c][op]) =
                            IF stmt[c].returning THEN Cardinality(Asked(stmt[c].rows, op)) ELSE 0
                      /\ stmt[c].returning =>
                            \A k \in Asked(stmt[c].rows, op) :
                                Reports(returned[c][op][Place(stmt[c].rows, op, k)], stmt[c].rows[k])
    BY DEF ReportIsTrue
  <2> DEFINE rows == stmt[c].rows
             n    == row[c] - 1
  <2>1. rows \in Seq(Row) /\ row[c] \in Nat /\ row[c] # 0 /\ row[c] \notin DOMAIN rows
    BY DEF Inv, TypeOK, Statement, StoredInv, EndOK
  <2>2. Report(c, op) /\ Upto(c, op) = n
    BY DEF ReportOK, ReportAt, Upto
  <2>3. n \in Nat /\ n >= Len(rows) /\ \A k \in DOMAIN rows : k <= n
    <3> DEFINE len == Len(rows)
    <3>1. len \in Nat /\ DOMAIN rows = 1 .. len
      BY <2>1
    <3> HIDE DEF len
    <3>2. n \in Nat /\ n >= len /\ \A k \in 1 .. len : k <= n
      BY <2>1, <3>1
    <3> QED BY <3>1, <3>2 DEF len
  <2>4. Place(rows, op, n) = Cardinality(Asked(rows, op))
    BY <2>1, <2>3, PlaceFacts
  <2>5. \A k \in Asked(rows, op) : k <= n
    BY <2>3 DEF Asked
  <2> HIDE DEF n
  <2> QED BY <2>2, <2>4, <2>5 DEF Report, Counted, Collects, Shows, n
<1> QED BY <1>1, Always, StoredAlways, ReportAlways, PTL
=============================================================================
