------------------------ MODULE CalendarCatalogProofs ------------------------
(***************************************************************************)
(* Proofs about CalendarCatalog, for any connections, calendars, names and  *)
(* aliases.  DropsOnlyOwn becomes inductive with what a DROP relies on      *)
(* between its guard and its request: created_calendar_ids holds nothing    *)
(* that this attachment did not make, and so does the entry in hand.  The   *)
(* other properties follow from what is mounted, under how many names, and  *)
(* what the statements under way are about to do.                           *)
(***************************************************************************)
EXTENDS CalendarCatalog, TLAPS

OwnInv ==
    /\ created \subseteq ours
    /\ removed \subseteq ours
    /\ \A c \in Conns : pc[c] \in {"register", "delete", "unregister"} => held[c] \in ours
    /\ \A c \in Conns : pc[c] # "idle" => name[c] \in Names

LEMMA InitType == Init => TypeOK
BY CatalogAssumption DEF Init, TypeOK, Names

LEMMA StepType == TypeOK /\ OwnInv /\ [Next]_vars => TypeOK'
<1> SUFFICES ASSUME TypeOK, OwnInv, [Next]_vars
             PROVE  TypeOK'
    OBVIOUS
<1> USE CatalogAssumption
<1>1. CASE Attach
      <2>1. aliases' \in [Names -> Cals \cup {None}]
            BY <1>1 DEF Attach
      <2>2. tables' \in [Names -> Cals \cup {None}]
            BY <1>1 DEF Attach
      <2>3. attaches' \in 0 .. MaxAttaches
            BY <1>1 DEF Attach, TypeOK
      <2> QED
            BY <1>1, <2>1, <2>2, <2>3 DEF Attach, TypeOK, service
<1>2. CASE LoadCalendar
      BY <1>2 DEF LoadCalendar, TypeOK, service, history, statement
<1>3. CASE LoadEnds
      BY <1>3 DEF LoadEnds, TypeOK, service, mounted, history, statement
<1>4. CASE Detach
      BY <1>4 DEF Detach, TypeOK, service, mounted, history, statement
<1>5. CASE OtherDeletes
      BY <1>5 DEF OtherDeletes, TypeOK, catalog, mounted, statement
<1>6. ASSUME NEW c \in Conns, Statement(c)
      PROVE  TypeOK'
      <2>1. CASE PlanCreateTableAs(c)
            BY <2>1 DEF PlanCreateTableAs, Starts, Goes, TypeOK, service, catalog, mounted, history
      <2>2. CASE CalendarsInsert(c)
            BY <2>2 DEF CalendarsInsert, Unanswered, Returns, Goes, TypeOK, service, catalog, mounted
      <2>3. CASE Register(c)
            <3>1. held[c] \in Cals /\ name[c] \in Names
                  BY <2>3 DEF Register, OwnInv, TypeOK
            <3> QED
                BY <2>3, <3>1 DEF Register, Goes, TypeOK, service, catalog
      <2>4. CASE LookupEntry(c)
            BY <2>4 DEF LookupEntry, Starts, Goes, TypeOK, service, catalog, mounted, history
      <2>5. CASE GetGlobalSinkState(c)
            BY <2>5 DEF GetGlobalSinkState, Goes, TypeOK, service, catalog, mounted, history
      <2>6. CASE DropEntry(c)
            BY <2>6 DEF DropEntry, Starts, Goes, TypeOK, service, catalog, mounted, history
      <2>7. CASE CalendarsDelete(c)
            BY <2>7 DEF CalendarsDelete, Unanswered, Returns, Goes, TypeOK, catalog, mounted
      <2>8. CASE Unregister(c)
            BY <2>8 DEF Unregister, Goes, TypeOK, service, catalog, mounted, history
      <2> QED
            BY <1>6, <2>1, <2>2, <2>3, <2>4, <2>5, <2>6, <2>7, <2>8 DEF Statement
<1>7. CASE UNCHANGED vars
      BY <1>7 DEF vars, service, catalog, mounted, history, statement, TypeOK
<1> QED
    BY <1>1, <1>2, <1>3, <1>4, <1>5, <1>6, <1>7 DEF Next

-----------------------------------------------------------------------------
LEMMA InitOwn == Init => OwnInv
BY DEF Init, OwnInv

\* A step of one connection leaves what the others hold alone.
LEMMA StatementOwn ==
    ASSUME TypeOK, OwnInv, NEW c \in Conns, Statement(c)
    PROVE  OwnInv'
<1>1. CASE PlanCreateTableAs(c)
      BY <1>1 DEF PlanCreateTableAs, Starts, Goes, TypeOK, OwnInv, mounted, history
<1>2. CASE CalendarsInsert(c)
      BY <1>2 DEF CalendarsInsert, Unanswered, Returns, Goes, TypeOK, OwnInv, mounted
<1>3. CASE Register(c)
      BY <1>3 DEF Register, Goes, TypeOK, OwnInv
<1>4. CASE LookupEntry(c)
      BY <1>4 DEF LookupEntry, Starts, Goes, TypeOK, OwnInv, mounted, history
<1>5. CASE GetGlobalSinkState(c)
      BY <1>5 DEF GetGlobalSinkState, Goes, TypeOK, OwnInv, mounted, history
<1>6. CASE DropEntry(c)
      BY <1>6 DEF DropEntry, Starts, Goes, TypeOK, OwnInv, mounted, history
<1>7. CASE CalendarsDelete(c)
      BY <1>7 DEF CalendarsDelete, Unanswered, Returns, Goes, TypeOK, OwnInv, mounted
<1>8. CASE Unregister(c)
      BY <1>8 DEF Unregister, Goes, TypeOK, OwnInv, mounted, history
<1> QED
    BY <1>1, <1>2, <1>3, <1>4, <1>5, <1>6, <1>7, <1>8 DEF Statement

LEMMA StepOwn == TypeOK /\ OwnInv /\ [Next]_vars => OwnInv'
<1> SUFFICES ASSUME TypeOK, OwnInv, [Next]_vars
             PROVE  OwnInv'
    OBVIOUS
<1>1. CASE Attach
      BY <1>1 DEF Attach, OwnInv
<1>2. CASE LoadCalendar \/ LoadEnds \/ Detach
      BY <1>2 DEF LoadCalendar, LoadEnds, Detach, OwnInv, mounted, history, statement
<1>3. CASE OtherDeletes
      BY <1>3 DEF OtherDeletes, OwnInv, mounted, statement
<1>4. CASE \E c \in Conns : Statement(c)
      BY <1>4, StatementOwn
<1>5. CASE UNCHANGED vars
      BY <1>5 DEF vars, mounted, history, statement, OwnInv
<1> QED
    BY <1>1, <1>2, <1>3, <1>4, <1>5 DEF Next

\* Every variable keeps its type, and no request is attempted more often than
\* RetryConfig::max_attempts allows.
THEOREM TypeCorrect == Spec => []TypeOK
<1>1. Init => TypeOK /\ OwnInv
      BY InitType, InitOwn
<1>2. TypeOK /\ OwnInv /\ [Next]_vars => (TypeOK /\ OwnInv)'
      BY StepType, StepOwn
<1> QED
    BY <1>1, <1>2, PTL DEF Spec

\* DROP TABLE never deletes a calendar that this attachment did not create, however
\* many connections create, replace and drop tables, and whatever answers are lost.
THEOREM OnlyOwnDropped == Spec => []DropsOnlyOwn
<1>1. Init => OwnInv
      BY InitOwn
<1>2. TypeOK /\ OwnInv /\ [Next]_vars => OwnInv'
      BY StepOwn
<1>3. OwnInv => DropsOnlyOwn
      BY DEF OwnInv, DropsOnlyOwn
<1> QED
    BY <1>1, <1>2, <1>3, TypeCorrect, PTL DEF Spec

-----------------------------------------------------------------------------
(***************************************************************************)
(* A successful DROP leaves nothing behind because a calendar that this     *)
(* attachment made has one table at most, and none before it is registered. *)
(* MountInv says that; DropInv follows the DROP through its steps.          *)
(***************************************************************************)
Pending(c) == pc[c] = "register"

MountInv ==
    /\ calendars \subseteq used
    /\ ours \subseteq used
    /\ \A n \in Names : tables[n] \in used \cup {None}
    /\ phase # "attached" => \A c \in Conns : AtRest(c)
    /\ phase = "loading" => ours = {}
    /\ \A n, m \in Names : tables[n] = tables[m] /\ tables[n] \in ours => n = m
    /\ \A c \in Conns, n \in Names : Pending(c) => tables[n] # held[c]
    /\ \A c, d \in Conns : Pending(c) /\ Pending(d) /\ held[c] = held[d] => c = d
    /\ created \cap {held[c] : c \in {d \in Conns : Pending(d)}} = {}

DropInv ==
    \A c \in Conns :
        /\ pc[c] \in {"unregister", "dropped"} => held[c] \notin calendars
        /\ pc[c] \in {"delete", "unregister", "dropped"} =>
              /\ held[c] \in used
              /\ \A d \in Conns : Pending(d) => held[d] # held[c]
        /\ pc[c] = "dropped" =>
              /\ held[c] \notin created
              /\ \A n \in Names : tables[n] # held[c]

LEMMA InitMount == Init => MountInv /\ DropInv
BY CatalogAssumption DEF Init, MountInv, DropInv, Pending, AtRest

\* Nobody's statement has moved, and the tables and the calendars are as before.
LEMMA StillMount ==
    ASSUME TypeOK, OwnInv, MountInv, DropInv, NEW c \in Conns, Statement(c),
           UNCHANGED <<calendars, used, ours, tables, created>>,
           \A d \in Conns \ {c} : pc'[d] = pc[d] /\ held'[d] = held[d],
           pc'[c] \notin {"register", "delete", "unregister", "dropped"}
    PROVE  MountInv' /\ DropInv'
<1>1. phase = "attached" /\ phase' = phase
      BY DEF Statement, PlanCreateTableAs, CalendarsInsert, Register, LookupEntry,
             GetGlobalSinkState, DropEntry, CalendarsDelete, Unregister, Starts, catalog,
             MountInv, AtRest
<1>2. \A d \in Conns : Pending(d)' => Pending(d) /\ held'[d] = held[d]
      BY DEF Pending
<1>3. \A d \in Conns : pc'[d] \in {"delete", "unregister", "dropped"} => pc'[d] = pc[d] /\ held'[d] = held[d]
      OBVIOUS
<1>4. MountInv'
      BY <1>1, <1>2 DEF MountInv
<1>5. DropInv'
      BY <1>2, <1>3 DEF DropInv
<1> QED
    BY <1>4, <1>5

\* A calendar just made is unknown to every statement and every table.
LEMMA InsertMount ==
    ASSUME TypeOK, OwnInv, MountInv, DropInv, NEW c \in Conns, CalendarsInsert(c)
    PROVE  MountInv' /\ DropInv'
<1>1. CASE /\ Unanswered(c)
           /\ UNCHANGED <<calendars, used, ours, held>>
      BY <1>1, StillMount DEF CalendarsInsert, Unanswered, Returns, Goes, mounted, TypeOK, Statement
<1>2. CASE \E k \in Cals \ used :
              /\ calendars' = calendars \cup {k}
              /\ used' = used \cup {k}
              /\ ours' = ours \cup {k}
              /\ \/ Returns(c, "register") /\ held' = [held EXCEPT ![c] = k]
                 \/ Unanswered(c) /\ UNCHANGED held
      <2>1. PICK k \in Cals \ used :
                /\ calendars' = calendars \cup {k}
                /\ used' = used \cup {k}
                /\ ours' = ours \cup {k}
                /\ \/ Returns(c, "register") /\ held' = [held EXCEPT ![c] = k]
                   \/ Unanswered(c) /\ UNCHANGED held
            BY <1>2
      <2>2. UNCHANGED <<phase, tables, created>> /\ phase = "attached"
            BY DEF CalendarsInsert, catalog, mounted, MountInv, AtRest
      <2>3. /\ \A d \in Conns \ {c} : pc'[d] = pc[d] /\ held'[d] = held[d]
            /\ pc'[c] \in {"register", "failed", "post"}
            /\ pc'[c] = "register" => held'[c] = k
            BY <2>1 DEF CalendarsInsert, Unanswered, Returns, Goes, TypeOK
      <2>4. /\ \A n \in Names : tables[n] # k
            /\ k \notin created
            /\ \A d \in Conns : Pending(d) => held[d] # k
            /\ \A d \in Conns : pc[d] \in {"delete", "unregister", "dropped"} => held[d] # k
            BY CatalogAssumption DEF MountInv, DropInv, OwnInv, Pending, Names
      <2>5. \A d \in Conns : Pending(d)' =>
                \/ d = c /\ held'[d] = k
                \/ Pending(d) /\ held'[d] = held[d]
            BY <2>3 DEF Pending
      <2>6. MountInv'
            BY <2>1, <2>2, <2>4, <2>5 DEF MountInv
      <2>7. DropInv'
            BY <2>1, <2>2, <2>3, <2>4, <2>5 DEF DropInv
      <2> QED
          BY <2>6, <2>7
<1> QED
    BY <1>1, <1>2 DEF CalendarsInsert, service

LEMMA RegisterMount ==
    ASSUME TypeOK, OwnInv, MountInv, DropInv, NEW c \in Conns, Register(c)
    PROVE  MountInv' /\ DropInv'
<1>1. /\ Pending(c) /\ name[c] \in Names /\ held[c] \in ours
      /\ tables' = [tables EXCEPT ![name[c]] = held[c]]
      /\ created' = created \cup {held[c]}
      /\ UNCHANGED <<calendars, used, ours, phase, held>>
      /\ pc' = [pc EXCEPT ![c] = "bound"]
      BY DEF Register, Goes, service, catalog, Pending, OwnInv
<1>2. \A d \in Conns : Pending(d)' => Pending(d) /\ d # c /\ held[d] # held[c]
      BY <1>1 DEF Pending, MountInv, TypeOK
<1>3. \A n \in Names : tables'[n] = IF n = name[c] THEN held[c] ELSE tables[n]
      BY <1>1 DEF TypeOK
<1>4. phase' = "attached"
      BY <1>1 DEF MountInv, AtRest, Pending
<1>5. MountInv'
      BY <1>1, <1>2, <1>3, <1>4 DEF MountInv
<1>6. DropInv'
      BY <1>1, <1>2, <1>3 DEF DropInv, Pending, TypeOK
<1> QED
    BY <1>5, <1>6

LEMMA DeleteMount ==
    ASSUME TypeOK, OwnInv, MountInv, DropInv, NEW c \in Conns, CalendarsDelete(c)
    PROVE  MountInv' /\ DropInv'
<1>1. /\ pc[c] = "delete" /\ held[c] \in ours
      /\ UNCHANGED <<used, ours, phase, tables, created, held>>
      /\ calendars' \subseteq calendars
      /\ pc'[c] \in {"delete", "unregister", "failed"}
      /\ pc'[c] = "unregister" => held[c] \notin calendars'
      /\ \A d \in Conns \ {c} : pc'[d] = pc[d]
      BY DEF CalendarsDelete, Unanswered, Returns, Goes, catalog, mounted, OwnInv, TypeOK
<1>2. phase' = "attached"
      BY <1>1 DEF MountInv, AtRest
<1>3. \A d \in Conns : Pending(d)' => Pending(d)
      BY <1>1 DEF Pending
<1>4. MountInv'
      BY <1>1, <1>2, <1>3 DEF MountInv
<1>5. DropInv'
      BY <1>1, <1>3 DEF DropInv, MountInv
<1> QED
    BY <1>4, <1>5

LEMMA UnregisterMount ==
    ASSUME TypeOK, OwnInv, MountInv, DropInv, NEW c \in Conns, Unregister(c)
    PROVE  MountInv' /\ DropInv'
<1>1. CASE ~Alive(c)
      BY <1>1, StillMount DEF Unregister, Goes, service, mounted, history, TypeOK, Statement
<1>2. CASE Alive(c)
      <2>1. /\ pc[c] = "unregister" /\ name[c] \in Names /\ held[c] \in ours
            /\ tables' = [tables EXCEPT ![name[c]] = None]
            /\ created' = created \ {held[c]}
            /\ UNCHANGED <<calendars, used, ours, phase, held>>
            /\ pc' = [pc EXCEPT ![c] = "dropped"]
            BY <1>2 DEF Unregister, Goes, service, catalog, history, OwnInv
      <2>2. phase' = "attached"
            BY <2>1 DEF MountInv, AtRest
      <2>3. \A d \in Conns : Pending(d)' => Pending(d)
            BY <2>1 DEF Pending, TypeOK
      <2>4. \A n \in Names : tables'[n] = IF n = name[c] THEN None ELSE tables[n]
            BY <2>1 DEF TypeOK
      <2>5. None \notin ours /\ \A d \in Conns : Pending(d) => held[d] # None
            BY CatalogAssumption DEF TypeOK, Names, OwnInv, Pending
      <2>6. MountInv'
            BY <2>1, <2>2, <2>3, <2>4, <2>5 DEF MountInv
      <2>7. \A n \in Names : tables'[n] # held[c]
            BY <1>2, <2>1, <2>4, <2>5 DEF MountInv, Alive
      <2>8. DropInv'
            BY <2>1, <2>3, <2>4, <2>7, CatalogAssumption DEF DropInv, TypeOK, Names
      <2> QED
          BY <2>6, <2>8
<1> QED
    BY <1>1, <1>2

\* What DROP finds is remembered, so nobody is about to register it.
LEMMA DropMount ==
    ASSUME TypeOK, OwnInv, MountInv, DropInv, NEW c \in Conns, DropEntry(c)
    PROVE  MountInv' /\ DropInv'
<1>1. CASE pc'[c] # "delete"
      BY <1>1, StillMount DEF DropEntry, Starts, Goes, service, mounted, history, TypeOK, Statement
<1>2. CASE pc'[c] = "delete"
      <2>1. /\ UNCHANGED <<calendars, used, ours, phase, tables, created>>
            /\ phase = "attached"
            /\ held'[c] \in created
            /\ \A d \in Conns \ {c} : pc'[d] = pc[d] /\ held'[d] = held[d]
            BY <1>2 DEF DropEntry, Starts, Goes, service, catalog, mounted, history, TypeOK
      <2>2. \A d \in Conns : Pending(d)' => Pending(d) /\ held'[d] = held[d] /\ d # c
            BY <1>2, <2>1 DEF Pending
      <2>3. \A d \in Conns : Pending(d) => held[d] \notin created
            BY DEF MountInv
      <2>4. MountInv'
            BY <2>1, <2>2 DEF MountInv
      <2>5. DropInv'
            BY <1>2, <2>1, <2>2, <2>3 DEF DropInv, OwnInv, MountInv
      <2> QED
          BY <2>4, <2>5
<1> QED
    BY <1>1, <1>2

LEMMA StatementMount ==
    ASSUME TypeOK, OwnInv, MountInv, DropInv, NEW c \in Conns, Statement(c)
    PROVE  MountInv' /\ DropInv'
<1>1. CASE PlanCreateTableAs(c)
      BY <1>1, StillMount DEF PlanCreateTableAs, Starts, Goes, service, mounted, history, TypeOK
<1>2. CASE LookupEntry(c)
      BY <1>2, StillMount DEF LookupEntry, Starts, Goes, service, mounted, history, TypeOK
<1>3. CASE GetGlobalSinkState(c)
      BY <1>3, StillMount DEF GetGlobalSinkState, Goes, service, mounted, history, TypeOK
<1>4. CASE DropEntry(c)
      BY <1>4, DropMount
<1> QED
    BY <1>1, <1>2, <1>3, <1>4, InsertMount, RegisterMount, DeleteMount, UnregisterMount DEF Statement

LEMMA StepMount == TypeOK /\ OwnInv /\ MountInv /\ DropInv /\ [Next]_vars => (MountInv /\ DropInv)'
<1> SUFFICES ASSUME TypeOK, OwnInv, MountInv, DropInv, [Next]_vars
             PROVE  MountInv' /\ DropInv'
    OBVIOUS
<1>1. CASE Attach
      BY <1>1, CatalogAssumption DEF Attach, MountInv, DropInv, Pending, AtRest, service, TypeOK, Names
<1>2. CASE LoadCalendar
      <2>1. PICK k \in calendars : tables' = [n \in Names |-> IF n \in TableNames(k) THEN k ELSE tables[n]]
            BY <1>2 DEF LoadCalendar
      <2>2. \A d \in Conns : AtRest(d) /\ ~Pending(d) /\ pc[d] # "unregister"
            BY <1>2 DEF LoadCalendar, MountInv, AtRest, Pending
      <2> QED
          BY <1>2, <2>1, <2>2 DEF LoadCalendar, MountInv, DropInv, Pending, AtRest, service, history, statement
<1>3. CASE LoadEnds \/ Detach
      BY <1>3 DEF LoadEnds, Detach, MountInv, DropInv, Pending, AtRest, service, mounted, history, statement
<1>4. CASE OtherDeletes
      BY <1>4 DEF OtherDeletes, MountInv, DropInv, Pending, AtRest, catalog, mounted, statement
<1>5. CASE \E c \in Conns : Statement(c)
      BY <1>5, StatementMount
<1>6. CASE UNCHANGED vars
      BY <1>6 DEF vars, service, catalog, mounted, history, statement, MountInv, DropInv, Pending, AtRest
<1> QED
    BY <1>1, <1>2, <1>3, <1>4, <1>5, <1>6 DEF Next

\* When DROP TABLE has succeeded the calendar is gone, is not remembered and has no
\* table, whatever other connections have created, replaced or dropped meanwhile.
THEOREM DropComplete == Spec => []DropTakesEffect
<1>1. Init => TypeOK /\ OwnInv /\ MountInv /\ DropInv
      BY InitType, InitOwn, InitMount
<1>2. TypeOK /\ OwnInv /\ MountInv /\ DropInv /\ [Next]_vars
          => (TypeOK /\ OwnInv /\ MountInv /\ DropInv)'
      BY StepType, StepOwn, StepMount
<1>3. DropInv => DropTakesEffect
      BY DEF DropInv, DropTakesEffect
<1> QED
    BY <1>1, <1>2, <1>3, PTL DEF Spec

-----------------------------------------------------------------------------
(***************************************************************************)
(* Where MountInv and DropInv hold, CanCleanUp is inductive: what a DROP    *)
(* unmounts and forgets is a calendar that is gone.                         *)
(***************************************************************************)
LEMMA StatementClean ==
    ASSUME TypeOK, OwnInv, MountInv, DropInv, CanCleanUp, NEW c \in Conns, Statement(c)
    PROVE  CanCleanUp'
<1>1. CASE PlanCreateTableAs(c)
      BY <1>1 DEF PlanCreateTableAs, Starts, Goes, AtRest, CanCleanUp, TypeOK, service, mounted, history
<1>2. CASE CalendarsInsert(c)
      BY <1>2 DEF CalendarsInsert, Unanswered, Returns, Goes, CanCleanUp, TypeOK, service, mounted
<1>3. CASE Register(c)
      <2>1. /\ Pending(c) /\ name[c] \in Names /\ held[c] \in Cals
            /\ UNCHANGED <<calendars, ours, lost, held>>
            /\ pc' = [pc EXCEPT ![c] = "bound"]
            BY <1>3 DEF Register, Goes, service, Pending, OwnInv, TypeOK
      <2>2. /\ \A n \in Names : tables'[n] = IF n = name[c] THEN held[c] ELSE tables[n]
            /\ replaced' = replaced \cup ({tables[name[c]]} \ {None})
            /\ created' = created \cup {held[c]}
            BY <1>3 DEF Register, TypeOK
      <2>3. ASSUME NEW k \in ours \cap calendars
            PROVE  \/ k \in lost \cup replaced'
                   \/ k \in created' /\ \E n \in Names : tables'[n] = k
                   \/ \E d \in Conns : pc'[d] = "register" /\ held[d] = k
            <3>1. k # None
                  BY CatalogAssumption DEF TypeOK, Names
            <3>2. CASE k = held[c]
                  BY <2>1, <2>2, <3>2
            <3>3. CASE k # held[c] /\ \E d \in Conns : pc[d] = "register" /\ held[d] = k
                  <4>1. PICK d \in Conns : pc[d] = "register" /\ held[d] = k
                        BY <3>3
                  <4>2. pc'[d] = "register"
                        BY <2>1, <3>3, <4>1 DEF TypeOK
                  <4> QED
                      BY <4>1, <4>2
            <3>4. CASE k \in created /\ \E n \in Names : tables[n] = k
                  <4>1. PICK n \in Names : tables[n] = k
                        BY <3>4
                  <4> QED
                      BY <2>2, <3>1, <3>4, <4>1
            <3>5. CASE k \in lost \cup replaced
                  BY <2>2, <3>5
            <3> QED
                BY <3>2, <3>3, <3>4, <3>5 DEF CanCleanUp
      <2> QED
          BY <2>1, <2>3 DEF CanCleanUp
<1>4. CASE LookupEntry(c)
      BY <1>4 DEF LookupEntry, Starts, Goes, AtRest, CanCleanUp, TypeOK, service, mounted, history
<1>5. CASE GetGlobalSinkState(c)
      BY <1>5 DEF GetGlobalSinkState, Goes, CanCleanUp, TypeOK, service, mounted, history
<1>6. CASE DropEntry(c)
      BY <1>6 DEF DropEntry, Starts, Goes, AtRest, CanCleanUp, TypeOK, service, mounted, history
<1>7. CASE CalendarsDelete(c)
      BY <1>7 DEF CalendarsDelete, Unanswered, Returns, Goes, CanCleanUp, TypeOK, mounted
<1>8. CASE Unregister(c)
      <2>1. /\ pc[c] = "unregister" /\ held[c] \notin calendars
            /\ UNCHANGED <<calendars, ours, lost, replaced, held>>
            /\ \A d \in Conns : pc[d] = "register" => pc'[d] = "register"
            BY <1>8 DEF Unregister, Goes, DropInv, TypeOK, service, history
      <2>2. /\ created' = created \/ created' = created \ {held[c]}
            /\ \A n \in Names : tables'[n] = tables[n] \/ tables[n] = held[c]
            BY <1>8 DEF Unregister, Alive, TypeOK, mounted
      <2>3. ASSUME NEW k \in ours \cap calendars, k \in created, NEW n \in Names, tables[n] = k
            PROVE  k \in created' /\ tables'[n] = k
            BY <2>1, <2>2, <2>3
      <2> QED
          BY <2>1, <2>3 DEF CanCleanUp
<1> QED
    BY <1>1, <1>2, <1>3, <1>4, <1>5, <1>6, <1>7, <1>8 DEF Statement

LEMMA StepClean == TypeOK /\ OwnInv /\ MountInv /\ DropInv /\ CanCleanUp /\ [Next]_vars => CanCleanUp'
<1> SUFFICES ASSUME TypeOK, OwnInv, MountInv, DropInv, CanCleanUp, [Next]_vars
             PROVE  CanCleanUp'
    OBVIOUS
<1>1. CASE Attach
      BY <1>1 DEF Attach, CanCleanUp
<1>2. CASE LoadCalendar
      BY <1>2 DEF LoadCalendar, MountInv, CanCleanUp, history
<1>3. CASE LoadEnds \/ Detach
      BY <1>3 DEF LoadEnds, Detach, CanCleanUp, service, mounted, history, statement
<1>4. CASE OtherDeletes
      BY <1>4 DEF OtherDeletes, CanCleanUp, mounted, statement
<1>5. CASE \E c \in Conns : Statement(c)
      BY <1>5, StatementClean
<1>6. CASE UNCHANGED vars
      BY <1>6 DEF vars, service, mounted, history, statement, CanCleanUp
<1> QED
    BY <1>1, <1>2, <1>3, <1>4, <1>5, <1>6 DEF Next

\* A calendar that this attachment made can be dropped by it for as long as it is
\* there, whatever the connections do meanwhile, unless its POST was not acknowledged
\* or another CREATE TABLE took its table over.
THEOREM CleanUpPossible == Spec => []CanCleanUp
<1>1. Init => TypeOK /\ OwnInv /\ MountInv /\ DropInv /\ CanCleanUp
      BY InitType, InitOwn, InitMount DEF Init, CanCleanUp
<1>2. TypeOK /\ OwnInv /\ MountInv /\ DropInv /\ CanCleanUp /\ [Next]_vars
          => (TypeOK /\ OwnInv /\ MountInv /\ DropInv /\ CanCleanUp)'
      BY StepType, StepOwn, StepMount, StepClean
<1> QED
    BY <1>1, <1>2, PTL DEF Spec

-----------------------------------------------------------------------------
(***************************************************************************)
(* GhostsExplained needs to know of the two statements under way: a         *)
(* calendar about to be mounted has not been deleted by this attachment,    *)
(* and one about to be unmounted has no table but the statement's.          *)
(***************************************************************************)
UnderWay ==
    /\ \A c \in Conns : Pending(c) => held[c] \in calendars \cup byOthers
    /\ \A c \in Conns, n \in Names :
          pc[c] \in {"delete", "unregister"} /\ tables[n] = held[c] => n = name[c]

\* What a table that leads to calendar k is excused by.
Explained(k) ==
    \/ k \in calendars \cup byOthers \cup untold
    \/ \E c \in Conns : pc[c] = "unregister" /\ held[c] = k

\* The tables there were keep an excuse, and a new one has one.
LEMMA StillExplained ==
    ASSUME GhostsExplained,
           \A n \in Names, k \in Cals :
               tables'[n] = k /\ (tables[n] = k => Explained(k)) => Explained(k)',
           \A n \in Names : tables'[n] \in Cals \cup {None}
    PROVE  GhostsExplained'
<1> SUFFICES ASSUME NEW n \in Names, NEW k \in Cals, tables'[n] = k
             PROVE  Explained(k)'
    BY DEF GhostsExplained, Explained
<1>1. tables[n] = k /\ k # None => Explained(k)
      BY DEF GhostsExplained, Explained
<1>2. k # None
      BY CatalogAssumption DEF Names
<1> QED
    BY <1>1, <1>2

LEMMA StatementGhosts ==
    ASSUME TypeOK, OwnInv, MountInv, DropInv, UnderWay, GhostsExplained,
           NEW c \in Conns, Statement(c), TypeOK'
    PROVE  UnderWay' /\ GhostsExplained'
<1>0. \A n \in Names : tables'[n] \in Cals \cup {None}
      BY DEF TypeOK
<1>1. CASE PlanCreateTableAs(c)
      <2>1. UNCHANGED <<service, mounted, history, held>> /\ AtRest(c)
            BY <1>1 DEF PlanCreateTableAs, Starts
      <2>2. /\ \A d \in Conns \ {c} : pc'[d] = pc[d] /\ name'[d] = name[d]
            /\ pc'[c] \in {"post", "failed"}
            BY <1>1 DEF PlanCreateTableAs, Starts, Goes, TypeOK
      <2>3. UnderWay'
            BY <2>1, <2>2 DEF UnderWay, Pending, service, mounted, history
      <2>4. GhostsExplained'
            BY <2>1, <2>2 DEF AtRest, GhostsExplained, service, mounted, history
      <2> QED
          BY <2>3, <2>4
<1>2. CASE CalendarsInsert(c)
      <2>1. /\ calendars \subseteq calendars'
            /\ UNCHANGED <<tables, byOthers, untold, name>>
            /\ pc[c] = "post"
            BY <1>2 DEF CalendarsInsert, mounted, service
      <2>2. /\ \A d \in Conns \ {c} : pc'[d] = pc[d] /\ held'[d] = held[d]
            /\ pc'[c] \in {"register", "post", "failed"}
            /\ pc'[c] = "register" => held'[c] \in calendars'
            BY <1>2 DEF CalendarsInsert, Unanswered, Returns, Goes, TypeOK
      <2>3. UnderWay'
            BY <2>1, <2>2 DEF UnderWay, Pending
      <2>4. GhostsExplained'
            BY <2>1, <2>2 DEF GhostsExplained
      <2> QED
          BY <2>3, <2>4
<1>3. CASE Register(c)
      <2>1. /\ Pending(c) /\ name[c] \in Names
            /\ UNCHANGED <<calendars, byOthers, untold, held, name>>
            /\ \A d \in Conns \ {c} : pc'[d] = pc[d]
            /\ pc'[c] = "bound"
            BY <1>3 DEF Register, Goes, service, Pending, OwnInv, TypeOK
      <2>2. \A n \in Names : tables'[n] = IF n = name[c] THEN held[c] ELSE tables[n]
            BY <1>3 DEF Register, TypeOK
      <2>3. \A d \in Conns : pc[d] \in {"delete", "unregister"} => held[d] # held[c]
            BY <2>1 DEF DropInv
      <2>4. UnderWay'
            BY <2>1, <2>2, <2>3 DEF UnderWay, Pending
      <2>5. GhostsExplained'
            BY <1>0, <2>1, <2>2, StillExplained DEF UnderWay, Pending, Explained
      <2> QED
          BY <2>4, <2>5
<1>4. CASE LookupEntry(c) \/ GetGlobalSinkState(c)
      <2>1. UNCHANGED <<service, mounted, history>> /\ pc[c] # "unregister"
            BY <1>4 DEF LookupEntry, GetGlobalSinkState, Starts, AtRest
      <2>2. /\ \A d \in Conns \ {c} : pc'[d] = pc[d] /\ name'[d] = name[d] /\ held'[d] = held[d]
            /\ pc'[c] \in {"bound", "done", "failed", "undefined"}
            BY <1>4 DEF LookupEntry, GetGlobalSinkState, Starts, Goes, TypeOK
      <2>3. UnderWay'
            BY <2>1, <2>2 DEF UnderWay, Pending, service, mounted, history
      <2>4. GhostsExplained'
            BY <2>1, <2>2 DEF GhostsExplained, service, mounted, history
      <2> QED
          BY <2>3, <2>4
<1>5. CASE DropEntry(c)
      <2>1. UNCHANGED <<service, mounted, history>> /\ pc[c] # "unregister"
            BY <1>5 DEF DropEntry, Starts, AtRest
      <2>2. /\ \A d \in Conns \ {c} : pc'[d] = pc[d] /\ name'[d] = name[d] /\ held'[d] = held[d]
            /\ pc'[c] \in {"delete", "done", "failed"}
            /\ pc'[c] = "delete" => name'[c] \in Names /\ held'[c] = tables[name'[c]] /\ held'[c] \in created
            BY <1>5 DEF DropEntry, Starts, Goes, TypeOK
      <2>3. pc'[c] = "delete" => \A n \in Names : tables[n] = held'[c] => n = name'[c]
            BY <2>2 DEF MountInv, OwnInv
      <2>4. UnderWay'
            BY <2>1, <2>2, <2>3 DEF UnderWay, Pending, service, mounted, history
      <2>5. GhostsExplained'
            BY <2>1, <2>2 DEF GhostsExplained, service, mounted, history
      <2> QED
          BY <2>4, <2>5
<1>6. CASE CalendarsDelete(c)
      <2>1. /\ pc[c] = "delete"
            /\ UNCHANGED <<tables, byOthers, name, held>>
            /\ \A d \in Conns \ {c} : pc'[d] = pc[d]
            /\ pc'[c] \in {"delete", "unregister", "failed"}
            BY <1>6 DEF CalendarsDelete, Unanswered, Returns, Goes, mounted, TypeOK
      <2>2. \/ UNCHANGED <<calendars, untold>>
            \/ /\ calendars' = calendars \ {held[c]}
               /\ \/ pc'[c] = "unregister" /\ untold' = untold
                  \/ untold' = untold \cup {held[c]}
            BY <1>6 DEF CalendarsDelete, Returns, Goes, TypeOK
      <2>3. \A d \in Conns : Pending(d)' => Pending(d) /\ held[d] # held[c]
            BY <2>1 DEF DropInv, Pending
      <2>4. UnderWay'
            BY <2>1, <2>2, <2>3 DEF UnderWay
      <2>5. ASSUME NEW k, Explained(k)
            PROVE  Explained(k)'
            BY <2>1, <2>2, <2>5 DEF Explained
      <2>6. GhostsExplained'
            BY <1>0, <2>1, <2>5, StillExplained
      <2> QED
          BY <2>4, <2>6
<1>7. CASE Unregister(c)
      <2>1. /\ pc[c] = "unregister" /\ name[c] \in Names
            /\ UNCHANGED <<calendars, byOthers, untold, name, held>>
            /\ \A d \in Conns \ {c} : pc'[d] = pc[d]
            /\ pc'[c] \in {"dropped", "undefined"}
            BY <1>7 DEF Unregister, Goes, service, history, OwnInv, TypeOK
      <2>2. \A n \in Names : tables'[n] # None => tables'[n] = tables[n] /\ tables[n] # held[c]
            BY <1>7, <2>1 DEF Unregister, Alive, UnderWay, TypeOK, mounted
      <2>3. \A d \in Conns : pc[d] \in {"delete", "unregister"} => held[d] # None
            BY CatalogAssumption DEF OwnInv, TypeOK, Names
      <2>4. UnderWay'
            BY <2>1, <2>2, <2>3 DEF UnderWay, Pending
      <2>5. ASSUME NEW k, k # held[c], Explained(k)
            PROVE  Explained(k)'
            BY <2>1, <2>5 DEF Explained
      <2>6. GhostsExplained'
            BY <1>0, <2>2, <2>5, StillExplained, CatalogAssumption DEF Names
      <2> QED
          BY <2>4, <2>6
<1> QED
    BY <1>1, <1>2, <1>3, <1>4, <1>5, <1>6, <1>7 DEF Statement

LEMMA StepGhosts ==
    TypeOK /\ OwnInv /\ MountInv /\ DropInv /\ UnderWay /\ GhostsExplained /\ [Next]_vars
        => (UnderWay /\ GhostsExplained)'
<1> SUFFICES ASSUME TypeOK, OwnInv, MountInv, DropInv, UnderWay, GhostsExplained, [Next]_vars
             PROVE  UnderWay' /\ GhostsExplained'
    OBVIOUS
<1>0. TypeOK'
      BY StepType
<1>1. CASE Attach
      BY <1>1 DEF Attach, UnderWay, GhostsExplained, Pending
<1>2. CASE LoadCalendar
      <2>0. \A n \in Names : tables'[n] \in Cals \cup {None}
            BY <1>0 DEF TypeOK
      <2>1. /\ \A d \in Conns : AtRest(d)
            /\ UNCHANGED <<service, history, statement>>
            BY <1>2 DEF LoadCalendar, MountInv
      <2>2. \A n \in Names : tables'[n] = tables[n] \/ tables'[n] \in calendars
            BY <1>2 DEF LoadCalendar
      <2>3. UnderWay'
            BY <2>1 DEF UnderWay, AtRest, Pending, statement
      <2>4. GhostsExplained'
            BY <2>0, <2>1, <2>2, StillExplained DEF Explained, service, history, statement
      <2> QED
          BY <2>3, <2>4
<1>3. CASE LoadEnds \/ Detach
      BY <1>3 DEF LoadEnds, Detach, UnderWay, GhostsExplained, Pending, service, mounted, history, statement
<1>4. CASE OtherDeletes
      <2>1. /\ UNCHANGED <<tables, untold, statement>>
            /\ calendars \cup byOthers \subseteq calendars' \cup byOthers'
            BY <1>4 DEF OtherDeletes, mounted
      <2>2. UnderWay'
            BY <2>1 DEF UnderWay, Pending, statement
      <2>3. GhostsExplained'
            BY <2>1 DEF GhostsExplained, statement
      <2> QED
          BY <2>2, <2>3
<1>5. CASE \E c \in Conns : Statement(c)
      BY <1>0, <1>5, StatementGhosts
<1>6. CASE UNCHANGED vars
      BY <1>6 DEF vars, service, mounted, history, statement, UnderWay, Pending, GhostsExplained
<1> QED
    BY <1>1, <1>2, <1>3, <1>4, <1>5, <1>6 DEF Next

\* No table leads to a calendar that is gone, but for the three reasons named: a
\* deletion elsewhere, a DROP between its request and its unmounting, and a DROP
\* whose answer was lost.
THEOREM GhostsAccountedFor == Spec => []GhostsExplained
<1>1. Init => TypeOK /\ OwnInv /\ MountInv /\ DropInv /\ UnderWay /\ GhostsExplained
      BY InitType, InitOwn, InitMount DEF Init, UnderWay, GhostsExplained, Pending
<1>2. TypeOK /\ OwnInv /\ MountInv /\ DropInv /\ UnderWay /\ GhostsExplained /\ [Next]_vars
          => (TypeOK /\ OwnInv /\ MountInv /\ DropInv /\ UnderWay /\ GhostsExplained)'
      BY StepType, StepOwn, StepMount, StepGhosts
<1> QED
    BY <1>1, <1>2, PTL DEF Spec

-----------------------------------------------------------------------------
(***************************************************************************)
(* ATTACH: as long as no statement has run, the tables are those of the     *)
(* calendars listed so far.                                                 *)
(***************************************************************************)
NoStatement == \A c \in Conns : pc[c] = "idle"

FreshInv ==
    phase # "detached" /\ NoStatement =>
        /\ \A n \in Names : tables[n] \in seen \cup {None}
        /\ NoClash => MountedAsNamed

\* Two calendars do not get the same table.
LEMMA LoadDisjoint ==
    ASSUME TypeOK, NoClash', NEW k \in Cals, seen' = seen \cup {k}, aliases' = aliases,
           NEW m \in seen, m # k, NEW n \in TableNames(k)
    PROVE  ~(aliases[n] = m \/ (n = m /\ \A l \in Names : aliases[l] # m))
BY CatalogAssumption DEF TypeOK, NoClash, TableNames, Aliased, Names

LEMMA LoadFresh ==
    ASSUME TypeOK, FreshInv, LoadCalendar
    PROVE  FreshInv'
<1> SUFFICES ASSUME NoStatement
             PROVE  /\ \A n \in Names : tables'[n] \in seen' \cup {None}
                    /\ NoClash' => MountedAsNamed'
    BY DEF LoadCalendar, FreshInv, NoStatement, statement
<1>1. PICK k \in calendars \ seen :
          /\ seen' = seen \cup {k}
          /\ tables' = [n \in Names |-> IF n \in TableNames(k) THEN k ELSE tables[n]]
      BY DEF LoadCalendar
<1>2. /\ aliases' = aliases /\ k \in Cals /\ k # None
      /\ \A n \in Names : tables[n] \in seen \cup {None}
      /\ NoClash => MountedAsNamed
      BY CatalogAssumption DEF LoadCalendar, FreshInv, TypeOK, Names
<1>3. ASSUME NoClash'
      PROVE  MountedAsNamed'
      <2>1. NoClash /\ MountedAsNamed
            BY <1>1, <1>2, <1>3 DEF NoClash
      <2>2. ASSUME NEW n \in Names
            PROVE  tables'[n] = k <=> aliases[n] = k \/ (n = k /\ \A m \in Names : aliases[m] # k)
            BY <1>1, <1>2 DEF TableNames, Aliased
      <2>3. ASSUME NEW m \in seen, NEW n \in Names
            PROVE  tables'[n] = m <=> aliases[n] = m \/ (n = m /\ \A l \in Names : aliases[l] # m)
            <3>1. CASE n \in TableNames(k)
                  BY <1>1, <1>2, <1>3, <2>3, <3>1, LoadDisjoint
            <3>2. CASE n \notin TableNames(k)
                  BY <1>1, <2>1, <2>3, <3>2 DEF MountedAsNamed
            <3> QED
                BY <3>1, <3>2
      <2> QED
          BY <1>1, <1>2, <2>2, <2>3 DEF MountedAsNamed
<1> QED
    BY <1>1, <1>2, <1>3

\* A statement that has been started is never taken for one that has not.
LEMMA StatementFresh ==
    ASSUME TypeOK, NEW c \in Conns, Statement(c)
    PROVE  ~NoStatement'
<1> SUFFICES pc'[c] # "idle"
    BY DEF NoStatement
<1> QED
    BY DEF Statement, PlanCreateTableAs, CalendarsInsert, Register, LookupEntry, GetGlobalSinkState,
           DropEntry, CalendarsDelete, Unregister, Unanswered, Returns, Starts, Goes, TypeOK

LEMMA StepFresh == TypeOK /\ FreshInv /\ [Next]_vars => FreshInv'
<1> SUFFICES ASSUME TypeOK, FreshInv, [Next]_vars
             PROVE  FreshInv'
    OBVIOUS
<1>1. CASE Attach
      BY <1>1 DEF Attach, FreshInv, MountedAsNamed
<1>2. CASE LoadCalendar
      BY <1>2, LoadFresh
<1>3. CASE LoadEnds \/ Detach
      BY <1>3 DEF LoadEnds, Detach, FreshInv, NoStatement, NoClash, MountedAsNamed, mounted, statement
<1>4. CASE OtherDeletes
      BY <1>4 DEF OtherDeletes, FreshInv, NoStatement, NoClash, MountedAsNamed, catalog, mounted, statement
<1>5. CASE \E c \in Conns : Statement(c)
      BY <1>5, StatementFresh DEF FreshInv
<1>6. CASE UNCHANGED vars
      BY <1>6 DEF vars, catalog, mounted, statement, FreshInv, NoStatement, NoClash, MountedAsNamed
<1> QED
    BY <1>1, <1>2, <1>3, <1>4, <1>5, <1>6 DEF Next

\* ATTACH mounts every calendar under its aliases, or else under its id, and nothing
\* else, in whatever order the service lists the calendars, provided that no alias
\* is the id of a calendar.
THEOREM AttachComplete == Spec => []AttachMountsAll
<1>1. Init => TypeOK /\ OwnInv /\ FreshInv
      BY InitType, InitOwn DEF Init, FreshInv
<1>2. TypeOK /\ OwnInv /\ FreshInv /\ [Next]_vars => (TypeOK /\ OwnInv /\ FreshInv)'
      BY StepType, StepOwn, StepFresh
<1>3. FreshInv => AttachMountsAll
      BY DEF FreshInv, AttachMountsAll, NoStatement
<1> QED
    BY <1>1, <1>2, <1>3, PTL DEF Spec
=============================================================================
