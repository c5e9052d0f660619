--------------------------- MODULE CalendarCatalog ---------------------------
(***************************************************************************)
(* The catalog of one attachment: ATTACH lists the calendars and mounts a   *)
(* table for each, CREATE TABLE ... AS makes a calendar and mounts it, DROP *)
(* TABLE deletes one that this attachment made, and every other statement   *)
(* looks a table up and later reads the calendar id from its entry.         *)
(*                                                                         *)
(* Several connections of a DuckDB process share the catalog, and neither   *)
(* `tables` nor `created_calendar_ids` has a lock: a statement's steps are  *)
(* interleaved at each request to the service, and between planning and     *)
(* execution.  A table entry is its name and its calendar; one that is no   *)
(* longer in `tables` has been destroyed, and a statement that then reads   *)
(* it has undefined behaviour, which ends its part in the model.            *)
(*                                                                         *)
(* Names and ids that differ only by case are the same name or id.          *)
(***************************************************************************)
EXTENDS Naturals

CONSTANTS
    Conns,          \* connections
    Cals,           \* calendar ids
    Labels,         \* other table names
    None,
    Seeds,          \* the possible sets of calendars at the start
    AliasMaps,      \* the calendar_aliases that ATTACH may be given
    MaxAttempts,    \* RetryConfig::max_attempts
    MaxStatements,  \* bound: statements run by one connection
    MaxAttaches     \* bound: attachments

\* A calendar id serves as a table name.
Names == Cals \cup Labels

ASSUME CatalogAssumption ==
    /\ None \notin Names
    /\ Seeds \subseteq SUBSET Cals
    /\ AliasMaps \subseteq [Names -> Cals \cup {None}]
    /\ MaxAttempts \in Nat \ {0} /\ MaxStatements \in Nat /\ MaxAttaches \in Nat

VARIABLES
    calendars,  \* the service: the user's calendars
    used,       \* the service: every id ever given out
    phase,      \* "detached", "loading", "attached"
    aliases,    \* calendar_aliases: name to calendar, or None
    seen,       \* seen_ids
    tables,     \* CalendarSchemaEntry::tables: name to calendar, or None
    created,    \* created_calendar_ids
    pc,         \* where each connection's statement is
    name,       \* the table it names
    held,       \* the calendar of the entry it holds, or that it has created
    attempt,    \* the loop counter of RetryingHttpClient::Execute
    nth,        \* statements each connection has run
    attaches,   \* attachments so far
    ours,       \* history: calendars made by requests of this attachment
    lost,       \* history: those whose POST was not acknowledged
    replaced,   \* history: calendars whose table another CREATE TABLE took over
    removed,    \* history: calendars deleted by requests of this attachment
    untold,     \* history: those whose DELETE was not acknowledged
    byOthers    \* history: calendars deleted by somebody else

service == <<calendars, used>>
catalog == <<phase, aliases, seen, attaches>>
mounted == <<tables, created>>
history == <<ours, lost, replaced, removed, untold, byOthers>>
statement == <<pc, name, held, attempt, nth>>
vars == <<service, catalog, mounted, history, statement>>

\* No statement of c runs.
AtRest(c) == pc[c] \in {"idle", "done", "dropped", "failed"}

-----------------------------------------------------------------------------
\* ATTACH and DETACH.

\* CalendarAttach: a new catalog, with the aliases it was given.
Attach ==
    /\ phase = "detached"
    /\ attaches < MaxAttaches
    /\ attaches' = attaches + 1
    /\ phase' = "loading"
    /\ aliases' \in AliasMaps
    /\ seen' = {}
    /\ tables' = [n \in Names |-> None]
    /\ created' = {}
    /\ ours' = {} /\ lost' = {} /\ replaced' = {} /\ removed' = {} /\ untold' = {} /\ byOthers' = {}
    /\ pc' = [c \in Conns |-> "idle"]
    /\ UNCHANGED <<service, name, held, attempt, nth>>

Aliased(k) == \E n \in Names : aliases[n] = k

\* The aliases are mounted beside the id.
Bug_TableNames(k) == {n \in Names : aliases[n] = k} \cup {k}

\* The tables a calendar gets: one for each alias, or else its id.
TableNames(k) == IF Aliased(k) THEN {n \in Names : aliases[n] = k} ELSE {k}

\* One calendar of a page of the calendar list; AddTable overwrites.
LoadCalendar ==
    /\ phase = "loading"
    /\ \E k \in calendars \ seen :
         /\ seen' = seen \cup {k}
         /\ tables' = [n \in Names |-> IF n \in TableNames(k) THEN k ELSE tables[n]]
    /\ UNCHANGED <<service, phase, aliases, attaches, created, history, statement>>

\* The last page is done.  An alias of a calendar that was not listed is an error,
\* as is any failure on the way: ATTACH fails and the catalog is thrown away.
LoadEnds ==
    /\ phase = "loading"
    /\ \/ /\ calendars \subseteq seen
          /\ \A n \in Names : aliases[n] \in seen \cup {None}
          /\ phase' = "attached"
       \/ phase' = "detached"
    /\ UNCHANGED <<service, aliases, seen, attaches, mounted, history, statement>>

\* DETACH, when no statement uses the catalog: created_calendar_ids goes with it.
Detach ==
    /\ phase = "attached"
    /\ \A c \in Conns : AtRest(c)
    /\ phase' = "detached"
    /\ UNCHANGED <<service, aliases, seen, attaches, mounted, history, statement>>

-----------------------------------------------------------------------------
\* Statements.

\* Connection c starts a statement about table n.
Starts(c, n) ==
    /\ phase = "attached"
    /\ AtRest(c)
    /\ nth[c] < MaxStatements
    /\ nth' = [nth EXCEPT ![c] = @ + 1]
    /\ name' = [name EXCEPT ![c] = n]
    /\ UNCHANGED <<service, catalog, mounted, history, attempt>>

Goes(c, l) == pc' = [pc EXCEPT ![c] = l]

\* RetryingHttpClient::Execute returns, or throws.
Returns(c, l) ==
    /\ Goes(c, l)
    /\ attempt' = [attempt EXCEPT ![c] = 0]

\* One attempt too many.
Bug_UnansweredLate(c) ==
    \/ Returns(c, "failed")
    \/ /\ attempt[c] < MaxAttempts
       /\ attempt' = [attempt EXCEPT ![c] = @ + 1]
       /\ UNCHANGED pc

\* The request has got no usable answer: retried, if the answer allows it and
\* there are attempts left; otherwise an exception ends the statement.
Unanswered(c) ==
    \/ Returns(c, "failed")
    \/ /\ attempt[c] + 1 < MaxAttempts
       /\ attempt' = [attempt EXCEPT ![c] = @ + 1]
       /\ UNCHANGED pc

\* CREATE [OR REPLACE] TABLE n AS: DuckDB looks whether the table is there before
\* it calls PlanCreateTableAs, which first checks the columns.
PlanCreateTableAs(c) ==
    /\ \E n \in Names, replace \in BOOLEAN :
         /\ Starts(c, n)
         /\ \/ (tables[n] = None \/ replace) /\ Goes(c, "post")
            \/ Goes(c, "failed")
    /\ UNCHANGED held

\* CalendarsResource::Insert: POST /calendars.
CalendarsInsert(c) ==
    /\ pc[c] = "post"
    /\ \/ \E k \in Cals \ used :
            /\ calendars' = calendars \cup {k}
            /\ used' = used \cup {k}
            /\ ours' = ours \cup {k}
            /\ \/ /\ Returns(c, "register")
                  /\ held' = [held EXCEPT ![c] = k]
                  /\ UNCHANGED lost
               \/ /\ lost' = lost \cup {k}
                  /\ Unanswered(c)
                  /\ UNCHANGED held
       \/ /\ Unanswered(c)
          /\ UNCHANGED <<service, ours, lost, held>>
    /\ UNCHANGED <<catalog, mounted, replaced, removed, untold, byOthers, name, nth>>

\* The new calendar is mounted and not remembered as this attachment's.
Bug_RegisterUnmarked(c) ==
    /\ pc[c] = "register"
    /\ tables' = [tables EXCEPT ![name[c]] = held[c]]
    /\ replaced' = replaced \cup ({tables[name[c]]} \ {None})
    /\ Goes(c, "bound")
    /\ UNCHANGED <<service, catalog, created, ours, lost, removed, untold, byOthers, name, held, attempt, nth>>

\* AddTable destroys the entry that has the name, if there is one, and
\* MarkCreatedThisSession remembers the calendar.
Register(c) ==
    /\ pc[c] = "register"
    /\ tables' = [tables EXCEPT ![name[c]] = held[c]]
    /\ replaced' = replaced \cup ({tables[name[c]]} \ {None})
    /\ created' = created \cup {held[c]}
    /\ Goes(c, "bound")
    /\ UNCHANGED <<service, catalog, ours, lost, removed, untold, byOthers, name, held, attempt, nth>>

\* Any other statement about a table: LookupEntry.
LookupEntry(c) ==
    \E n \in Names :
        /\ Starts(c, n)
        /\ \/ /\ tables[n] # None
              /\ held' = [held EXCEPT ![c] = tables[n]]
              /\ Goes(c, "bound")
           \/ /\ tables[n] = None
              /\ Goes(c, "failed")
              /\ UNCHANGED held

\* The entry a statement holds is still there.
Alive(c) == tables[name[c]] = held[c]

\* GetGlobalSinkState reads the calendar id from the entry; what the statement then
\* does to the calendar's events does not concern the catalog.
GetGlobalSinkState(c) ==
    /\ pc[c] = "bound"
    /\ \/ Alive(c) /\ (Goes(c, "done") \/ Goes(c, "failed"))
       \/ ~Alive(c) /\ Goes(c, "undefined")
    /\ UNCHANGED <<service, catalog, mounted, history, name, held, attempt, nth>>

\* DROP TABLE n without the guard.
Bug_DropUnguarded(c) ==
    \E n \in Names :
        /\ Starts(c, n)
        /\ \/ /\ tables[n] = None
              /\ Goes(c, "done") \/ Goes(c, "failed")
              /\ UNCHANGED held
           \/ /\ tables[n] # None
              /\ held' = [held EXCEPT ![c] = tables[n]]
              /\ Goes(c, "delete")

\* DROP TABLE [IF EXISTS] n up to its request: only what this attachment created.
DropEntry(c) ==
    \E n \in Names :
        /\ Starts(c, n)
        /\ \/ /\ tables[n] = None
              /\ Goes(c, "done") \/ Goes(c, "failed")
              /\ UNCHANGED held
           \/ /\ tables[n] # None
              /\ tables[n] \notin created
              /\ Goes(c, "failed")
              /\ UNCHANGED held
           \/ /\ tables[n] # None
              /\ tables[n] \in created
              /\ held' = [held EXCEPT ![c] = tables[n]]
              /\ Goes(c, "delete")

\* A delete that answers 404 counts as one that worked.
Bug_DeleteAnyAnswer(c) ==
    /\ pc[c] = "delete"
    /\ \/ /\ calendars' = calendars \ {held[c]}
          /\ removed' = removed \cup {held[c]}
          /\ Returns(c, "unregister")
       \/ /\ Returns(c, "unregister")
          /\ UNCHANGED <<calendars, removed>>
    /\ UNCHANGED <<untold, used, catalog, mounted, ours, lost, replaced, byOthers, name, held, nth>>

\* CalendarsResource::Delete: DELETE /calendars/{id}; the answer may be lost, and
\* a calendar that is gone answers 404.
CalendarsDelete(c) ==
    /\ pc[c] = "delete"
    /\ \/ /\ held[c] \in calendars
          /\ calendars' = calendars \ {held[c]}
          /\ removed' = removed \cup {held[c]}
          /\ \/ Returns(c, "unregister") /\ UNCHANGED untold
             \/ Unanswered(c) /\ untold' = untold \cup {held[c]}
       \/ /\ held[c] \in calendars
          /\ Unanswered(c)
          /\ UNCHANGED <<calendars, removed, untold>>
       \/ /\ held[c] \notin calendars
          /\ Returns(c, "failed")
          /\ UNCHANGED <<calendars, removed, untold>>
    /\ UNCHANGED <<used, catalog, mounted, ours, lost, replaced, byOthers, name, held, nth>>

\* The table is forgotten by the set only.
Bug_UnregisterKeepsTable(c) ==
    /\ pc[c] = "unregister"
    /\ \/ /\ Alive(c)
          /\ created' = created \ {held[c]}
          /\ Goes(c, "dropped")
       \/ /\ ~Alive(c)
          /\ Goes(c, "undefined")
          /\ UNCHANGED created
    /\ UNCHANGED <<service, catalog, tables, history, name, held, attempt, nth>>

\* ForgetCreatedThisSession reads the id from the entry and erase uses the
\* iterator, both from before the request.
Unregister(c) ==
    /\ pc[c] = "unregister"
    /\ \/ /\ Alive(c)
          /\ created' = created \ {held[c]}
          /\ tables' = [tables EXCEPT ![name[c]] = None]
          /\ Goes(c, "dropped")
       \/ /\ ~Alive(c)
          /\ Goes(c, "undefined")
          /\ UNCHANGED mounted
    /\ UNCHANGED <<service, catalog, history, name, held, attempt, nth>>

\* Somebody deletes a calendar elsewhere.
OtherDeletes ==
    /\ \E k \in calendars :
         /\ calendars' = calendars \ {k}
         /\ byOthers' = byOthers \cup {k}
    /\ UNCHANGED <<used, catalog, mounted, ours, lost, replaced, removed, untold, statement>>

-----------------------------------------------------------------------------
Init ==
    /\ calendars \in Seeds
    /\ used = calendars
    /\ phase = "detached"
    /\ aliases = [n \in Names |-> None]
    /\ seen = {}
    /\ tables = [n \in Names |-> None]
    /\ created = {}
    /\ pc = [c \in Conns |-> "idle"]
    /\ name = [c \in Conns |-> None]
    /\ held = [c \in Conns |-> None]
    /\ attempt = [c \in Conns |-> 0]
    /\ nth = [c \in Conns |-> 0]
    /\ attaches = 0
    /\ ours = {} /\ lost = {} /\ replaced = {} /\ removed = {} /\ untold = {} /\ byOthers = {}

Statement(c) ==
    \/ PlanCreateTableAs(c) \/ CalendarsInsert(c) \/ Register(c)
    \/ LookupEntry(c) \/ GetGlobalSinkState(c)
    \/ DropEntry(c) \/ CalendarsDelete(c) \/ Unregister(c)

Next ==
    \/ Attach \/ LoadCalendar \/ LoadEnds \/ Detach \/ OtherDeletes
    \/ \E c \in Conns : Statement(c)

Spec == Init /\ [][Next]_vars

-----------------------------------------------------------------------------
\* Properties.

\* Every variable keeps its type; the attempt counter stays below max_attempts.
TypeOK ==
    /\ calendars \subseteq Cals /\ used \subseteq Cals
    /\ phase \in {"detached", "loading", "attached"}
    /\ aliases \in [Names -> Cals \cup {None}]
    /\ seen \subseteq Cals
    /\ tables \in [Names -> Cals \cup {None}]
    /\ created \subseteq Cals
    /\ pc \in [Conns -> {"idle", "post", "register", "bound", "delete", "unregister",
                         "done", "dropped", "failed", "undefined"}]
    /\ name \in [Conns -> Names \cup {None}]
    /\ held \in [Conns -> Cals \cup {None}]
    /\ attempt \in [Conns -> 0 .. MaxAttempts - 1]
    /\ nth \in [Conns -> 0 .. MaxStatements]
    /\ attaches \in 0 .. MaxAttaches
    /\ ours \subseteq Cals /\ lost \subseteq Cals /\ replaced \subseteq Cals
    /\ removed \subseteq Cals /\ untold \subseteq Cals /\ byOthers \subseteq Cals

\* "a session can clean up after itself but never delete pre-existing user
\* calendars": whatever the connections run, and under whatever names and aliases,
\* only calendars made during this attachment are deleted by it.
DropsOnlyOwn == removed \subseteq ours

\* A DROP TABLE that succeeded left nothing behind: the calendar is gone, it is not
\* remembered and no table leads to it.
DropTakesEffect ==
    \A c \in Conns :
        pc[c] = "dropped" =>
            /\ held[c] \notin calendars
            /\ held[c] \notin created
            /\ \A n \in Names : tables[n] # held[c]

\* A calendar this attachment made can also be dropped by it: a table leads to it
\* and DROP does not refuse.  The exceptions are those whose POST was carried out
\* and not acknowledged, those whose table a later CREATE TABLE took over, and the
\* one that a running statement is about to mount.
CanCleanUp ==
    \A k \in ours \cap calendars :
        \/ k \in lost \cup replaced
        \/ k \in created /\ \E n \in Names : tables[n] = k
        \/ \E c \in Conns : pc[c] = "register" /\ held[c] = k

\* A table leads to a calendar of the user's.  The exceptions: somebody else has
\* deleted the calendar; a running DROP has, and is about to unmount the table; or a
\* DROP has and was not told, and its table stays, for a DROP of a calendar that is
\* gone fails.
GhostsExplained ==
    \A n \in Names :
        tables[n] # None =>
            \/ tables[n] \in calendars \cup byOthers \cup untold
            \/ \E c \in Conns : pc[c] = "unregister" /\ held[c] = tables[n]

MountedAsNamed ==
    \A k \in seen, n \in Names :
        tables[n] = k <=> aliases[n] = k \/ (n = k /\ \A m \in Names : aliases[m] # k)

NoClash == \A n \in Names : aliases[n] # None => n \notin seen

\* "A calendar referenced by one or more aliases is mounted only under those
\* aliases; every other calendar is mounted under its raw ID": so it is after
\* ATTACH, provided that no alias is the id of a calendar.
AttachMountsAll ==
    phase = "attached" /\ NoClash /\ (\A c \in Conns : pc[c] = "idle") => MountedAsNamed

\* The same for all aliases.
EveryCalendarMounted ==
    phase = "attached" /\ (\A c \in Conns : pc[c] = "idle") => MountedAsNamed
=============================================================================
