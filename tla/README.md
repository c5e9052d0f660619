# Specifications of duckdb-google-calendar

TLA+ modules for the DuckDB extension that attaches a Google account and offers
each of its calendars as a table of events.  They are translated from the C++
under `src/src/`; Google's service, httplib and DuckDB's executor are external
and modelled only as the code uses them.

## 1. The system

| Component | State | Operations | Talks to |
|---|---|---|---|
| Sinks: `calendar_insert.cpp`, `calendar_update.cpp`, `calendar_delete.cpp` | a count and the rows for RETURNING, per statement | one `Sink` loop each | events resource |
| Resources: `resources/*.cpp` | none | get, insert, update, delete, list | transport |
| Transport: `retrying_http_client.cpp`, `httplib_client.cpp` | loop counter | `Execute` | the service |
| Scan: `calendar_scan.cpp` | bounds found while planning; page, cursor, token while running | extract bounds, fetch a page, fill a chunk | events resource, catalog |
| Attach: `calendar_storage_extension.cpp` | aliases, default window | `CalendarAttach` | catalog |
| Catalog: `calendar_catalog.cpp`, `calendar_schema_entry.cpp` | `tables`, `created_calendar_ids` | load, look up, CREATE TABLE AS, DROP TABLE | calendars resource |
| OAuth: `calendar_auth.cpp` | captured parameters, mutex, condition variable, keychain | `InitiateOAuthFlow`, the `GET /` handler | browser, token endpoint |
| Column mapping: `event_mapping.hpp` | none | event to row, row to event | |
| MERGE planning: `calendar_merge.cpp` | none | one sink per action | sinks |
| Transactions: `calendar_transaction*.cpp`, `client.hpp` | a lazily built client with fixed headers | `GetClient`, begin, commit, roll back | auth providers |
| Auth providers: `auth/*.cpp`, `auth_factory.cpp` | cached token and its expiry | `GetAuthorizationHeader` | token endpoint |
| Secrets, query strings, encoding, proxy, table entry, event schema, test seams, extension entry | constants or none | | |

What is hard here: requests that are lost, repeated by the retry loop or carried
out after the client gave up; statements of several rows, each costing one or two
requests, with no rollback; several connections between whose requests anything
may happen, in the service and in the shared catalog; listener threads that share
the stack frame of a function that may time out; and the difference between an
event's start in SQL and the instant the service goes by.

What makes each component correct:

- sinks: a statement leaves a prefix of its rows written; success means stored;
  the report is true; a statement ends.
- scan: every row that satisfies the filter, once, in spite of pages and chunks.
- catalog: DROP never reaches a calendar the attachment did not make, is complete
  when it succeeds, and what was made can be dropped.
- OAuth: no thread outlives the flow, no redirect is missed, a code is exchanged only
  after the user's answer to this flow, and the flow ends.
- transactions: the client that several threads share is built once, is not
  destroyed while it is used, and bears one credential, of a secret no older than the user's transaction.
- UPDATE as a whole: it updates what its filter matches although it changes what it
  is listing, what it sets reads back, and what it does not set is kept.

## 2. Modules

A component has up to three modules: the specification (`X.tla`), its instances for
TLC (`XMC.tla`, with the `X_*.cfg` files), and its proofs (`XProofs.tla`).
What an UPDATE writes, and how often, is proved in `UpdateWritesProofs`, on top of
`UpdateStatementProofs`.
`EventMapping` has no state; `StatementPromise` is an abstract specification that
`EventsDml` implements by way of `EventsDmlPromise`.  In every
specification the operators named `Bug_...` are variants of the definition below
them with a plausible mistake; nothing uses them.  They are there so that one can
see each property fail: substitute one for the definition it stands before and
run the cfg again.

### EventsDml: INSERT, UPDATE, DELETE, MERGE

A connection runs a statement, a sequence of rows; `op` says which sink consumes a
row (the rows of a MERGE go to all three).  `pc` is "sink" at the top of a loop,
"sent" while `Execute` waits, "replied" when it has an answer.

- `SinkInsert`, `SinkUpdate`, `SinkDelete`, `SkipNull`: the loop body up to its
  first request.  `InsertReply` (with the 409 upsert), `UpdateReply` (after GET,
  after PUT), `DeleteReply` (after GET for RETURNING, after DELETE): the rest.
  `Finish`: `GetDataInternal`.  `Applied` is `ApplyColumn` in UPDATE mode, with NULL
  erasing the key; `Rejected` is `ApplySet`'s error for a read-only column.
- `Retry` and `Returns`: the loop of `RetryingHttpClient::Execute`.  `Broken`: a
  thrown transport error, which is not retried.
- `Serve`, `Refuse`, `ServeLate` (external): the service carries a request out and
  answers, or carries it out and answers 503, or refuses it, or carries it out
  after the client has gone.  `Outcomes` gives the status codes the code
  distinguishes: 409 for an id that exists or is reserved, 404, 410.
- `hit`, `writer`, `lost` are history: which rows of a statement were carried out,
  who wrote each event last, how many creations went unacknowledged.

An event is a map from a few fields to a few values; JSON, URLs, headers and the
back-off delay are left out.

### StatementPromise and EventsDmlPromise: what a statement promises

`StatementPromise` has no requests: a statement goes through its rows, leaves a row
only when that has taken effect, may repeat the effect of the row it is at, and may fail
at any row, in which case that row's effect may still come later, once for each
request given up.  Nothing else happens to the calendar: no row before or after, no event
the row does not name.  Of an UPDATE it says what the SET columns become; the rest of the
event is what the statement read earlier, and `UnsetColumnsKept` of `UpdateStatement`, not the
promise, bounds how old that may be.  `EventsDmlPromise` is the
refinement mapping: labels become phases, `row` and `hit` become `at` and `took`, and
the requests in `late` that write become the effects that are owed.

### EventMapping and UpdateStatement: one UPDATE, end to end

`EventMapping` has `event_mapping.hpp` as operators: `TimeNode`, `ReencodeTimeNode`,
`SetJsonPassthrough`, `ApplyColumn` with its tables of columns, `ParseEventTime`,
`ExtractField`, `EventToRow`.  A time is a number of units and a node is a date, or a
dateTime with the distance of its clock from UTC: that a date is cut from the local time in
one place and from the UTC time in another is what the model is there to tell apart.

`UpdateStatement` runs one UPDATE.  `FetchPage` and `EmitRow` are the scan,
`TakeChunk` (external) hands the rows held so far to the sink, and `GetEvent`,
`ApplySet`, `Refuse`, `Applied`, `Update` are the body of `CalendarUpdate::Sink`, one
column at a time.  The sink writes the events the scan has still to list, and
`OtherChanges` lets another program write or delete any of them between two requests.
The service (external) lists by start instant and id, and a page token stands for the last
event of its page; it takes only events with both ends.  `had`, `owed` and
`spared` are history: what an event has been since it was listed, and which events
match the filter, or do not, and were changed by nobody else.

### TransactionClient: the shared client

The user's transactions (`BeginTransaction`, external), the calendar's part of each in the
manager's list (`StartTransaction`, `EndTransaction`), threads that DuckDB gives to their statements, and `GetClient` step by step under
`client_lock`: `CreateHttpClient` (or a malformed proxy option), the provider
(`BuildProvider`, or no usable secret), its token exchange in three steps (`Mint`,
`ExchangeJwtForToken`, `ExchangeThrows`), and the client's construction (`Built`).
Objects have serial numbers, so that a pointer to one that has been replaced or
destroyed can be told.  Secrets and settings change and time passes at any moment.
The secret is looked up in the caller's snapshot of the system catalog
(`auth_factory.cpp:36`, `secret.cpp:12`), so it may be any version that was
current since the user's transaction began (`Seen`, `replaced`), or the absence of one; where no
secret is named and none is found, `auth` is null before the throw (`CreateAuthThrows`).  An
http secret hides the `http_proxy` setting even if it names no proxy (`GetHttpProxyConfig`).
A secret is one of type google_calendar.  `opened` and `borne` are history.  Two
things seen here: the comment at `calendar_transaction.hpp:22` speaks of a
"per-statement" client, where the client is the transaction's; and a provider's early
renewal (`service_account_auth.cpp:132`) has no effect, since each provider is asked for
one header in its life.

### CalendarScan: bounds, default window, pages

`Attach` resolves the default window from the options, `Plan` and `Extract` run
`ExtractTimeBound` over the conjuncts in any order, `InitGlobal` chooses the range and fetches
the first page, and `FetchPage`, `EmitRow`, `LastPageEnds`, `ReturnChunk` are the
branches of `CalendarScan`'s loop.  An event has three times: its start in SQL, and
the first and last instant the service goes by; the first two differ by less than
a day, for an all-day event in any time zone.  `FormatWithBuffer` adds a day with
the wrap-around of int64, whose range is scaled down to `-TsMax-1 .. TsMax`;
`TsMax` is 'infinity'.  What is sent is text: `Printed` is an instant only within
`RfcMin .. RfcMax`, the years 1 to 9999, and otherwise `NoInstant` (a BC era, a fifth digit,
the word infinity), which the service refuses (`Accepted`), and the query fails.  A bound of
that kind is harmless if a later conjunct overwrites it.  The service (`Listings`, `Page`) may cut a listing anywhere,
also into empty pages; it does not change while it is read.  SQL's own reading of a
conjunct, `Satisfies`, is the reference the bounds are compared with.

### CalendarCatalog: ATTACH, CREATE TABLE AS, DROP TABLE

`LoadCalendar` takes the listed calendars in any order; `PlanCreateTableAs`,
`CalendarsInsert`, `Register` are the three parts of `PlanCreateTableAs`, before,
during and after its request; `DropEntry`, `CalendarsDelete`, `Unregister` those of
`DropEntry`; `LookupEntry` and `GetGlobalSinkState` any other statement, which looks
an entry up while it is bound and reads its calendar id when it runs.  Other
connections' steps come between.  An entry is a name and its calendar; a statement
that reads an entry another one has destroyed goes to "undefined" and does nothing
more: the model claims nothing of it.  `OtherDeletes` is another client of the
account.  `ours`, `lost`, `replaced`, `removed`, `untold`, `byOthers` are history.

### OAuthFlow: the loopback flow

The flow's thread (`Begin` to `Exchange`, the timed-out path being `TimeoutStop` and
`TimeoutJoin`) and one worker per hit on the listener (`HandlerLocks`,
`HandlerUnlocks`, `HandlerNotifies`, `HandlerAnswers`).  `EnterWait` and `Wake` are
`wait_for` with its predicate: tried with the mutex held, before and after each
sleep; a notification nobody waits for is lost; `Expire` may come at any moment of
the wait.  A hit is this flow's redirect, granted or denied, or one of `Others`: any of the
combinations of an error, a code and a state that are absent, empty or not this
flow's (`Foreign`), a bare GET among them.  The handler takes over each parameter by itself, so
what the flow checks may be put together from several hits; each may come several times.  Off macOS
the keychain is empty.

## 3. What is checked

All bounds are in the cfg files, named by the constants.

| Run | Instance | Shows |
|---|---|---|
| `dml_shared` | 2 connections, 1 statement each of at most 2 rows, 2 attempts, fair | `TypeOK`, `PrefixApplied`, `DoneMeansStored`, `ReportIsTrue`; `StatementEnds` |
| `dml_long` | 1 connection, 2 statements of at most 3 rows | the same safety for MERGE and rows that name one event twice; `DuplicatesOnlyFromLostReplies`; the refinement `KeepsPromise` |
| `dml_delete_returning` | 2 connections, DELETE against UPDATE | violated: `ReturnedRowsAreDeletedRows` |
| `scan_paging` | every filter of at most two of 39 conjuncts, literals at the ends of int64 and of RFC3339 among them, 5 events, all 8 combinations of options and a window too wide to print, pages of up to 3, chunks of 2, fair | `TypeOK`, `BoundsCoverFilter`, `ScanIsExact`, `DefaultWindowRules`; `ScanEnds` |
| `scan_infinity` | two filters, up to 'infinity' and up to the last day of RFC3339 | violated: `HintIsHarmless` |
| `oauth_hits` | 3 hits, of this flow's two kinds and 4 others, fair | `TypeOK`, `NoHandlerOutlivesFlow`, `TimeoutMeansNoRedirect`, `ExchangeIsGranted`; `CapturedFlowEnds` |
| `oauth_timeout` | 1 hit, fair | violated: `FlowEnds` |
| `catalog_shared` | 2 connections, 2 statements each, 2 attachments, 1 calendar and 2 ids to give out | `TypeOK`, `DropsOnlyOwn`, `DropTakesEffect`, `CanCleanUp`, `GhostsExplained`, `AttachMountsAll` |
| `catalog_clash` | 1 alias equal to another calendar's id | violated: `EveryCalendarMounted` |
| `client` | 2 transactions, 2 threads, 2 statements, tokens that live 1 unit of 2, 1 change of a secret or setting, fair | `TypeOK`, `NothingUsedIsDestroyed`, `OneCredential`, `CredentialIsCurrent`, `UnauthorizedExplained`; `ClientObtained` |
| `update` | 2 events, each one of 4 or absent, 8 SET lists, with and without RETURNING, pages of up to 2, 1 change by another program, fair | `TypeOK`, `NodesAgree`, `EveryMatchUpdated`, `UpdatedOnce`; `UnsetColumnsKept`, `SetColumnsReadBack`; `UpdateEnds` |
| `update_returning` | 1 event, 2 SET lists | violated: `ReturningOnlyReports` |

Why the bounds are enough: two attempts make a first, a repeated and a last one;
two rows make an earlier and a later row, three allow one event named twice with
another between; two connections are what any interleaving of one request with
another needs, and the theorems below hold for any number; 5 events with chunks of
2 and pages of up to 3 let page and chunk ends fall together, apart and on the last
event.  Two events are the one in the sink and the one the
scan has still to list, which the first, set to a later start, may pass; the events and SET
lists hold a local day that differs from the UTC day, all-day events, both orders of
all_day and a time, NULL, a malformed text and a read-only column.  Two threads and
two transactions make whatever one may destroy of the other's.  Three units to a day let a timed event and all-day events on either side
of UTC differ.  Three hits are the flow's redirect, one that the checks may mistake for it and one that the
threads' order is about; the four others of `oauth_hits` are those the checks treat
differently.  Deadlock is not checked: finished statements, scans and flows stop.

Symmetry: ids the service may assign, calendars to be created and connections are
interchangeable; it is used only where no liveness is checked.

### Fairness

- `EventsDml`: weak fairness of each connection's own steps (DuckDB runs a pipeline
  to its end) and of the end of each request (httplib's time-outs).  None for
  starting statements, nor for a request carried out late.
- `CalendarScan`: weak fairness of the next step; one thread pulls (`MaxThreads` is 1).
  An empty page after an empty page changes nothing in the model, so fairness also
  says that the service does not answer with empty pages for ever.
- `OAuthFlow`: weak fairness of the flow, of each handler and of the clock.  A worker
  takes the mutex once, so no stronger fairness is needed; no hit ever has to come.
- `TransactionClient`: weak fairness of each thread inside `GetClient` (a mutex that is
  free is taken in the end, and a request to the token endpoint ends).  A thread can wait for
  the lock behind others only while they build, and there are finitely many; none for time,
  changes, or new statements.
- `UpdateStatement`: weak fairness of the statement (the pipeline runs to its end),
  none of the other programs.  That it ends rests on the page token: an event that
  the statement moves behind the token comes up again, but the SET values are
  constants, so it does not move a second time; and, as for the scan, the service does not
  answer with empty pages for ever.

### Where the code departs from what it says

1. `DELETE ... RETURNING` reads an event and deletes it in two requests; an update
   between the two is not in what it reports (`calendar_delete.cpp:50-53`).
2. A comparison with 'infinity', or with the last day of the year 9999, gives a bound that
   does not print as RFC3339 (`calendar_scan.cpp:87`, where the former also overflows): the
   service refuses the request, and the hint that was to be best-effort makes the query fail.
3. A flow that times out joins its listener with the mutex held
   (`calendar_auth.cpp:430-437`); a redirect that arrives at that moment leaves both
   waiting for ever.
4. An alias equal to another calendar's id silently hides one of the two
   (`calendar_schema_entry.cpp:19`).
5. `UPDATE ... SET all_day = TRUE` with RETURNING writes the start again from its UTC
   timestamp, without RETURNING it keeps the local date: the event lands on
   different days (`calendar_update.cpp:67`).

Also seen while modelling, and stated as exceptions in the properties rather than as
errors: a POST without an id is retried after a 503 and can create an event twice
(`DuplicatesOnlyFromLostReplies`); a calendar whose POST was not acknowledged, or
whose table a second CREATE TABLE replaced, can no longer be dropped (`CanCleanUp`);
a DROP whose DELETE was not acknowledged leaves a table that no DROP removes
(`GhostsExplained`); an UPDATE writes the whole event back, so another program's
change between the sink's read and its write is lost, and with RETURNING one between the listing and
the write (`UnsetColumnsKept` says how old a value may be); an event that an UPDATE moves
within its filter may be updated twice (`UpdatedOnce`); a transaction that goes on
for longer than a token lives is refused (`UnauthorizedExplained`); the
handler of the OAuth flow takes over each parameter by itself (`calendar_auth.cpp:378-386`), so a
request with a code and no state that comes after the flow's redirect replaces its code and leaves its
state, which then passes the comparison at line 447 (the exchange of that code fails, although
the user granted the flow's own), and an empty error erases an earlier one (`ExchangeIsGranted`).

## 4. What is proved

For every value of the constants that satisfies the module's assumption:

| Theorem | Says | Rests on |
|---|---|---|
| `EventsDmlProofs!TypeCorrect` | `[]TypeOK` | each action keeps the types |
| `EventsDmlProofs!PrefixCorrect` | `[]PrefixApplied` | `PrefixInv` |
| `CalendarScanProofs!TypeCorrect`, `ScanExact`, `DefaultWindowSound` | `[]TypeOK`, `[]ScanIsExact`, `[]DefaultWindowRules` | `ScanInv` |
| `CalendarScanProofs!BoundsSound` | `[]BoundsCoverFilter` | the bounds that print each have a day's margin (`Covered`) |
| `OAuthFlowProofs!TypeCorrect`, `NoHandlerOutlives`, `TimeoutHonest`, `ExchangeGranted` | the flow's types and its three safety properties | `IInv` |
| `OAuthFlowProofs!EmbraceIsForever` | `[](DeadlyEmbrace => []DeadlyEmbrace)`: why `FlowEnds` is violated | `IInv` |
| `CalendarCatalogProofs!TypeCorrect` | `[]TypeOK` | each action keeps the types |
| `CalendarCatalogProofs!OnlyOwnDropped` | `[]DropsOnlyOwn` | `OwnInv` |
| `CalendarCatalogProofs!DropComplete` | `[]DropTakesEffect` | `MountInv`, `DropInv` |
| `CalendarCatalogProofs!CleanUpPossible` | `[]CanCleanUp` | `OwnInv`, `MountInv`, `DropInv` |
| `CalendarCatalogProofs!GhostsAccountedFor` | `[]GhostsExplained` | `MountInv`, `UnderWay` |
| `CalendarCatalogProofs!AttachComplete` | `[]AttachMountsAll` | `FreshInv` |
| `EventsDmlPromiseProofs!SuccessIsStored` | `[]DoneMeansStored` | `PrefixInv`, `StoredInv` |
| `EventsDmlPromiseProofs!SurplusIsLost` | `[]DuplicatesOnlyFromLostReplies` | `PrefixInv`, `SurplusInv` |
| `EventsDmlPromiseProofs!SuccessIsReported` | `[]ReportIsTrue` | `PrefixInv`, `EchoOK`, `ReportOK` |
| `EventsDmlPromiseProofs!Implements` | `Spec => KeepsPromise`: the sinks implement `StatementPromise` | `TypeOK`, `PrefixInv`, `ReqOK`, `LateOne` |
| `UpdateStatementProofs!TypeCorrect` | `[]TypeOK` | `TypeInv` |
| `UpdateStatementProofs!NodesCorrect` | `[]NodesAgree` | `NodesInv` |
| `UpdateStatementProofs!MatchesUpdated` | `[]EveryMatchUpdated` | `MatchInv` |
| `UpdateWritesProofs!OnceCorrect` | `[]UpdatedOnce` | `OnceInv` |
| `UpdateWritesProofs!UnsetKeeps`, `SetReadsBack` | `UnsetColumnsKept`, `SetColumnsReadBack`, of every write | `ColumnsInv` |
| `TransactionClientProofs!TypeCorrect`, `NothingDestroyed`, `OneHeader`, `HeaderCurrent`, `RefusalExplained` | the safety properties of the client | `IInv` |

The inductive invariants:

- `PrefixInv` adds to `PrefixApplied` that a late request belongs to the row in the
  sink, an earlier one or an older statement (`LateOK`), that a connection with a
  request under way is at a row of its statement, and that an INSERT never reads
  (`BusyOK`), and that a 200 or 204 in hand for a write means that the write was
  carried out (`AckedOK`).  Without the last, going on to the next row could not be
  justified; without `LateOK`, a late write could be one of a row yet to come.
- `OAuthFlowProofs!IInv` adds to the types who holds the mutex at each label
  (`MutexOK`), the listener's state at each label, with no worker left once it is
  stopped (`ServerOK`), that `done` is unset on the timed-out path, where the flow
  keeps the mutex (`TimeoutOK`), and where the captured strings come from, in terms of the hits
  whose handler has been in its critical section (`Told`): our state from an answer to this
  flow, and beside another's code only after a denial or a hit that replaces the code; and no
  captured error after one was reported only if a hit erased it (`CaptureOK`).
- `Covered`, for `BoundsSound`: each bound that the service can read leaves every matching event in.
  One that cannot be read may still be overwritten, so nothing is asked of it.
  `FormatExact` shows that one that can be read has not wrapped round; it needs the
  four-digit years to be well within int64 (`ScanAssumption`), as they are.
- `ScanInv`: `Whole`, which is the rows delivered, the chunk, the rest of the page and the
  listing's pages to come, in this order, is the listing (`ListingOK`): fetching, emitting
  and returning a chunk only move a border in it.  `RangeOK` says where the range comes
  from, the filter or the default window.  It takes a calendar to have finitely many events
  (`ScanAssumption`): the listing is a sequence.
- `StoredInv`: an event last changed by a statement that has not failed is as the last of its rows
  for that event asked, of those that have taken effect (`WordOK`).  `WriterOK` says that no change comes from a statement yet to
  be started, `EndOK` that a statement that is done has no row left.
- `SurplusInv`: at any moment a statement has made at most as many events (`Made`) as there are
  lost answers and rows for which the client has its answer (`Settled`).  The bound of the property
  alone is not inductive: while a POST is under way its row may be in `hit` already, by an earlier
  attempt whose answer was lost.  Both
  sets are finite and grow by one element at a time.
- `EchoOK`, `ReportOK`: an answer of 200 echoes what was asked, and before each row the count
  of a sink is the number of its rows gone by (`Counted`), its returned rows are as many
  (`Collects`), and each shows its row at its place among them (`Shows`).  DELETE collects a row
  before it deletes it: `Upto`.
- `OwnInv`: the calendars remembered, those a statement is about to mount or to
  delete, and those deleted are this attachment's.
- `MountInv`: a calendar made here is mounted under at most one name, and one that
  is being mounted is held by one statement only and not yet remembered.
  `DropInv`: a statement past its DELETE holds a calendar that is gone for good,
  since ids are not given out twice, and that nobody is about to mount.
- `UnderWay`: a calendar that a statement is about to mount has not been deleted from here, and
  one that a DROP is about to delete or unmount has no table but the one dropped.
- `FreshInv`: until the first statement the tables are those of the calendars listed so far, each
  under its aliases or else its id.
- `EventsDmlPromiseProofs!Implements`: each action of `EventsDml` is a step of the promise or a stutter.
  `ReqOK` says that a request under way is one its row asks for, by the row's
  operation, id and columns, so that serving it, or giving it up, is an effect of that
  row; `LateOne` that only a statement that has failed leaves a request behind, and at
  most one: two late requests are never mapped to one owed effect, and carrying out one
  does not seem to carry out both.
- `NodesInv`: the calendar's events have both ends, of one form (`StoreOK`), and in the loop
  over the columns (`LoopOK`) the nodes have the style the list asks for from the moment
  `all_day` has been applied, or from the start if the event has that style anyway.  The
  event in the loop may well have ends of two forms before that, so `NodesAgree` alone
  would not do.  At the end of the loop `PutForms` finds that one of the two is the case:
  if RETURNING repeats `all_day`, the list itself has it.  `RowsOK` says that the sink has
  a row.
- `MatchInv`: an event that matches, has not been updated and was changed by nobody else is
  as it was, and is in the page, among the rows or beyond the cursor (`OwedOK`); one that
  does not match is never among the rows (`SparedOK`).  A write can move the event written,
  never another.  It needs `BoundsAssumption`: the range sent to the service contains every
  event that matches, which `CalendarScan` is about and which TLC evaluates on the events
  of the run.
- `TypeInv` adds to `TypeOK` that what was listed is an event (`ListedOK`): with RETURNING
  its times become values of the list.
- `OnceInv`, for statements that set no time: an event of which there is a row, or was, is
  behind the cursor (`ListedOnce`), and its only row says what the event still is (`ItemOK`,
  `RowOK`, `SingleRow`).  What is left is that the sink does not move it: with RETURNING
  the start is written from the row's SQL value, in the style that the row's all_day says,
  and `ApplySame` finds it the instant it was (`StartOK`).  That holds because an all-day event starts
  at midnight of a date without a zone (`DatesAssumption`).
- `ColumnsInv`: in the loop over the columns each key of the event has what it had when it was read,
  or what the columns of its name applied so far (`Did`) put there (`PlainOK`, `TimesOK`); columns
  of one name that do not merely repeat one have the same value.  So no column undoes another:
  keys are distinct (`KeysDistinct`), and re-encoding a time that was written in the style asked for
  changes nothing (`NodeStays`), since a midnight's midnight is itself (`MidnightDate`).  With
  RETURNING the values are those of the row, which stay in `had` (`HadOK`), and an all-day
  row's times are midnights without a zone (`SoundOK`), or they would not read the same again.
  It needs `NullAssumption`: NULL is no text.
- `DeadlyEmbrace`: the flow is in the join with the mutex held, and a worker waits for it.  No
  step leads out of it.
- `TransactionClientProofs!IInv` adds to the types that a thread builds exactly if it
  holds the lock, and then there is no client yet (`LockOK`, `WorkOK`), so a client once
  there is never replaced; that the provider refers to the HTTP client last made
  (`BuildOK`); and that every header borne is the client's, whose secret is no
  older than that of when the user's transaction began (`Seen` offers no other), and whose minting no
  older than the calendar's part of it (`ClientOK`).

Every safety property of a passing run is thus a theorem.  Only model-checked are the liveness
properties: `StatementEnds`, `ScanEnds`, `CapturedFlowEnds`, `ClientObtained`, `UpdateEnds`
(temporal proofs under fairness, and ENABLED, are out of the prover's reach).  What a
sequence's filtered subsequence is cannot be reasoned about either, so `ReportIsTrue` counts
the rows of a sink (`Asked`, `Place`) instead of selecting them.

## 5. Not modelled

- Where CREATE SECRET finds a key (file, environment, options), and a secret of another
  type given by name; the query strings, encodings and the checks of a column list, which
  are formatting and constants; signing and PKCE, which are cryptography; back-off
  delays; the mock transport, which exists for tests; the registration of the
  extension.
- Data races inside a container or a string, whose outcome is undefined: accesses are
  atomic here.
- In `UpdateStatement`: SET values that depend on the row.  With `start = start + interval
  ...` an event could pass the cursor again and again; how often depends on the window and the
  service's pages.  INSERT's own `RowToEvent` is in `EventsDml` only, without time nodes.
- DuckDB's planning, apart from the order of the columns that RETURNING adds.

## 6. Plan

Done: `EventsDml`, `OAuthFlow`, `CalendarScan`, `CalendarCatalog`, then
`TransactionClient`, `EventMapping` and `UpdateStatement`, `StatementPromise` with its
refinement.  Left:

1. `MergeSync`: a MERGE run twice, with a failure in between, on top of the sinks.
2. A DELETE on the scan of `UpdateStatement`: the same pages, events that vanish.
3. A promise for the scan, as `StatementPromise` is for the sinks: a listing, delivered in order.
