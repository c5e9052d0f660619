-------------------------- MODULE TransactionClient --------------------------
(* The HTTP client that a transaction builds when it is first asked for one  *)
(* and then shares between the threads of its statements                     *)
(* (calendar_transaction.cpp), with what it is built from: the proxy         *)
(* settings, the secret, and the provider that turns the secret into an      *)
(* Authorization header (auth_factory.cpp, calendar/auth, client.hpp).       *)
(*                                                                           *)
(* Transactions are objects in the manager's list; what is erased from the   *)
(* list is destroyed with all it owns.  A thread keeps a pointer to the      *)
(* client, modelled by the serial number of the object it points to.         *)
(* The secret, the proxy settings and the clock belong to others.            *)
EXTENDS Integers, FiniteSets

CONSTANTS
    Txns,           \* transaction objects; those that overlap are of several connections
    Threads,        \* DuckDB's threads, the connections' own among them
    None,           \* a null pointer, a lock nobody holds, an option that is not set
    Proxies,        \* values of a proxy option, None and "malformed" among them
    Life,           \* how long an access token is good for
    Margin,         \* how much earlier a provider renews it
    MaxTime,        \* bound: the clock
    MaxChanges,     \* bound: changes of secrets and settings
    MaxStatements   \* bound: statements of all transactions

ASSUME TimeAssumption == Life \in Nat /\ Margin \in 0..Life
NoSecret == "no secret"
ASSUME ProxyAssumption == {None, "malformed"} \subseteq Proxies /\ NoSecret \notin Proxies
ASSUME BoundAssumption == MaxChanges \in Nat /\ MaxStatements \in Nat

VARIABLES
    now,            \* the clock
    secret,         \* the secret of type google_calendar
    replaced,       \* its earlier versions, which older snapshots still show
    proxy,          \* the http secret's proxy, if there is one, and the http_proxy setting
    changes,        \* changes of the two so far
    transactions,   \* CalendarTransactionManager::transactions
    begun,          \* the user's transactions that have begun
    statements,     \* statements run so far
    outcome,        \* how its statements have gone so far
    lock,           \* client_lock: its holder
    http,           \* CalendarTransaction::http, auth and client
    auth,
    client,
    of,             \* the transaction a thread works for
    pc,             \* where it is
    ref,            \* the client a thread was given
    bearing,        \* the header of a thread's request under way
    opened,         \* history: the secret's number when the user's transaction began, and
                    \* the time when the calendar's part of it started
    borne           \* history: the headers of a transaction's requests

world == <<now, secret, replaced, proxy, changes>>
manager == <<transactions, begun, statements, outcome, opened>>
members == <<http, auth, client>>
threads == <<of, pc, ref, bearing, borne>>
vars == <<world, manager, lock, members, threads>>

-----------------------------------------------------------------------------
\* Types.  A secret has a number, so that one can tell which of them a header
\* comes from, and a token is as old as the secret or as its exchange.  A version
\* says that there is none, or one without a token, or one with a token or a key.

Kinds == {"absent", "unusable", "token", "key_file"}
Secret == [kind : Kinds, no : Nat, since : Nat]
Header == [no : Nat, minted : Nat]
HttpClient == [no : Nat, via : Proxies]
AuthProvider == [kind : {"token", "key_file"}, no : Nat, since : Nat, http : Nat,
                 cachedToken : Header \cup {None}, expirationTime : Nat]
Client == [no : Nat, headers : Header]

ASSUME NoneAssumption ==
    /\ None \notin Threads \cup Txns
    /\ None \notin Header /\ None \notin HttpClient /\ None \notin AuthProvider /\ None \notin Client

\* Between taking client_lock and giving it back.
Building == {"http", "auth", "post", "answered"}
Holding == {"use", "sent"}
Outcomes == {"ok", "failed", "unauthorized"}

\* The types of all variables.
TypeOK ==
    /\ now \in Nat
    /\ secret \in Secret
    /\ replaced \subseteq Secret
    /\ proxy \in [secret : Proxies \cup {NoSecret}, setting : Proxies]
    /\ changes \in 0..MaxChanges
    /\ transactions \subseteq begun
    /\ begun \subseteq Txns
    /\ statements \in 0..MaxStatements
    /\ outcome \in [Txns -> Outcomes]
    /\ opened \in [Txns -> [at : Nat, no : Nat]]
    /\ lock \in [Txns -> Threads \cup {None}]
    /\ http \in [Txns -> HttpClient \cup {None}]
    /\ auth \in [Txns -> AuthProvider \cup {None}]
    /\ client \in [Txns -> Client \cup {None}]
    /\ of \in [Threads -> Txns \cup {None}]
    /\ pc \in [Threads -> {"idle", "waiting"} \cup Building \cup Holding]
    /\ ref \in [Threads -> Nat]
    /\ bearing \in [Threads -> Header \cup {None}]
    /\ borne \in [Txns -> SUBSET Header]

-----------------------------------------------------------------------------
\* What others do: time passes, secrets and settings change.

Tick == now < MaxTime /\ now' = now + 1 /\ UNCHANGED <<secret, replaced, proxy, changes, manager, lock, members, threads>>

\* CREATE OR REPLACE SECRET: a token as given, none given, the token of an OAuth
\* flow, or a key.  One that fails leaves the secret alone.  DROP SECRET leaves none.
CreateSecret(kind) ==
    /\ changes < MaxChanges
    /\ secret' = [kind |-> kind, no |-> secret.no + 1, since |-> now]
    /\ replaced' = replaced \cup {secret}
    /\ changes' = changes + 1
    /\ UNCHANGED <<now, proxy, manager, lock, members, threads>>

\* CREATE SECRET (TYPE http, ...), SET http_proxy, and their opposites.
SetProxy ==
    /\ changes < MaxChanges
    /\ \/ \E p \in Proxies \cup {NoSecret} : proxy' = [proxy EXCEPT !.secret = p]
       \/ \E p \in Proxies : proxy' = [proxy EXCEPT !.setting = p]
    /\ changes' = changes + 1
    /\ UNCHANGED <<now, secret, replaced, manager, lock, members, threads>>

\* The http secret, when there is one, hides the setting, also if it names no proxy.
GetHttpProxyConfig == IF proxy.secret # NoSecret THEN proxy.secret ELSE proxy.setting

-----------------------------------------------------------------------------
\* CalendarTransactionManager.

\* The user's transaction begins; DuckDB asks for the calendar's part of it when a
\* statement first needs it.
BeginTransaction(x) ==
    /\ x \notin begun
    /\ begun' = begun \cup {x}
    /\ opened' = [opened EXCEPT ![x].no = secret.no]
    /\ UNCHANGED <<world, transactions, statements, outcome, lock, members, threads>>

\* The object comes from a pool, with the client it had.
Bug_StartTransaction(x) ==
    /\ x \in begun \ transactions /\ opened[x].no # 0
    /\ transactions' = transactions \cup {x}
    /\ opened' = [opened EXCEPT ![x].at = now]
    /\ \E y \in transactions \cup {x} :
          /\ http' = [http EXCEPT ![x] = http[y]]
          /\ auth' = [auth EXCEPT ![x] = auth[y]]
          /\ client' = [client EXCEPT ![x] = client[y]]
    /\ UNCHANGED <<world, begun, statements, outcome, lock, threads>>

StartTransaction(x) ==
    /\ x \in begun \ transactions /\ opened[x].no # 0
    /\ transactions' = transactions \cup {x}
    /\ opened' = [opened EXCEPT ![x].at = now]
    /\ UNCHANGED <<world, begun, statements, outcome, lock, members, threads>>

Finished(x) == \A t \in Threads : of[t] # x

\* DuckDB runs the next statement of the transaction, on threads that are free.
BeginStatement(x) ==
    /\ x \in transactions /\ Finished(x) /\ outcome[x] = "ok"
    /\ statements < MaxStatements
    /\ statements' = statements + 1
    /\ \E T \in SUBSET {t \in Threads : of[t] = None} \ {{}} :
          /\ of' = [t \in Threads |-> IF t \in T THEN x ELSE of[t]]
          /\ pc' = [t \in Threads |-> IF t \in T THEN "waiting" ELSE pc[t]]
    /\ UNCHANGED <<world, transactions, begun, outcome, opened, lock, members, ref, bearing, borne>>

\* What is no longer in the list is destroyed.
Kept(objects) == [y \in Txns |-> IF y \in transactions' THEN objects[y] ELSE None]

\* The search stops at another transaction.
Bug_EndTransaction(x) ==
    /\ x \in transactions /\ Finished(x)
    /\ \E y \in transactions : transactions' = transactions \ {y}
    /\ http' = Kept(http) /\ auth' = Kept(auth) /\ client' = Kept(client)
    /\ outcome' = [outcome EXCEPT ![x] = "ok"]
    /\ opened' = [opened EXCEPT ![x] = [at |-> 0, no |-> 0]]
    /\ borne' = [borne EXCEPT ![x] = {}]
    /\ UNCHANGED <<world, begun, statements, lock, of, pc, ref, bearing>>

\* CommitTransaction and RollbackTransaction; DuckDB calls one of them when the
\* last statement has ended, and nothing else can follow one that failed.
EndTransaction(x) ==
    /\ x \in transactions /\ Finished(x)
    /\ transactions' = transactions \ {x}
    /\ http' = Kept(http) /\ auth' = Kept(auth) /\ client' = Kept(client)
    /\ outcome' = [outcome EXCEPT ![x] = "ok"]
    /\ opened' = [opened EXCEPT ![x] = [at |-> 0, no |-> 0]]
    /\ borne' = [borne EXCEPT ![x] = {}]
    /\ UNCHANGED <<world, begun, statements, lock, of, pc, ref, bearing>>

-----------------------------------------------------------------------------
\* GetClient.

At(x, t, label) == of[t] = x /\ pc[t] = label
Goto(t, label) == pc' = [pc EXCEPT ![t] = label]

\* The thread is free again; what it had of the transaction goes with its state.
Leave(t) ==
    /\ Goto(t, "idle")
    /\ of' = [of EXCEPT ![t] = None]
    /\ ref' = [ref EXCEPT ![t] = 0]
    /\ bearing' = [bearing EXCEPT ![t] = None]

\* The lock is not looked at.
Bug_CanLock(x) == TRUE

CanLock(x) == lock[x] = None

\* The client is there.
GetClientBuilt(x, t) ==
    /\ At(x, t, "waiting") /\ CanLock(x) /\ client[x] # None
    /\ ref' = [ref EXCEPT ![t] = client[x].no]
    /\ Goto(t, "use")
    /\ UNCHANGED <<world, manager, lock, members, of, bearing, borne>>

\* Whether or not there is a client.
Bug_GetClientBuilds(x, t) ==
    /\ At(x, t, "waiting") /\ CanLock(x)
    /\ lock' = [lock EXCEPT ![x] = t]
    /\ Goto(t, "http")
    /\ UNCHANGED <<world, manager, members, of, ref, bearing, borne>>

\* It is not: this thread builds it, with the lock held.
GetClientBuilds(x, t) ==
    /\ At(x, t, "waiting") /\ CanLock(x) /\ client[x] = None
    /\ lock' = [lock EXCEPT ![x] = t]
    /\ Goto(t, "http")
    /\ UNCHANGED <<world, manager, members, of, ref, bearing, borne>>

\* The exception passes by the unlock.
Bug_Throw(x, t) ==
    /\ Leave(t)
    /\ outcome' = [outcome EXCEPT ![x] = "failed"]
    /\ UNCHANGED <<world, transactions, begun, statements, opened, lock, http, client, borne>>

\* An exception: the guard gives the lock back, what was assigned stays assigned.
Throw(x, t) ==
    /\ Leave(t)
    /\ lock' = [lock EXCEPT ![x] = None]
    /\ outcome' = [outcome EXCEPT ![x] = "failed"]
    /\ UNCHANGED <<world, transactions, begun, statements, opened, http, client, borne>>

Serial(object) == IF object = None THEN 0 ELSE object.no

\* The new object takes the place of the one that a failed attempt has left.
CreateHttpClient(x, t) ==
    /\ At(x, t, "http") /\ GetHttpProxyConfig # "malformed"
    /\ http' = [http EXCEPT ![x] = [no |-> Serial(http[x]) + 1, via |-> GetHttpProxyConfig]]
    /\ Goto(t, "auth")
    /\ UNCHANGED <<world, manager, lock, auth, client, of, ref, bearing, borne>>

CreateHttpClientThrows(x, t) ==
    /\ At(x, t, "http") /\ GetHttpProxyConfig = "malformed"
    /\ Throw(x, t) /\ UNCHANGED auth

\* What a lookup of the secret may find: the version in the snapshot that the user's
\* transaction has of the system catalog, taken when it first looks there, or the
\* one that its own connection has made since.
Seen(x) == {s \in replaced \cup {secret} : s.no >= opened[x].no}

\* BuildProvider: the provider refers to the HTTP client just made.
BuildProvider(x, s) ==
    [kind |-> s.kind, no |-> s.no, since |-> s.since, http |-> http[x].no,
     cachedToken |-> None, expirationTime |-> 0]

\* The constructor returns: the client is there for all threads.
Built(x, t, header) ==
    /\ client' = [client EXCEPT ![x] = [no |-> http[x].no, headers |-> header]]
    /\ ref' = [ref EXCEPT ![t] = http[x].no]
    /\ lock' = [lock EXCEPT ![x] = None]
    /\ Goto(t, "use")

\* That the secret has a token is not looked at.
Bug_BuildsWithToken(x, t) ==
    /\ At(x, t, "auth")
    /\ \E s \in Seen(x) :
          /\ s.kind # "key_file"
          /\ auth' = [auth EXCEPT ![x] = BuildProvider(x, s)]
          /\ Built(x, t, [no |-> s.no, minted |-> s.since])
    /\ UNCHANGED <<world, manager, http, of, bearing, borne>>

\* BuildHeaders asks the provider for the header, once and for all: a bearer
\* token is there,
BuildsWithToken(x, t) ==
    /\ At(x, t, "auth")
    /\ \E s \in Seen(x) :
          /\ s.kind = "token"
          /\ auth' = [auth EXCEPT ![x] = BuildProvider(x, s)]
          /\ Built(x, t, [no |-> s.no, minted |-> s.since])
    /\ UNCHANGED <<world, manager, http, of, bearing, borne>>

IsExpired(provider) == provider.cachedToken = None \/ now >= provider.expirationTime

\* and with a key it must be asked for.
BuildsWithKey(x, t) ==
    /\ At(x, t, "auth")
    /\ \E s \in Seen(x) :
          s.kind = "key_file" /\ auth' = [auth EXCEPT ![x] = BuildProvider(x, s)]
    /\ IsExpired(auth'[x])
    /\ Goto(t, "post")
    /\ UNCHANGED <<world, manager, lock, http, client, of, ref, bearing, borne>>

\* No provider comes of it.  Where no secret is named to ATTACH and none is found, the
\* null pointer is assigned before it is looked at.
CreateAuthThrows(x, t) ==
    /\ At(x, t, "auth")
    /\ \E s \in Seen(x) :
          \/ s.kind \in {"absent", "unusable"} /\ UNCHANGED auth
          \/ s.kind = "absent" /\ auth' = [auth EXCEPT ![x] = None]
    /\ Throw(x, t)

\* The token endpoint mints a token.
Mint(x, t) ==
    /\ At(x, t, "post")
    /\ bearing' = [bearing EXCEPT ![t] = [no |-> auth[x].no, minted |-> now]]
    /\ Goto(t, "answered")
    /\ UNCHANGED <<world, manager, lock, members, of, ref, borne>>

\* The answer arrives and is complete.
ExchangeJwtForToken(x, t) ==
    /\ At(x, t, "answered")
    /\ auth' = [auth EXCEPT ![x].cachedToken = bearing[t], ![x].expirationTime = now + Life - Margin]
    /\ bearing' = [bearing EXCEPT ![t] = None]
    /\ Built(x, t, bearing[t])
    /\ UNCHANGED <<world, manager, http, of, borne>>

\* The request is refused or lost, or its answer is of no use.
ExchangeThrows(x, t) ==
    /\ At(x, t, "post") \/ At(x, t, "answered")
    /\ Throw(x, t) /\ UNCHANGED auth

-----------------------------------------------------------------------------
\* What a thread does with the client, and when.

\* A request takes its headers from the client.
Send(x, t) ==
    /\ At(x, t, "use") /\ client[x] # None
    /\ bearing' = [bearing EXCEPT ![t] = client[x].headers]
    /\ borne' = [borne EXCEPT ![x] = @ \cup {client[x].headers}]
    /\ Goto(t, "sent")
    /\ UNCHANGED <<world, manager, lock, members, of, ref>>

Expired(header) == now >= header.minted + Life

\* The service's answer: 401 once the token is too old.
Served(x, t) ==
    /\ At(x, t, "sent")
    /\ IF Expired(bearing[t])
       THEN Leave(t) /\ outcome' = [outcome EXCEPT ![x] = "unauthorized"]
       ELSE Goto(t, "use") /\ bearing' = [bearing EXCEPT ![t] = None] /\ UNCHANGED <<of, ref, outcome>>
    /\ UNCHANGED <<world, transactions, begun, statements, opened, lock, members, borne>>

\* The thread has done its part, or is stopped because another has failed.
Stop(x, t) ==
    /\ At(x, t, "use")
    /\ Leave(t)
    /\ UNCHANGED <<world, manager, lock, members, borne>>

GetClient(x, t) ==
    \/ GetClientBuilt(x, t) \/ GetClientBuilds(x, t)
    \/ CreateHttpClient(x, t) \/ CreateHttpClientThrows(x, t)
    \/ BuildsWithToken(x, t) \/ BuildsWithKey(x, t) \/ CreateAuthThrows(x, t)
    \/ Mint(x, t) \/ ExchangeJwtForToken(x, t) \/ ExchangeThrows(x, t)

Next ==
    \/ Tick \/ SetProxy
    \/ \E kind \in Kinds : CreateSecret(kind)
    \/ \E x \in Txns :
          BeginTransaction(x) \/ StartTransaction(x) \/ BeginStatement(x) \/ EndTransaction(x)
    \/ \E x \in Txns, t \in Threads :
          GetClient(x, t) \/ Send(x, t) \/ Served(x, t) \/ Stop(x, t)

Init ==
    /\ now = 0
    /\ secret \in [kind : {"token", "key_file"}, no : {1}, since : {0}]
    /\ replaced = {}
    /\ proxy = [secret |-> NoSecret, setting |-> None]
    /\ changes = 0
    /\ transactions = {} /\ begun = {}
    /\ statements = 0
    /\ outcome = [x \in Txns |-> "ok"]
    /\ opened = [x \in Txns |-> [at |-> 0, no |-> 0]]
    /\ lock = [x \in Txns |-> None]
    /\ http = [x \in Txns |-> None]
    /\ auth = [x \in Txns |-> None]
    /\ client = [x \in Txns |-> None]
    /\ of = [t \in Threads |-> None]
    /\ pc = [t \in Threads |-> "idle"]
    /\ ref = [t \in Threads |-> 0]
    /\ bearing = [t \in Threads |-> None]
    /\ borne = [x \in Txns |-> {}]

Spec == Init /\ [][Next]_vars

\* DuckDB runs the threads of a statement; a request to the token endpoint ends.
FairSpec == Spec /\ \A t \in Threads : WF_vars(\E x \in Txns : GetClient(x, t))

-----------------------------------------------------------------------------
\* Properties.

\* A thread that has been given the client has the one the transaction still
\* owns, and so has the provider under construction its HTTP client: neither a
\* second thread, nor an attempt after a failed one, nor the end of another
\* transaction destroys what is in use.
NothingUsedIsDestroyed ==
    \A x \in Txns, t \in Threads :
       /\ of[t] = x /\ pc[t] \in Holding =>
             client[x] # None /\ http[x] # None /\ ref[t] = client[x].no /\ client[x].no = http[x].no
       /\ of[t] = x /\ pc[t] \in {"post", "answered"} =>
             http[x] # None /\ auth[x] # None /\ auth[x].http = http[x].no

\* All requests of a transaction bear one header: a secret that is replaced while
\* it runs does not split its statements between two accounts.
OneCredential == \A x \in Txns : Cardinality(borne[x]) <= 1

\* The header is of the secret that was there when the user's transaction began or
\* of a later one, and never what an earlier transaction has left.
CredentialIsCurrent == \A x \in Txns : \A h \in borne[x] : h.no >= opened[x].no

\* A token that the provider has asked for is refused for its age only in a
\* transaction that has gone on for as long as a token lives: a statement of its
\* own is not refused because of what ran before it.
UnauthorizedExplained ==
    \A x \in transactions :
       outcome[x] = "unauthorized" /\ auth[x].kind = "key_file" => now >= opened[x].at + Life

\* Whoever asks for the client gets it or an error, also after another thread's
\* attempt has failed.
ClientObtained ==
    \A t \in Threads : (pc[t] \in {"waiting"} \cup Building) ~> (pc[t] \in {"idle"} \cup Holding)
=============================================================================
