----------------------- MODULE TransactionClientProofs -----------------------
(* The safety properties of TransactionClient for any number of transactions *)
(* and threads: no object is destroyed while in use, and which credentials a *)
(* transaction's requests bear.                                              *)
EXTENDS TransactionClient, FiniteSetTheorems, TLAPS

\* A thread that builds has the lock, and whoever has the lock builds.
LockOK ==
    /\ \A t \in Threads : pc[t] \in Building => of[t] \in Txns /\ lock[of[t]] = t
    /\ \A x \in Txns : lock[x] # None => of[lock[x]] = x /\ pc[lock[x]] \in Building

\* Threads work for transactions in the list, one that builds for one without a client.
WorkOK ==
    \A t \in Threads :
       /\ pc[t] = "idle" <=> of[t] = None
       /\ of[t] # None => of[t] \in transactions
       /\ pc[t] \in Building => client[of[t]] = None
       /\ pc[t] \in Holding => client[of[t]] # None /\ ref[t] = client[of[t]].no
       /\ pc[t] = "sent" => bearing[t] = client[of[t]].headers

\* A thread that builds has made what the next step needs.
BuildOK ==
    \A t \in Threads :
       /\ pc[t] \in {"auth", "post", "answered"} => http[of[t]] # None
       /\ pc[t] \in {"post", "answered"} =>
             /\ auth[of[t]] # None
             /\ auth[of[t]].http = http[of[t]].no
             /\ auth[of[t]].no >= opened[of[t]].no
       /\ pc[t] = "answered" =>
             /\ bearing[t] \in Header
             /\ bearing[t].no >= opened[of[t]].no
             /\ bearing[t].minted >= opened[of[t]].at

\* A client is of its transaction's making, and the requests bear its header.
ClientOK ==
    \A x \in Txns :
       /\ opened[x].no <= secret.no /\ opened[x].at <= now
       /\ client[x] # None =>
             /\ x \in transactions
             /\ http[x] # None /\ auth[x] # None
             /\ client[x].no = http[x].no
             /\ client[x].headers.no >= opened[x].no
             /\ auth[x].kind = "key_file" => client[x].headers.minted >= opened[x].at
             /\ borne[x] \subseteq {client[x].headers}
       /\ client[x] = None => borne[x] = {} /\ outcome[x] # "unauthorized"
       /\ outcome[x] = "unauthorized" /\ auth[x].kind = "key_file" => now >= opened[x].at + Life

IInv == TypeOK /\ LockOK /\ WorkOK /\ BuildOK /\ ClientOK

-----------------------------------------------------------------------------
\* The initial states satisfy the invariant.
LEMMA InitInv == Init => IInv
<1> USE NoneAssumption, ProxyAssumption, BoundAssumption DEF Init
<1>1. Init => TypeOK
  BY DEF TypeOK, Secret, Kinds, Outcomes
<1>2. Init => LockOK /\ WorkOK /\ BuildOK /\ ClientOK
  BY DEF LockOK, WorkOK, BuildOK, ClientOK, Building, Holding
<1> QED BY <1>1, <1>2 DEF IInv

\* What others do keeps it.
LEMMA WorldSteps ==
    ASSUME IInv, Tick \/ SetProxy \/ \E kind \in Kinds : CreateSecret(kind)
    PROVE  IInv'
<1> USE DEF IInv, manager, members, threads
<1>1. now' \in Nat /\ now' >= now /\ secret' \in Secret /\ secret'.no >= secret.no
  BY DEF Tick, SetProxy, CreateSecret, TypeOK, Secret
<1>2. TypeOK'
  BY <1>1, ProxyAssumption, BoundAssumption DEF Tick, SetProxy, CreateSecret, TypeOK, Secret
<1>3. UNCHANGED <<manager, lock, members, threads>>
  BY DEF Tick, SetProxy, CreateSecret
<1>4. LockOK' /\ WorkOK' /\ BuildOK'
  BY <1>3 DEF LockOK, WorkOK, BuildOK
<1>5. ClientOK'
  BY <1>1, <1>3, TimeAssumption DEF ClientOK, TypeOK, Secret
<1> QED BY <1>2, <1>4, <1>5

\* The transaction manager's steps keep it.
LEMMA ManagerSteps ==
    ASSUME IInv, NEW x \in Txns,
           BeginTransaction(x) \/ StartTransaction(x) \/ BeginStatement(x) \/ EndTransaction(x)
    PROVE  IInv'
<1> USE DEF IInv, world, members, threads
<1>1. CASE StartTransaction(x)
  <2>1. TypeOK'
    BY <1>1 DEF StartTransaction, TypeOK, Secret
  <2>2. client[x] = None
    BY <1>1 DEF StartTransaction, ClientOK, TypeOK
  <2>3. LockOK' /\ WorkOK'
    BY <1>1 DEF StartTransaction, LockOK, WorkOK
  <2>4. \A t \in Threads : of[t] # x
    BY <1>1, NoneAssumption DEF StartTransaction, WorkOK, TypeOK
  <2>5. BuildOK'
    BY <1>1, <2>4 DEF StartTransaction, BuildOK, TypeOK
  <2>6. ClientOK'
    BY <1>1, <2>2 DEF StartTransaction, ClientOK, TypeOK, Secret
  <2> QED BY <2>1, <2>3, <2>5, <2>6
<1>2. CASE BeginStatement(x)
  <2>1. PICK T \in SUBSET {t \in Threads : of[t] = None} \ {{}} :
           /\ of' = [t \in Threads |-> IF t \in T THEN x ELSE of[t]]
           /\ pc' = [t \in Threads |-> IF t \in T THEN "waiting" ELSE pc[t]]
    BY <1>2 DEF BeginStatement
  <2>2. TypeOK'
    BY <1>2, <2>1, BoundAssumption DEF BeginStatement, TypeOK
  <2>3. \A t \in T : pc[t] = "idle"
    BY <2>1 DEF WorkOK
  <2>4. LockOK'
    BY <1>2, <2>1, <2>3, NoneAssumption DEF BeginStatement, LockOK, TypeOK, Building
  <2>5. WorkOK' /\ BuildOK'
    BY <1>2, <2>1, NoneAssumption DEF BeginStatement, WorkOK, BuildOK, TypeOK, Building, Holding
  <2>6. ClientOK'
    BY <1>2 DEF BeginStatement, ClientOK
  <2> QED BY <2>2, <2>4, <2>5, <2>6
<1>3. CASE EndTransaction(x)
  <2>1. /\ transactions' = transactions \ {x}
        /\ \A y \in Txns : y # x /\ y \in transactions =>
              http'[y] = http[y] /\ auth'[y] = auth[y] /\ client'[y] = client[y]
        /\ \A y \in Txns : y \notin transactions' => client'[y] = None
    BY <1>3 DEF EndTransaction, Kept
  <2>2. \A t \in Threads : of[t] # x
    BY <1>3 DEF EndTransaction, Finished
  <2>3. TypeOK'
    BY <1>3 DEF EndTransaction, Kept, TypeOK, Outcomes
  <2>4. LockOK' /\ WorkOK' /\ BuildOK'
    BY <1>3, <2>1, <2>2 DEF EndTransaction, LockOK, WorkOK, BuildOK, TypeOK, Building, Holding
  <2>5. ClientOK'
    <3> SUFFICES ASSUME NEW y \in Txns
                 PROVE  ClientOK!(y)'
      BY DEF ClientOK
    <3>1. CASE y = x
      BY <1>3, <2>1, <3>1 DEF EndTransaction, ClientOK, TypeOK, Secret
    <3>2. CASE y # x
      BY <1>3, <2>1, <3>2 DEF EndTransaction, ClientOK, TypeOK
    <3> QED BY <3>1, <3>2
  <2> QED BY <2>3, <2>4, <2>5
<1>4. CASE BeginTransaction(x)
  <2>1. TypeOK'
    BY <1>4 DEF BeginTransaction, TypeOK, Secret
  <2>2. x \notin transactions /\ client[x] = None
    BY <1>4 DEF BeginTransaction, ClientOK, TypeOK
  <2>3. LockOK' /\ WorkOK'
    BY <1>4 DEF BeginTransaction, LockOK, WorkOK
  <2>4. \A t \in Threads : of[t] # x
    BY <2>2, NoneAssumption DEF WorkOK, TypeOK
  <2>5. BuildOK'
    BY <1>4, <2>4 DEF BeginTransaction, BuildOK, TypeOK, LockOK, Building
  <2>6. ClientOK'
    BY <1>4, <2>2 DEF BeginTransaction, ClientOK, TypeOK, Secret
  <2> QED BY <2>1, <2>3, <2>5, <2>6
<1> QED BY <1>1, <1>2, <1>3, <1>4

\* A thread that throws or leaves takes nothing with it.
LEMMA ThrowStep ==
    ASSUME IInv, NEW x \in Txns, NEW t \in Threads, of[t] = x, pc[t] \in Building, Throw(x, t),
           auth' = auth \/ auth' = [auth EXCEPT ![x] = None]
    PROVE  IInv'
<1> USE NoneAssumption DEF IInv, world, members
<1>1. lock[x] = t /\ client[x] = None
  BY DEF LockOK, WorkOK
<1>2. TypeOK'
  BY DEF Throw, Leave, Goto, TypeOK, Outcomes
<1>3. LockOK'
  BY <1>1 DEF Throw, Leave, Goto, LockOK, TypeOK, Building
<1>4. WorkOK' /\ BuildOK'
  <2>1. WorkOK'
    BY DEF Throw, Leave, Goto, WorkOK, TypeOK, Building, Holding
  <2>2. \A u \in Threads : u # t /\ pc[u] \in Building => of[u] \in Txns /\ of[u] # x
    BY <1>1 DEF LockOK
  <2>3. BuildOK'
    BY <2>2 DEF Throw, Leave, Goto, BuildOK, TypeOK, Building
  <2> QED BY <2>1, <2>3
<1>5. ClientOK'
  BY <1>1 DEF Throw, Leave, Goto, ClientOK, TypeOK
<1> QED BY <1>2, <1>3, <1>4, <1>5

\* What holds once a client has been built from the provider in hand.
LEMMA BuiltStep ==
    ASSUME IInv, NEW x \in Txns, NEW t \in Threads, of[t] = x, pc[t] \in {"auth", "answered"},
           NEW header \in Header, header.no >= opened[x].no,
           Built(x, t, header),
           auth' \in [Txns -> AuthProvider \cup {None}], auth'[x] # None,
           \A y \in Txns : y # x => auth'[y] = auth[y],
           auth'[x].kind = "key_file" => header.minted >= opened[x].at,
           bearing' \in [Threads -> Header \cup {None}],
           \A u \in Threads : u # t => bearing'[u] = bearing[u],
           UNCHANGED <<world, manager, http, of, borne>>
    PROVE  IInv'
<1> USE NoneAssumption DEF IInv, world, manager
<1>1. /\ lock[x] = t /\ client[x] = None /\ x \in transactions /\ http[x] # None
      /\ \A u \in Threads : u # t /\ of[u] = x => pc[u] \notin Building \cup Holding
  BY DEF LockOK, WorkOK, BuildOK, Building
<1>2. [no |-> http[x].no, headers |-> header] \in Client
  BY <1>1 DEF TypeOK, Client, HttpClient
<1>3. /\ client' = [client EXCEPT ![x] = [no |-> http[x].no, headers |-> header]]
      /\ ref' = [ref EXCEPT ![t] = http[x].no]
      /\ lock' = [lock EXCEPT ![x] = None]
      /\ pc' = [pc EXCEPT ![t] = "use"]
  BY DEF Built, Goto
<1>4. client'[x] # None /\ client'[x].no = http[x].no /\ client'[x].headers = header
  BY <1>2, <1>3 DEF TypeOK
<1>5. TypeOK'
  <2>1. http[x].no \in Nat
    BY <1>1 DEF TypeOK, HttpClient
  <2> QED BY <1>2, <1>3, <2>1 DEF TypeOK, Holding
<1>6. LockOK'
  BY <1>1, <1>3 DEF LockOK, TypeOK, Building
<1>7. WorkOK'
  BY <1>1, <1>3, <1>4 DEF WorkOK, TypeOK, Building, Holding
<1>8. BuildOK'
  <2> SUFFICES ASSUME NEW u \in Threads, pc'[u] \in {"auth", "post", "answered"}
               PROVE  BuildOK!(u)'
    BY DEF BuildOK
  <2>1. u # t /\ pc[u] = pc'[u] /\ of[u] \in Txns /\ of[u] # x
    BY <1>1, <1>3 DEF LockOK, TypeOK, Building
  <2>2. auth'[of[u]] = auth[of[u]] /\ bearing'[u] = bearing[u]
    BY <2>1
  <2> QED BY <2>1, <2>2 DEF BuildOK
<1>9. ClientOK'
  BY <1>1, <1>3, <1>4 DEF ClientOK, TypeOK
<1> QED BY <1>5, <1>6, <1>7, <1>8, <1>9

\* GetClient keeps the invariant.
LEMMA GetClientSteps ==
    ASSUME IInv, NEW x \in Txns, NEW t \in Threads, GetClient(x, t)
    PROVE  IInv'
<1> USE NoneAssumption DEF IInv, world, manager, members, At
<1>1. CASE GetClientBuilt(x, t)
  <2>1. client[x] \in Client
    BY <1>1 DEF GetClientBuilt, TypeOK
  <2>2. TypeOK'
    BY <1>1, <2>1 DEF GetClientBuilt, Goto, TypeOK, Client, Holding
  <2>3. LockOK' /\ ClientOK'
    BY <1>1 DEF GetClientBuilt, Goto, LockOK, ClientOK, TypeOK, Building
  <2>4. WorkOK' /\ BuildOK'
    BY <1>1 DEF GetClientBuilt, Goto, WorkOK, BuildOK, TypeOK, Building, Holding
  <2> QED BY <2>2, <2>3, <2>4
<1>2. CASE GetClientBuilds(x, t)
  <2>1. TypeOK'
    BY <1>2 DEF GetClientBuilds, Goto, TypeOK, Building
  <2>2. LockOK'
    BY <1>2 DEF GetClientBuilds, CanLock, Goto, LockOK, TypeOK, Building
  <2>3. WorkOK' /\ BuildOK' /\ ClientOK'
    BY <1>2 DEF GetClientBuilds, Goto, WorkOK, BuildOK, ClientOK, TypeOK, Building, Holding
  <2> QED BY <2>1, <2>2, <2>3
<1>3. CASE CreateHttpClient(x, t)
  <2> DEFINE new == [no |-> Serial(http[x]) + 1, via |-> GetHttpProxyConfig]
  <2>1. new \in HttpClient
    BY DEF TypeOK, HttpClient, Serial, GetHttpProxyConfig
  <2>2. lock[x] = t /\ client[x] = None
    BY <1>3 DEF CreateHttpClient, LockOK, WorkOK, Building
  <2>3. http' = [http EXCEPT ![x] = new] /\ pc' = [pc EXCEPT ![t] = "auth"] /\ new # None
    BY <1>3, <2>1 DEF CreateHttpClient, Goto
  <2> HIDE DEF new
  <2>4. TypeOK'
    BY <1>3, <2>1, <2>3 DEF CreateHttpClient, TypeOK, Building
  <2>5. LockOK' /\ WorkOK' /\ ClientOK'
    BY <1>3, <2>2, <2>3 DEF CreateHttpClient, LockOK, WorkOK, ClientOK, TypeOK, Building, Holding
  <2>6. BuildOK'
    BY <1>3, <2>2, <2>3 DEF CreateHttpClient, LockOK, BuildOK, TypeOK, Building
  <2> QED BY <2>4, <2>5, <2>6
<1>4. CASE CreateHttpClientThrows(x, t) \/ CreateAuthThrows(x, t) \/ ExchangeThrows(x, t)
  BY <1>4, ThrowStep DEF CreateHttpClientThrows, CreateAuthThrows, ExchangeThrows, Building
<1>5. CASE BuildsWithToken(x, t) \/ BuildsWithKey(x, t)
  <2>1. http[x] # None /\ lock[x] = t /\ client[x] = None
    BY <1>5 DEF BuildsWithToken, BuildsWithKey, LockOK, WorkOK, BuildOK, Building
  <2>2. PICK s \in Seen(x) :
          /\ auth' = [auth EXCEPT ![x] = BuildProvider(x, s)]
          /\ \/ /\ s.kind = "token" /\ BuildsWithToken(x, t)
                /\ Built(x, t, [no |-> s.no, minted |-> s.since])
             \/ s.kind = "key_file" /\ BuildsWithKey(x, t)
    BY <1>5 DEF BuildsWithToken, BuildsWithKey
  <2>3. s \in Secret /\ s.no >= opened[x].no /\ s.no \in Nat /\ s.since \in Nat
    BY DEF Seen, TypeOK, Secret
  <2>4. BuildProvider(x, s) \in AuthProvider
    BY <2>1, <2>2, <2>3 DEF BuildProvider, TypeOK, AuthProvider, HttpClient
  <2>5. /\ auth'[x] = BuildProvider(x, s) /\ auth'[x] # None
        /\ auth' \in [Txns -> AuthProvider \cup {None}]
        /\ \A y \in Txns : y # x => auth'[y] = auth[y]
        /\ auth'[x].kind = s.kind /\ auth'[x].no = s.no /\ auth'[x].http = http[x].no
    <3>1. BuildProvider(x, s).kind = s.kind /\ BuildProvider(x, s).no = s.no
          /\ BuildProvider(x, s).http = http[x].no
      BY DEF BuildProvider
    <3> HIDE DEF BuildProvider
    <3> QED BY <2>2, <2>4, <3>1 DEF TypeOK
  <2>6. CASE s.kind = "token" /\ BuildsWithToken(x, t)
    <3> DEFINE header == [no |-> s.no, minted |-> s.since]
    <3>1. /\ Built(x, t, header) /\ auth'[x].kind # "key_file"
          /\ UNCHANGED <<world, manager, http, of, borne, bearing>>
          /\ of[t] = x /\ pc[t] = "auth"
      BY <2>2, <2>5, <2>6 DEF BuildsWithToken
    <3>2. header \in Header /\ header.no >= opened[x].no
      BY <2>3 DEF Header
    <3>3. bearing' \in [Threads -> Header \cup {None}]
      BY <3>1 DEF TypeOK
    <3> HIDE DEF header
    <3> QED BY <2>5, <3>1, <3>2, <3>3, BuiltStep
  <2>7. CASE BuildsWithKey(x, t)
    <3>1. TypeOK'
      BY <2>5, <2>7 DEF BuildsWithKey, Goto, TypeOK, Building
    <3>2. LockOK' /\ WorkOK'
      BY <2>1, <2>7 DEF BuildsWithKey, Goto, LockOK, WorkOK, TypeOK, Building, Holding
    <3>3. BuildOK'
      BY <2>1, <2>3, <2>5, <2>7 DEF BuildsWithKey, Goto, BuildOK, LockOK, TypeOK, Building
    <3>4. ClientOK'
      BY <2>1, <2>5, <2>7 DEF BuildsWithKey, Goto, ClientOK, TypeOK
    <3> QED BY <3>1, <3>2, <3>3, <3>4
  <2> QED BY <2>2, <2>6, <2>7
<1>6. CASE Mint(x, t)
  <2>1. lock[x] = t /\ client[x] = None /\ auth[x] \in AuthProvider /\ auth[x].no >= opened[x].no
    BY <1>6 DEF Mint, LockOK, WorkOK, BuildOK, TypeOK, Building
  <2> DEFINE token == [no |-> auth[x].no, minted |-> now]
  <2>2. token \in Header /\ token.no >= opened[x].no /\ token.minted >= opened[x].at
    BY <2>1 DEF Header, AuthProvider, TypeOK, ClientOK
  <2>3. bearing' = [bearing EXCEPT ![t] = token] /\ pc' = [pc EXCEPT ![t] = "answered"]
    BY <1>6 DEF Mint, Goto
  <2> HIDE DEF token
  <2>4. TypeOK'
    BY <1>6, <2>2, <2>3 DEF Mint, TypeOK, Building
  <2>5. LockOK' /\ WorkOK' /\ ClientOK'
    BY <1>6, <2>3 DEF Mint, LockOK, WorkOK, ClientOK, TypeOK, Building, Holding
  <2>6. BuildOK'
    BY <1>6, <2>2, <2>3 DEF Mint, BuildOK, TypeOK
  <2> QED BY <2>4, <2>5, <2>6
<1>7. CASE ExchangeJwtForToken(x, t)
  <2>1. /\ bearing[t] \in Header /\ bearing[t].no >= opened[x].no /\ bearing[t].minted >= opened[x].at
        /\ auth[x] \in AuthProvider
    BY <1>7 DEF ExchangeJwtForToken, BuildOK, TypeOK
  <2>2. now + Life - Margin \in Nat
    BY TimeAssumption DEF TypeOK
  <2> DEFINE cached == [auth[x] EXCEPT !.cachedToken = bearing[t], !.expirationTime = now + Life - Margin]
  <2>3. cached \in AuthProvider
    BY <2>1, <2>2 DEF AuthProvider
  <2>4. /\ auth' = [auth EXCEPT ![x] = cached]
        /\ bearing' = [bearing EXCEPT ![t] = None]
    BY <1>7 DEF ExchangeJwtForToken, TypeOK
  <2> HIDE DEF cached
  <2>5. auth' \in [Txns -> AuthProvider \cup {None}] /\ auth'[x] # None
    BY <2>3, <2>4 DEF TypeOK
  <2>6. bearing' \in [Threads -> Header \cup {None}]
    BY <2>4 DEF TypeOK
  <2>7. /\ \A y \in Txns : y # x => auth'[y] = auth[y]
        /\ \A u \in Threads : u # t => bearing'[u] = bearing[u]
    BY <2>4 DEF TypeOK
  <2>8. /\ of[t] = x /\ pc[t] = "answered" /\ Built(x, t, bearing[t])
        /\ UNCHANGED <<world, manager, http, of, borne>>
    BY <1>7 DEF ExchangeJwtForToken
  <2> QED BY <2>1, <2>5, <2>6, <2>7, <2>8, BuiltStep
<1> QED BY <1>1, <1>2, <1>3, <1>4, <1>5, <1>6, <1>7 DEF GetClient

\* The use of the client keeps the invariant.
LEMMA UseSteps ==
    ASSUME IInv, NEW x \in Txns, NEW t \in Threads, Send(x, t) \/ Served(x, t) \/ Stop(x, t)
    PROVE  IInv'
<1> USE NoneAssumption DEF IInv, world, manager, members, At
<1>1. of[t] = x /\ pc[t] \in Holding
  BY DEF Send, Served, Stop, Holding
<1>2. client[x] # None /\ client[x] \in Client /\ x \in transactions /\ lock[x] # t
  BY <1>1 DEF WorkOK, LockOK, TypeOK, Building, Holding
<1>3. CASE Send(x, t)
  <2>1. client[x].headers \in Header
    BY <1>2 DEF Client
  <2>2. TypeOK'
    BY <1>3, <2>1 DEF Send, Goto, TypeOK, Holding
  <2>3. LockOK' /\ WorkOK' /\ BuildOK'
    BY <1>3 DEF Send, Goto, LockOK, WorkOK, BuildOK, TypeOK, Building, Holding
  <2>4. ClientOK'
    BY <1>2, <1>3 DEF Send, Goto, ClientOK, TypeOK
  <2> QED BY <2>2, <2>3, <2>4
<1>4. CASE Stop(x, t)
  <2>1. TypeOK'
    BY <1>4 DEF Stop, Leave, Goto, TypeOK
  <2>2. LockOK'
    BY <1>4 DEF Stop, Leave, Goto, LockOK, TypeOK, Building, Holding
  <2>3. WorkOK'
    BY <1>4 DEF Stop, Leave, Goto, WorkOK, TypeOK, Building, Holding
  <2>4. BuildOK'
    BY <1>4 DEF Stop, Leave, Goto, BuildOK, TypeOK, Building, Holding
  <2>5. ClientOK'
    BY <1>4 DEF Stop, Leave, Goto, ClientOK, TypeOK
  <2> QED BY <2>1, <2>2, <2>3, <2>4, <2>5
<1>5. CASE Served(x, t) /\ ~Expired(bearing[t])
  <2>1. TypeOK'
    BY <1>5 DEF Served, Goto, TypeOK, Holding
  <2>2. LockOK'
    BY <1>5 DEF Served, Goto, LockOK, TypeOK, Building, Holding
  <2>3. WorkOK'
    BY <1>5 DEF Served, Goto, WorkOK, TypeOK, Building, Holding
  <2>4. BuildOK'
    BY <1>5 DEF Served, Goto, BuildOK, TypeOK, Building, Holding
  <2>5. ClientOK'
    BY <1>5 DEF Served, Goto, ClientOK, TypeOK
  <2> QED BY <2>1, <2>2, <2>3, <2>4, <2>5
<1>6. CASE Served(x, t) /\ Expired(bearing[t])
  <2>1. /\ outcome' = [outcome EXCEPT ![x] = "unauthorized"]
        /\ UNCHANGED <<world, opened, transactions, lock, members, borne>> /\ Leave(t)
    BY <1>6 DEF Served
  <2>2. TypeOK'
    BY <1>6, <2>1 DEF Served, Leave, Goto, TypeOK, Outcomes
  <2>3. LockOK' /\ WorkOK' /\ BuildOK'
    <3>1. LockOK'
      BY <1>1, <2>1 DEF Leave, Goto, LockOK, TypeOK, Building, Holding
    <3>2. WorkOK'
      BY <1>1, <2>1 DEF Leave, Goto, WorkOK, TypeOK, Building, Holding
    <3>3. BuildOK'
      BY <1>1, <2>1 DEF Leave, Goto, BuildOK, TypeOK, Building, Holding
    <3> QED BY <3>1, <3>2, <3>3
  <2>4. bearing[t] = client[x].headers /\ client[x].headers \in Header
    BY <1>2, <1>6 DEF Served, WorkOK, Client
  <2>5. auth[x].kind = "key_file" => now >= opened[x].at + Life
    BY <1>2, <1>6, <2>4, TimeAssumption DEF Expired, ClientOK, Header, TypeOK
  <2>6. ClientOK'
    BY <1>2, <2>1, <2>5 DEF ClientOK, TypeOK
  <2> QED BY <2>2, <2>3, <2>6
<1> QED BY <1>3, <1>4, <1>5, <1>6

\* Every step keeps the invariant, and so it always holds.
THEOREM Invariance == Spec => []IInv
<1>1. ASSUME IInv, [Next]_vars
      PROVE  IInv'
  <2>1. CASE Next
    BY <1>1, <2>1, WorldSteps, ManagerSteps, GetClientSteps, UseSteps DEF Next
  <2>2. CASE UNCHANGED vars
    <3>1. UNCHANGED <<world, manager, lock, members, threads>>
      BY <2>2 DEF vars
    <3> QED BY <1>1, <3>1 DEF IInv, TypeOK, LockOK, WorkOK, BuildOK, ClientOK, world, manager, members, threads
  <2> QED BY <1>1, <2>1, <2>2
<1> QED BY InitInv, <1>1, PTL DEF Spec

\* The client's life keeps its types, for any number of transactions and threads.
THEOREM TypeCorrect == Spec => []TypeOK
<1>1. IInv => TypeOK
  BY DEF IInv
<1> QED BY Invariance, <1>1, PTL

\* No thread uses an object of the client's that has been destroyed.
THEOREM NothingDestroyed == Spec => []NothingUsedIsDestroyed
<1>1. IInv => NothingUsedIsDestroyed
  BY DEF IInv, WorkOK, BuildOK, ClientOK, NothingUsedIsDestroyed
<1> QED BY Invariance, <1>1, PTL

\* A transaction's requests bear one header.
THEOREM OneHeader == Spec => []OneCredential
<1>1. IInv => OneCredential
  <2> SUFFICES ASSUME IInv, NEW x \in Txns
               PROVE  Cardinality(borne[x]) <= 1
    BY DEF OneCredential
  <2>1. borne[x] = {} \/ borne[x] = {client[x].headers}
    BY DEF IInv, ClientOK
  <2>2. Cardinality({}) = 0 /\ Cardinality({client[x].headers}) = 1
    BY FS_EmptySet, FS_Singleton
  <2> QED BY <2>1, <2>2
<1> QED BY Invariance, <1>1, PTL

\* They bear a header of a secret no older than the transaction.
THEOREM HeaderCurrent == Spec => []CredentialIsCurrent
<1>1. IInv => CredentialIsCurrent
  BY DEF IInv, ClientOK, CredentialIsCurrent
<1> QED BY Invariance, <1>1, PTL

\* A token asked for by the provider is not refused in a transaction that has
\* not outlived one.
THEOREM RefusalExplained == Spec => []UnauthorizedExplained
<1>1. IInv => UnauthorizedExplained
  BY DEF IInv, TypeOK, ClientOK, UnauthorizedExplained
<1> QED BY Invariance, <1>1, PTL
=============================================================================
