------------------------------ MODULE OAuthFlow ------------------------------
(***************************************************************************)
(* InitiateOAuthFlow: one thread asks the user for authorization in a       *)
(* browser and waits, at most 300 s, for Google's redirect to a loopback    *)
(* listener; the listener hands every hit to a worker thread, which runs    *)
(* the GET / handler.  The handler and the flow share a mutex, a condition  *)
(* variable and the captured_* strings, all of them locals of the flow.     *)
(*                                                                         *)
(* Hits on the listener: the redirect of this flow, granted or denied, also *)
(* repeated (a reloaded tab), and whatever else may ask the port for GET /: *)
(* the redirect of an earlier flow still open in a tab, or of a program     *)
(* that used the port before, with any of the parameters or none.           *)
(***************************************************************************)
EXTENDS Naturals

CONSTANTS
    Hits,     \* requests that may reach the listener
    Others    \* what they may carry besides the redirect of this flow

None == "none"
Empty == ""

\* What a hit carries: the parameters `error`, `code` and `state`, each None when
\* absent.  The state of this flow is in its own redirect only.
Granted == [error |-> None, code |-> "code", state |-> "ours"]
Denied  == [error |-> "access_denied", code |-> None, state |-> "ours"]
Bare    == [error |-> None, code |-> None, state |-> None]
Foreign == [error : {None, Empty, "access_denied"}, code : {None, Empty, "other code"},
            state : {None, Empty, "other"}]
Kinds   == {Granted, Denied} \cup Others

Captured == [error : {Empty, "access_denied"}, code : {Empty, "code", "other code"},
             state : {Empty, "ours", "other"}]

Flow == "flow"
ASSUME HitsAssumption == None \notin Hits /\ Flow \notin Hits
ASSUME OthersAssumption == Others \subseteq Foreign

VARIABLES
    pc,         \* where the flow is
    mtx,        \* who holds the mutex: None, Flow or a hit's worker
    done,       \* the flag the condition variable is about
    captured,   \* captured_error, captured_code, captured_state
    notified,   \* a notify_one that the waiting flow has not yet seen
    expired,    \* the 300 s are over
    server,     \* "down", "up" (accepting), "stopping", "stopped"
    worker,     \* state of each hit's worker thread
    keychain,   \* a refresh token is cached
    result      \* None, "token", or the error the flow ended with

vars == <<pc, mtx, done, captured, notified, expired, server, worker, keychain, result>>
shared == <<mtx, done, captured, notified, expired, server, worker, keychain>>

-----------------------------------------------------------------------------
\* The listener.  httplib's accept loop queues each connection for a worker and,
\* once stopped, waits for the workers before listen_after_bind returns.

Hit(h) ==
    /\ server = "up"
    /\ worker[h].at = "away"
    /\ \E k \in Kinds : worker' = [worker EXCEPT ![h] = [at |-> "queued", params |-> k]]
    /\ UNCHANGED <<pc, mtx, done, captured, notified, expired, server, keychain, result>>

Kept(new, old) == IF new = None THEN old ELSE new

\* The handler's critical section: every parameter present overwrites what was
\* captured, and any hit whatever sets done.
HandlerLocks(h) ==
    /\ worker[h].at = "queued"
    /\ mtx = None
    /\ mtx' = h
    /\ captured' = [error |-> Kept(worker[h].params.error, captured.error),
                    code  |-> Kept(worker[h].params.code, captured.code),
                    state |-> Kept(worker[h].params.state, captured.state)]
    /\ done' = TRUE
    /\ worker' = [worker EXCEPT ![h].at = "locked"]
    /\ UNCHANGED <<pc, notified, expired, server, keychain, result>>

HandlerUnlocks(h) ==
    /\ worker[h].at = "locked"
    /\ mtx' = None
    /\ worker' = [worker EXCEPT ![h].at = "unlocked"]
    /\ UNCHANGED <<pc, done, captured, notified, expired, server, keychain, result>>

\* cv.notify_one; a notification nobody waits for is lost.
HandlerNotifies(h) ==
    /\ worker[h].at = "unlocked"
    /\ notified' = (pc = "waiting" \/ notified)
    /\ worker' = [worker EXCEPT ![h].at = "answering"]
    /\ UNCHANGED <<pc, mtx, done, captured, expired, server, keychain, result>>

\* The page, worded by captured_error and captured_code read without the mutex.
HandlerAnswers(h) ==
    /\ worker[h].at = "answering"
    /\ worker' = [worker EXCEPT ![h].at = "ended"]
    /\ UNCHANGED <<pc, mtx, done, captured, notified, expired, server, keychain, result>>

Handler(h) == HandlerLocks(h) \/ HandlerUnlocks(h) \/ HandlerNotifies(h) \/ HandlerAnswers(h)

\* listen_after_bind returns: no worker is left.
WorkersGone == \A h \in Hits : worker[h].at \in {"away", "ended"}

\* 300 s pass while the flow waits.
Expire ==
    /\ pc = "waiting"
    /\ ~expired
    /\ expired' = TRUE
    /\ UNCHANGED <<pc, mtx, done, captured, notified, server, worker, keychain, result>>

-----------------------------------------------------------------------------
\* The flow's own thread.

Goto(l) == pc' = l /\ UNCHANGED result
Return(r) == pc' = "returned" /\ result' = r

\* A refresh token from an earlier flow; off macOS there is none.
KeychainGet == keychain

\* Deletes the item, then adds the new one; either may fail, which only warns.  Off
\* macOS it does nothing.
KeychainSet == keychain' \in {keychain, TRUE, FALSE}

\* The cached token gives an access token, or else it is on to the browser.
RefreshAccessToken == Return("token") \/ Goto("bind")

\* No client id: BinderException.  Otherwise a cached refresh token is tried first.
Begin ==
    /\ pc = "begin"
    /\ \/ Return("no client id")
       \/ KeychainGet /\ RefreshAccessToken
       \/ ~KeychainGet /\ Goto("bind")
    /\ UNCHANGED shared

\* Binding the port fails, or the listener thread starts and the browser opens.
Bind ==
    /\ pc = "bind"
    /\ \/ Return("cannot bind") /\ UNCHANGED server
       \/ Goto("lock") /\ server' = "up"
    /\ UNCHANGED <<mtx, done, captured, notified, expired, worker, keychain>>

\* unique_lock, then wait_for: the predicate is tried first, and with the mutex
\* held; if it is false the flow sleeps and the mutex is free.
EnterWait ==
    /\ pc = "lock"
    /\ mtx = None
    /\ Goto(IF done THEN "stop" ELSE "waiting")
    /\ notified' = FALSE
    /\ UNCHANGED <<mtx, done, captured, expired, server, worker, keychain>>

\* The flow gives up although a redirect came in while it woke up.
Bug_WakeTrustsTimer ==
    /\ pc = "waiting"
    /\ notified \/ expired
    /\ mtx = None
    /\ IF expired THEN Goto("timeout stop") /\ mtx' = Flow ELSE Goto("stop") /\ UNCHANGED mtx
    /\ notified' = FALSE
    /\ UNCHANGED <<done, captured, expired, server, worker, keychain>>

\* wait_for wakes up, takes the mutex and tries the predicate again: done, and the
\* mutex is given back; timed out, and it is kept; neither, and it sleeps again.
Wake ==
    /\ pc = "waiting"
    /\ notified \/ expired
    /\ mtx = None
    /\ \/ done /\ Goto("stop") /\ UNCHANGED mtx
       \/ ~done /\ expired /\ Goto("timeout stop") /\ mtx' = Flow
       \/ ~done /\ ~expired /\ Goto("waiting") /\ UNCHANGED mtx
    /\ notified' = FALSE
    /\ UNCHANGED <<done, captured, expired, server, worker, keychain>>

\* The timed-out flow stops the server and joins the listener inside the block
\* that holds the mutex, and only then throws.
TimeoutStop ==
    /\ pc = "timeout stop"
    /\ Goto("timeout join")
    /\ server' = "stopping"
    /\ UNCHANGED <<mtx, done, captured, notified, expired, worker, keychain>>

TimeoutJoin ==
    /\ pc = "timeout join"
    /\ WorkersGone
    /\ Return("timed out")
    /\ server' = "stopped"
    /\ mtx' = None
    /\ UNCHANGED <<done, captured, notified, expired, worker, keychain>>

\* The mutex is given back after the join only, as it is on the timed-out path.
Bug_StopHolding ==
    /\ pc = "stop"
    /\ mtx = None
    /\ Goto("join")
    /\ server' = "stopping"
    /\ mtx' = Flow
    /\ UNCHANGED <<done, captured, notified, expired, worker, keychain>>

Stop ==
    /\ pc = "stop"
    /\ Goto("join")
    /\ server' = "stopping"
    /\ UNCHANGED <<mtx, done, captured, notified, expired, worker, keychain>>

\* stop() alone, as if it waited for the workers.
Bug_NoJoin ==
    /\ pc = "join"
    /\ Goto("check")
    /\ server' = "stopped"
    /\ UNCHANGED <<mtx, done, captured, notified, expired, worker, keychain>>

Join ==
    /\ pc = "join"
    /\ WorkersGone
    /\ Goto("check")
    /\ server' = "stopped"
    /\ UNCHANGED <<mtx, done, captured, notified, expired, worker, keychain>>

\* The checks without the comparison of the states.
Bug_CheckNoState ==
    /\ pc = "check"
    /\ \/ captured.error # Empty /\ Return("denied")
       \/ captured.error = Empty /\ captured.code = Empty /\ Return("no code")
       \/ captured.error = Empty /\ captured.code # Empty /\ Goto("exchange")
    /\ UNCHANGED shared

\* The error parameter passed on as it came.
Bug_CheckRawError ==
    /\ pc = "check"
    /\ \/ captured.error # Empty /\ Return(captured.error)
       \/ captured.error = Empty /\ captured.state # "ours" /\ Return("state mismatch")
       \/ /\ captured.error = Empty /\ captured.state = "ours"
          /\ IF captured.code = Empty THEN Return("no code") ELSE Goto("exchange")
    /\ UNCHANGED shared

\* The checks of what was captured, read without the mutex.
Check ==
    /\ pc = "check"
    /\ \/ captured.error # Empty /\ Return("denied")
       \/ captured.error = Empty /\ captured.state # "ours" /\ Return("state mismatch")
       \/ /\ captured.error = Empty /\ captured.state = "ours"
          /\ IF captured.code = Empty THEN Return("no code") ELSE Goto("exchange")
    /\ UNCHANGED shared

\* The token endpoint refuses or cannot be reached, or grants an access token,
\* with a refresh token to keep or without.
Exchange ==
    /\ pc = "exchange"
    /\ \/ Return("exchange failed") /\ UNCHANGED keychain
       \/ Return("token") /\ (KeychainSet \/ UNCHANGED keychain)
    /\ UNCHANGED <<mtx, done, captured, notified, expired, server, worker>>

FlowStep ==
    \/ Begin \/ Bind \/ EnterWait \/ Wake \/ TimeoutStop \/ TimeoutJoin
    \/ Stop \/ Join \/ Check \/ Exchange

-----------------------------------------------------------------------------
Init ==
    /\ pc = "begin"
    /\ mtx = None
    /\ done = FALSE
    /\ captured = [error |-> Empty, code |-> Empty, state |-> Empty]
    /\ notified = FALSE
    /\ expired = FALSE
    /\ server = "down"
    /\ worker = [h \in Hits |-> [at |-> "away", params |-> Bare]]
    /\ keychain \in BOOLEAN
    /\ result = None

Next == FlowStep \/ Expire \/ \E h \in Hits : Hit(h) \/ Handler(h)

Spec == Init /\ [][Next]_vars

\* Threads run, and time passes.  Weak fairness is enough for the mutex, because
\* each worker takes it once.
FairSpec ==
    /\ Spec
    /\ WF_vars(FlowStep)
    /\ WF_vars(Expire)
    /\ \A h \in Hits : WF_vars(Handler(h))

-----------------------------------------------------------------------------
\* Properties.

Labels == {"begin", "bind", "lock", "waiting", "timeout stop", "timeout join",
           "stop", "join", "check", "exchange", "returned"}
Results == {None, "token", "no client id", "cannot bind", "timed out", "denied",
            "state mismatch", "no code", "exchange failed"}

\* Every variable keeps its type.
TypeOK ==
    /\ pc \in Labels
    /\ mtx \in {None, Flow} \cup Hits
    /\ done \in BOOLEAN
    /\ captured \in Captured
    /\ notified \in BOOLEAN
    /\ expired \in BOOLEAN
    /\ server \in {"down", "up", "stopping", "stopped"}
    /\ worker \in [Hits -> [at : {"away", "queued", "locked", "unlocked", "answering", "ended"},
                            params : Kinds \cup {Bare}]]
    /\ keychain \in BOOLEAN
    /\ result \in Results

\* The mutex, the flag and the captured strings are locals of the flow: when it
\* has returned, by whatever path, no worker is left that could touch them.
\* Neither is one left when the flow reads captured_* without the mutex.
NoHandlerOutlivesFlow == pc \in {"check", "exchange", "returned"} => WorkersGone

\* "no redirect received in 5 minutes" is said only if none was: no handler got
\* as far as setting done.
TimeoutMeansNoRedirect == result = "timed out" => ~done

\* The handler takes over each parameter by itself, so two kinds of hits pass the
\* checks unnoticed: one that replaces the code and leaves the state, and one whose
\* empty error takes back what was reported.
ReplacesCode(params) == params.code = "other code" /\ params.state = None
ErasesError(params) == params.error = Empty

\* A code is exchanged only when the user has answered this flow, however many hits
\* came before, after or in between.  It is the code granted, unless the answer was a
\* denial that has been erased or a hit has replaced the code; and an error
\* that anyone reported stops the flow unless another hit has erased it.
ExchangeIsGranted ==
    LET Ended == {worker[h].params : h \in {g \in Hits : worker[g].at = "ended"}}
    IN pc = "exchange" =>
          /\ \E params \in Ended : params.state = "ours"
          /\ \/ captured.code = "code"
             \/ Denied \in Ended
             \/ \E params \in Ended : ReplacesCode(params)
          /\ (\E params \in Ended : params.error = "access_denied")
                => \E params \in Ended : ErasesError(params)

\* A flow that has been told of a redirect ends.
CapturedFlowEnds == done ~> pc = "returned"

\* "with a timeout so a stuck flow doesn't hang DuckDB": once it listens, the
\* flow ends, redirect or not.
FlowEnds == server = "up" ~> pc = "returned"
=============================================================================
