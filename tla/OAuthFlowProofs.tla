--------------------------- MODULE OAuthFlowProofs ---------------------------
(***************************************************************************)
(* The safety of the OAuth flow for any number of hits on its listener.     *)
(***************************************************************************)
EXTENDS OAuthFlow, TLAPS

\* Who holds the mutex.
MutexOK ==
    /\ \A h \in Hits : worker[h].at = "locked" <=> mtx = h
    /\ mtx = Flow <=> pc \in {"timeout stop", "timeout join"}

\* The listener's state at each point of the flow, and its workers.
ServerOK ==
    /\ pc \in {"begin", "bind"} => server = "down"
    /\ pc \in {"check", "exchange"} => server = "stopped"
    /\ pc = "returned" => server \in {"down", "stopped"}
    /\ server \in {"down", "stopped"} => WorkersGone

\* A flow on the timed-out path has seen done unset with the mutex held.
TimeoutOK ==
    /\ pc \in {"timeout stop", "timeout join"} => ~done
    /\ result = "timed out" => pc = "returned" /\ ~done

\* The hits whose handler has been in its critical section.
Heard == {"locked", "unlocked", "answering", "ended"}
Told == {worker[h].params : h \in {g \in Hits : worker[g].at \in Heard}}

\* Our state comes from the user's answer to this flow, and is beside another's code
\* only when the answer was a denial, which has no code, or a hit has replaced the
\* code.  An error stays for good unless a hit erases it.
CaptureOK ==
    /\ captured.state = "ours" =>
          /\ \E params \in Told : params.state = "ours"
          /\ captured.code = "other code" =>
                Denied \in Told \/ \E params \in Told : ReplacesCode(params)
    /\ captured.error = Empty /\ (\E params \in Told : params.error = "access_denied") =>
          \E params \in Told : ErasesError(params)
    /\ pc = "exchange" =>
          captured.state = "ours" /\ captured.error = Empty /\ captured.code # Empty

IInv == TypeOK /\ MutexOK /\ ServerOK /\ TimeoutOK /\ CaptureOK

\* What was captured stays explained as long as no handler captures more.
LEMMA CaptureStays ==
    ASSUME CaptureOK, Told' = Told, UNCHANGED <<pc, captured>>
    PROVE  CaptureOK'
BY DEF CaptureOK

\* The flow's own steps keep the invariant.
LEMMA FlowSteps ==
    ASSUME IInv, FlowStep
    PROVE  IInv'
<1> DEFINE Core == TypeOK /\ MutexOK /\ ServerOK /\ TimeoutOK
<1>0. worker' = worker /\ captured' = captured
  BY DEF FlowStep, Begin, Bind, EnterWait, Wake, TimeoutStop, TimeoutJoin, Stop, Join, Check, Exchange,
         shared
<1>1. CaptureOK'
  <2>1. Told' = Told
    BY <1>0 DEF Told
  <2>2. pc' = "exchange" => captured.state = "ours" /\ captured.error = Empty /\ captured.code # Empty
    BY DEF FlowStep, Begin, Bind, EnterWait, Wake, TimeoutStop, TimeoutJoin, Stop, Join, Check, Exchange,
           Goto, Return, RefreshAccessToken
  <2> QED BY <1>0, <2>1, <2>2 DEF IInv, CaptureOK
<1>2. Core'
  <2>0. Core
    BY DEF IInv
  <2> USE <2>0 DEF TypeOK, MutexOK, ServerOK, TimeoutOK, WorkersGone, Goto, Return, Labels, Results,
                   None, Flow
  <2>1. CASE Begin
    BY <2>1 DEF Begin, KeychainGet, RefreshAccessToken, shared
  <2>2. CASE Bind
    BY <2>2 DEF Bind
  <2>3. CASE EnterWait
    BY <2>3 DEF EnterWait
  <2>4. CASE Wake
    BY <2>4, HitsAssumption DEF Wake
  <2>5. CASE TimeoutStop
    BY <2>5 DEF TimeoutStop
  <2>6. CASE TimeoutJoin
    BY <2>6, HitsAssumption DEF TimeoutJoin
  <2>7. CASE Stop
    BY <2>7 DEF Stop
  <2>8. CASE Join
    BY <2>8 DEF Join
  <2>9. CASE Check
    BY <2>9 DEF Check, shared
  <2>10. CASE Exchange
    BY <2>10 DEF Exchange, KeychainSet
  <2> QED BY <2>1, <2>2, <2>3, <2>4, <2>5, <2>6, <2>7, <2>8, <2>9, <2>10 DEF FlowStep
<1> QED BY <1>1, <1>2 DEF IInv

\* The listener's steps keep the invariant.
LEMMA ListenerSteps ==
    ASSUME IInv, NEW h \in Hits, Hit(h) \/ Handler(h)
    PROVE  IInv'
<1> DEFINE At == {"away", "queued", "locked", "unlocked", "answering", "ended"}
           Workers == [Hits -> [at : At, params : Kinds \cup {Bare}]]
<1>1. h # None /\ h # Flow
  BY HitsAssumption
<1>2. ASSUME NEW a \in At, worker' = [worker EXCEPT ![h].at = a]
      PROVE  /\ worker' \in Workers
             /\ worker'[h].at = a /\ worker'[h].params = worker[h].params
             /\ \A g \in Hits \ {h} : worker'[g] = worker[g]
  BY <1>2 DEF IInv, TypeOK
<1>3. CASE Hit(h)
  <2>1. PICK k \in Kinds : worker' = [worker EXCEPT ![h] = [at |-> "queued", params |-> k]]
    BY <1>3 DEF Hit
  <2>2. /\ worker' \in Workers
        /\ worker'[h].at = "queued" /\ \A g \in Hits \ {h} : worker'[g] = worker[g]
    BY <2>1 DEF IInv, TypeOK
  <2>3. Told' = Told
    <3>1. \A g \in Hits :
             /\ worker[g].at \in Heard <=> worker'[g].at \in Heard
             /\ worker[g].at \in Heard => worker'[g].params = worker[g].params
      BY <1>3, <2>2 DEF Hit, Heard
    <3> QED BY <3>1 DEF Told
  <2>4. TypeOK' /\ CaptureOK'
    <3>1. TypeOK'
      BY <1>3, <2>2 DEF Hit, IInv, TypeOK
    <3>2. UNCHANGED <<pc, captured>>
      BY <1>3 DEF Hit
    <3> QED BY <2>3, <3>1, <3>2, CaptureStays DEF IInv
  <2> QED BY <1>3, <2>2, <2>4 DEF Hit, IInv, MutexOK, ServerOK, TimeoutOK
<1>4. CASE HandlerLocks(h)
  <2>1. worker' = [worker EXCEPT ![h].at = "locked"]
    BY <1>4 DEF HandlerLocks
  <2>2. /\ worker' \in Workers
        /\ worker'[h].at = "locked" /\ \A g \in Hits \ {h} : worker'[g] = worker[g]
    BY <1>2, <2>1
  <2>3. /\ worker[h].at = "queued" /\ worker[h].params \in Kinds \cup {Bare}
        /\ captured \in Captured
    BY <1>4 DEF HandlerLocks, IInv, TypeOK
  <2>4. Told' = Told \cup {worker[h].params}
    <3>1. /\ worker[h].at \notin Heard /\ worker'[h].at \in Heard
          /\ worker'[h].params = worker[h].params
      BY <1>2, <2>1, <2>2, <2>3 DEF Heard
    <3> QED BY <2>2, <3>1 DEF Told
  <2>5. server \notin {"down", "stopped"} /\ pc \notin {"check", "exchange", "returned", "begin", "bind"}
    BY <2>3 DEF IInv, ServerOK, WorkersGone
  <2>10. captured' \in Captured /\ CaptureOK'
    <3> DEFINE p == worker[h].params
    <3>1. /\ captured' = [error |-> Kept(p.error, captured.error),
                          code  |-> Kept(p.code, captured.code),
                          state |-> Kept(p.state, captured.state)]
          /\ pc' = pc
      BY <1>4 DEF HandlerLocks
    <3>2. CaptureOK
      BY DEF IInv
    <3>3. p \in Kinds \cup {Bare} /\ captured \in Captured /\ Told' = Told \cup {p}
      BY <2>3, <2>4
    <3> HIDE DEF p
    <3>4. CASE p = Granted
      BY <2>5, <3>1, <3>2, <3>3, <3>4 DEF Granted, Kept, None, Empty, Captured, CaptureOK
    <3>5. CASE p = Denied
      BY <2>5, <3>1, <3>2, <3>3, <3>5 DEF Denied, Kept, None, Empty, Captured, CaptureOK
    <3>6. CASE p \in Foreign
      BY <2>5, <3>1, <3>2, <3>3, <3>6 DEF Foreign, Kept, None, Empty, Captured, CaptureOK, ReplacesCode,
         ErasesError
    <3>7. Bare \in Foreign
      BY DEF Bare, Foreign, None
    <3> QED BY <3>3, <3>4, <3>5, <3>6, <3>7, OthersAssumption DEF Kinds
  <2>6. TypeOK'
    BY <1>4, <2>2, <2>10 DEF HandlerLocks, IInv, TypeOK
  <2>7. MutexOK'
    BY <1>1, <1>4, <2>2, HitsAssumption DEF HandlerLocks, IInv, MutexOK, None, Flow
  <2>8. ServerOK'
    BY <1>4, <2>5 DEF HandlerLocks, IInv, ServerOK
  <2>9. TimeoutOK'
    BY <1>1, <1>4, <2>5 DEF HandlerLocks, IInv, MutexOK, TimeoutOK, None, Flow
  <2> QED BY <2>6, <2>7, <2>8, <2>9, <2>10 DEF IInv
<1>5. CASE HandlerUnlocks(h)
  <2>1. worker' = [worker EXCEPT ![h].at = "unlocked"]
    BY <1>5 DEF HandlerUnlocks
  <2>2. /\ Told' = Told /\ worker' \in Workers
        /\ worker'[h].at = "unlocked" /\ \A g \in Hits \ {h} : worker'[g] = worker[g]
    BY <1>2, <2>1, <1>5 DEF HandlerUnlocks, Told, Heard
  <2>3. TypeOK' /\ TimeoutOK' /\ CaptureOK'
    <3>1. TypeOK'
      BY <1>5, <2>2 DEF HandlerUnlocks, IInv, TypeOK
    <3>2. TimeoutOK' /\ UNCHANGED <<pc, captured>>
      BY <1>5 DEF HandlerUnlocks, IInv, TimeoutOK
    <3> QED BY <2>2, <3>1, <3>2, CaptureStays DEF IInv
  <2>4. MutexOK'
    BY <1>1, <1>5, <2>2, HitsAssumption DEF HandlerUnlocks, IInv, MutexOK, None, Flow
  <2>5. ServerOK'
    BY <1>5, <2>2 DEF HandlerUnlocks, IInv, ServerOK, WorkersGone
  <2> QED BY <2>3, <2>4, <2>5 DEF IInv
<1>6. CASE HandlerNotifies(h)
  <2>1. worker' = [worker EXCEPT ![h].at = "answering"]
    BY <1>6 DEF HandlerNotifies
  <2>2. /\ Told' = Told /\ worker' \in Workers
        /\ worker'[h].at = "answering" /\ \A g \in Hits \ {h} : worker'[g] = worker[g]
    BY <1>2, <2>1, <1>6 DEF HandlerNotifies, Told, Heard
  <2>3. notified' \in BOOLEAN
    BY <1>6 DEF HandlerNotifies, IInv, TypeOK
  <2>4. TypeOK' /\ TimeoutOK' /\ CaptureOK'
    <3>1. TypeOK'
      BY <1>6, <2>2, <2>3 DEF HandlerNotifies, IInv, TypeOK
    <3>2. TimeoutOK' /\ UNCHANGED <<pc, captured>>
      BY <1>6 DEF HandlerNotifies, IInv, TimeoutOK
    <3> QED BY <2>2, <3>1, <3>2, CaptureStays DEF IInv
  <2>5. MutexOK' /\ ServerOK'
    BY <1>6, <2>2 DEF HandlerNotifies, IInv, MutexOK, ServerOK, WorkersGone
  <2> QED BY <2>4, <2>5 DEF IInv
<1>7. CASE HandlerAnswers(h)
  <2>1. worker' = [worker EXCEPT ![h].at = "ended"]
    BY <1>7 DEF HandlerAnswers
  <2>2. /\ Told' = Told /\ worker' \in Workers
        /\ worker'[h].at = "ended" /\ \A g \in Hits \ {h} : worker'[g] = worker[g]
    BY <1>2, <2>1, <1>7 DEF HandlerAnswers, Told, Heard
  <2>3. TypeOK' /\ TimeoutOK' /\ CaptureOK'
    <3>1. TypeOK'
      BY <1>7, <2>2 DEF HandlerAnswers, IInv, TypeOK
    <3>2. TimeoutOK' /\ UNCHANGED <<pc, captured>>
      BY <1>7 DEF HandlerAnswers, IInv, TimeoutOK
    <3> QED BY <2>2, <3>1, <3>2, CaptureStays DEF IInv
  <2>4. MutexOK' /\ ServerOK'
    BY <1>7, <2>2 DEF HandlerAnswers, IInv, MutexOK, ServerOK, WorkersGone
  <2> QED BY <2>3, <2>4 DEF IInv
<1> QED BY <1>3, <1>4, <1>5, <1>6, <1>7 DEF Handler

\* The invariant is inductive.
LEMMA Inductive == Spec => []IInv
<1>1. Init => IInv
  <2> SUFFICES ASSUME Init PROVE IInv
    OBVIOUS
  <2>1. captured \in Captured
    BY DEF Init, Captured, Empty
  <2>2. Told = {}
    BY DEF Init, Told, Heard
  <2>3. TypeOK
    BY <2>1 DEF Init, TypeOK, Labels, Results
  <2>4. MutexOK
    BY HitsAssumption DEF Init, MutexOK, None, Flow
  <2>5. ServerOK /\ TimeoutOK /\ CaptureOK
    BY <2>2 DEF Init, ServerOK, TimeoutOK, CaptureOK, WorkersGone, None, Empty
  <2> QED BY <2>3, <2>4, <2>5 DEF IInv
<1>2. IInv /\ [Next]_vars => IInv'
  <2> SUFFICES ASSUME IInv, [Next]_vars PROVE IInv'
    OBVIOUS
  <2>1. CASE FlowStep
    BY <2>1, FlowSteps
  <2>2. CASE \E h \in Hits : Hit(h) \/ Handler(h)
    BY <2>2, ListenerSteps
  <2>3. CASE Expire \/ UNCHANGED vars
    <3>1. Told' = Told
      BY <2>3 DEF Expire, vars, Told
    <3>2. UNCHANGED <<pc, captured>>
      BY <2>3 DEF Expire, vars
    <3>3. TypeOK'
      BY <2>3 DEF Expire, vars, IInv, TypeOK
    <3>4. MutexOK' /\ ServerOK' /\ TimeoutOK'
      <4>1. CASE Expire
        BY <4>1 DEF Expire, IInv, MutexOK, ServerOK, TimeoutOK, WorkersGone
      <4>2. CASE UNCHANGED vars
        BY <4>2 DEF vars, IInv, MutexOK, ServerOK, TimeoutOK, WorkersGone
      <4> QED BY <2>3, <4>1, <4>2
    <3> QED BY <3>1, <3>2, <3>3, <3>4, CaptureStays DEF IInv
  <2> QED BY <2>1, <2>2, <2>3 DEF Next
<1> QED BY <1>1, <1>2, PTL DEF Spec

\* Every variable keeps its type: the flow ends in one of the errors named or with a
\* token, and at most one thread at a time holds the mutex.
THEOREM TypeCorrect == Spec => []TypeOK
<1>1. IInv => TypeOK
  BY DEF IInv
<1> QED BY <1>1, Inductive, PTL

\* However many hits reach the listener, and when: no worker is left once
\* InitiateOAuthFlow has returned, or while it reads what was captured.
THEOREM NoHandlerOutlives == Spec => []NoHandlerOutlivesFlow
<1>1. IInv => NoHandlerOutlivesFlow
  BY DEF IInv, ServerOK, NoHandlerOutlivesFlow
<1> QED BY <1>1, Inductive, PTL

\* The flow reports a timeout only if no redirect was captured.
THEOREM TimeoutHonest == Spec => []TimeoutMeansNoRedirect
<1>1. IInv => TimeoutMeansNoRedirect
  BY DEF IInv, TimeoutOK, TimeoutMeansNoRedirect
<1> QED BY <1>1, Inductive, PTL

\* However many hits reach the listener, whatever they carry and in whatever order:
\* a code is exchanged only after the user's answer, and it is the code granted, with
\* no error reported, but for hits that replace the code or erase an error.
THEOREM ExchangeGranted == Spec => []ExchangeIsGranted
<1>1. ASSUME IInv PROVE ExchangeIsGranted
  <2> DEFINE Ended == {worker[h].params : h \in {g \in Hits : worker[g].at = "ended"}}
  <2>1. SUFFICES ASSUME pc = "exchange"
                 PROVE  /\ \E params \in Ended : params.state = "ours"
                        /\ \/ captured.code = "code"
                           \/ Denied \in Ended
                           \/ \E params \in Ended : ReplacesCode(params)
                        /\ (\E params \in Ended : params.error = "access_denied")
                              => \E params \in Ended : ErasesError(params)
    BY DEF ExchangeIsGranted
  <2>2. Ended = Told
    <3>1. \A h \in Hits : worker[h].at = "ended" <=> worker[h].at \in Heard
      BY <1>1, <2>1 DEF Heard, IInv, ServerOK, WorkersGone
    <3> QED BY <3>1 DEF Told
  <2>3. captured.code \in {Empty, "code", "other code"}
    BY <1>1 DEF IInv, TypeOK, Captured
  <2> HIDE DEF Ended
  <2> QED BY <1>1, <2>1, <2>2, <2>3 DEF IInv, CaptureOK
<1> QED BY <1>1, Inductive, PTL

-----------------------------------------------------------------------------
\* The timed-out flow joins the listener with the mutex held, and a worker is still
\* waiting for that mutex.
DeadlyEmbrace == pc = "timeout join" /\ \E h \in Hits : worker[h].at = "queued"

\* Neither of the two can go on: the worker stays queued, the flow stays in the join.
LEMMA EmbraceStep == IInv /\ DeadlyEmbrace /\ [Next]_vars => DeadlyEmbrace'
<1> SUFFICES ASSUME IInv, DeadlyEmbrace, [Next]_vars PROVE DeadlyEmbrace'
  OBVIOUS
<1>1. PICK h \in Hits : worker[h].at = "queued"
  BY DEF DeadlyEmbrace
<1>2. pc = "timeout join" /\ mtx = Flow /\ mtx # None /\ ~WorkersGone
  BY <1>1 DEF DeadlyEmbrace, IInv, MutexOK, WorkersGone, None, Flow
<1>3. ~FlowStep
  BY <1>2 DEF FlowStep, Begin, Bind, EnterWait, Wake, TimeoutStop, TimeoutJoin, Stop, Join, Check, Exchange
<1>4. ASSUME NEW g \in Hits, Hit(g) \/ Handler(g)
      PROVE  DeadlyEmbrace'
  <2>1. g # h /\ worker'[h] = worker[h]
    BY <1>1, <1>2, <1>4 DEF Hit, Handler, HandlerLocks, HandlerUnlocks, HandlerNotifies, HandlerAnswers,
                            IInv, TypeOK
  <2>2. pc' = pc
    BY <1>4 DEF Hit, Handler, HandlerLocks, HandlerUnlocks, HandlerNotifies, HandlerAnswers
  <2> QED BY <1>1, <1>2, <2>1, <2>2 DEF DeadlyEmbrace
<1>5. CASE Expire
  BY <1>2, <1>5 DEF Expire
<1>6. CASE UNCHANGED vars
  BY <1>6 DEF vars, DeadlyEmbrace
<1> QED BY <1>3, <1>4, <1>5, <1>6 DEF Next

\* Why FlowEnds fails: a redirect that reaches a worker while the flow times out
\* leaves InitiateOAuthFlow hanging for good, whatever else arrives.
THEOREM EmbraceIsForever == Spec => [](DeadlyEmbrace => []DeadlyEmbrace)
BY EmbraceStep, Inductive, PTL DEF Spec
=============================================================================
