------------------------- MODULE DirectLookupProofs -------------------------
(***************************************************************************)
(* Safety of DirectLookup for any number of calls.                         *)
(*                                                                         *)
(* The calls share nothing but the order in which they begin, so the       *)
(* invariant speaks of one call at a time.  An error without a timeout is  *)
(* honest because the helper has then passed Wait (Helped), Done comes     *)
(* after the send (Counting), and what was sent is in the channel until    *)
(* the caller takes it (Channelled).                                       *)
(***************************************************************************)
EXTENDS DirectLookup, TLAPS

Sent(c) == worker[c] \in {"finish", "done"} /\ reply[c] \in Forwarded

(* A worker exists once the call has begun; what it has to say is known    *)
(* after the exchange.                                                     *)
Working(c) ==
    /\ worker[c] = "idle" <=> main[c] \in {"idle", "self"}
    /\ reply[c] = "none" <=> worker[c] \in {"idle", "exchange"}
    /\ worker[c] = "send" => reply[c] \in Forwarded

Counting(c) ==
    /\ waitGroup[c] = 1 <=> worker[c] \in {"exchange", "send", "finish"}

(* A message is in the channel from the send until the caller takes it.    *)
Channelled(c) ==
    /\ resultChannel[c] => Sent(c) /\ main[c] # "answered"
    /\ Sent(c) => resultChannel[c] \/ main[c] \in {"answered", "failed"}
    /\ main[c] = "answered" => Sent(c)

(* The helper lives in the calls that got as far as waitTimeout; past it   *)
(* it has ended or the call has timed out.                                 *)
Helped(c) ==
    /\ main[c] \in {"idle", "select", "self"} => helper[c] = "off"
    /\ main[c] = "wait" => helper[c] \in {"waiting", "sending"}
    /\ main[c] \in {"collect", "failed"} => helper[c] = "done" \/ timedOut[c]
    /\ helper[c] \in {"waiting", "sending"} => main[c] = "wait" \/ timedOut[c]
    /\ helper[c] \in {"sending", "done"} => worker[c] = "done"
    /\ timedOut[c] => main[c] \in {"collect", "answered", "failed"}

Honest(c) ==
    main[c] = "failed" /\ ~timedOut[c] =>
        worker[c] = "done" /\ reply[c] \notin Forwarded

CallInv(c) == Working(c) /\ Counting(c) /\ Channelled(c) /\ Helped(c) /\ Honest(c)

IInv == TypeOK /\ \A c \in Calls : CallInv(c)

CallVars(c) == <<main[c], timedOut[c], resultChannel[c], waitGroup[c],
                 worker[c], reply[c], helper[c]>>

CallStep(c) ==
    \/ RefuseSelf(c) \/ Begin(c) \/ Main(c)
    \/ Exchange(c) \/ Send(c) \/ Finish(c) \/ HelperWakes(c)

USE DEF Forwarded

-----------------------------------------------------------------------------
LEMMA InitIInv == Init => IInv
BY DEF Init, IInv, TypeOK, CallInv, Working, Counting, Channelled, Helped,
       Honest, Sent, MainStates, WorkerStates, Replies, HelperStates

LEMMA TypeStep ==
  ASSUME TypeOK, NEW c \in Calls, CallInv(c), CallStep(c)
  PROVE  TypeOK'
<1> USE DEF TypeOK, MainStates, WorkerStates, Replies, HelperStates
<1>1. CASE RefuseSelf(c)
  BY <1>1 DEF RefuseSelf
<1>2. CASE Begin(c)
  BY <1>2 DEF Begin
<1>3. CASE EarlyAnswer(c) \/ CollectAnswer(c)
  BY <1>3 DEF EarlyAnswer, CollectAnswer, TakeAnswer
<1>4. CASE Tick(c)
  BY <1>4 DEF Tick
<1>5. CASE Signalled(c)
  BY <1>5 DEF Signalled
<1>6. CASE Timeout(c)
  BY <1>6 DEF Timeout
<1>7. CASE CollectNothing(c)
  BY <1>7 DEF CollectNothing
<1>8. CASE Exchange(c)
  BY <1>8 DEF Exchange
<1>9. CASE Send(c)
  BY <1>9 DEF Send
<1>10. CASE Finish(c)
  BY <1>10 DEF Finish, CallInv, Counting
<1>11. CASE HelperWakes(c)
  BY <1>11 DEF HelperWakes
<1> QED
  BY <1>1, <1>2, <1>3, <1>4, <1>5, <1>6, <1>7, <1>8, <1>9, <1>10, <1>11
  DEF CallStep, Main

(* A step of one call leaves every other call alone.                       *)
LEMMA OthersUntouched ==
  ASSUME TypeOK, NEW c \in Calls, CallStep(c), NEW d \in Calls, d # c
  PROVE  UNCHANGED CallVars(d)
<1> USE DEF TypeOK, CallVars
<1>1. CASE RefuseSelf(c)
  BY <1>1 DEF RefuseSelf
<1>2. CASE Begin(c)
  BY <1>2 DEF Begin
<1>3. CASE EarlyAnswer(c) \/ CollectAnswer(c)
  BY <1>3 DEF EarlyAnswer, CollectAnswer, TakeAnswer
<1>4. CASE Tick(c)
  BY <1>4 DEF Tick
<1>5. CASE Signalled(c)
  BY <1>5 DEF Signalled
<1>6. CASE Timeout(c)
  BY <1>6 DEF Timeout
<1>7. CASE CollectNothing(c)
  BY <1>7 DEF CollectNothing
<1>8. CASE Exchange(c)
  BY <1>8 DEF Exchange
<1>9. CASE Send(c)
  BY <1>9 DEF Send
<1>10. CASE Finish(c)
  BY <1>10 DEF Finish
<1>11. CASE HelperWakes(c)
  BY <1>11 DEF HelperWakes
<1> QED
  BY <1>1, <1>2, <1>3, <1>4, <1>5, <1>6, <1>7, <1>8, <1>9, <1>10, <1>11
  DEF CallStep, Main

LEMMA CallUnchanged ==
  ASSUME NEW d, CallInv(d), UNCHANGED CallVars(d)
  PROVE  CallInv(d)'
BY DEF CallInv, CallVars, Working, Counting, Channelled, Helped, Honest, Sent

(* A step of a call keeps the invariant of that call.                      *)
LEMMA CallKeeps ==
  ASSUME TypeOK, NEW c \in Calls, CallInv(c), CallStep(c)
  PROVE  CallInv(c)'
<1> USE DEF TypeOK, MainStates, WorkerStates, Replies, HelperStates, CallInv,
            Working, Counting, Channelled, Helped, Honest, Sent
<1>1. CASE RefuseSelf(c)
  BY <1>1 DEF RefuseSelf, MayBegin
<1>2. CASE Begin(c)
  BY <1>2 DEF Begin, MayBegin
<1>3. CASE EarlyAnswer(c) \/ CollectAnswer(c)
  BY <1>3 DEF EarlyAnswer, CollectAnswer, TakeAnswer
<1>4. CASE Tick(c)
  BY <1>4 DEF Tick
<1>5. CASE Signalled(c)
  BY <1>5 DEF Signalled
<1>6. CASE Timeout(c)
  BY <1>6 DEF Timeout
<1>7. CASE CollectNothing(c)
  BY <1>7 DEF CollectNothing
<1>8. CASE Exchange(c)
  BY <1>8 DEF Exchange
<1>9. CASE Send(c)
  BY <1>9 DEF Send
<1>10. CASE Finish(c)
  BY <1>10 DEF Finish
<1>11. CASE HelperWakes(c)
  BY <1>11 DEF HelperWakes
<1> QED
  BY <1>1, <1>2, <1>3, <1>4, <1>5, <1>6, <1>7, <1>8, <1>9, <1>10, <1>11
  DEF CallStep, Main

LEMMA StepIInv == IInv /\ [Next]_vars => IInv'
<1> SUFFICES ASSUME IInv, [Next]_vars PROVE IInv'
  OBVIOUS
<1>1. CASE \E c \in Calls : CallStep(c)
  <2>1. PICK c \in Calls : CallStep(c)
    BY <1>1
  <2>2. TypeOK'
    BY <2>1, TypeStep DEF IInv
  <2>3. ASSUME NEW d \in Calls PROVE CallInv(d)'
    BY <2>1, <2>3, OthersUntouched, CallUnchanged, CallKeeps DEF IInv
  <2> QED
    BY <2>2, <2>3 DEF IInv, Calls
<1>2. CASE UNCHANGED vars
  BY <1>2, CallUnchanged DEF IInv, vars, CallVars, TypeOK, Calls
<1> QED
  BY <1>1, <1>2 DEF Next, CallStep, Over

THEOREM Invariance == Safe => []IInv
<1>1. Init => IInv
  BY InitIInv
<1>2. IInv /\ [Next]_vars => IInv'
  BY StepIInv
<1> QED
  BY <1>1, <1>2, PTL DEF Safe

-----------------------------------------------------------------------------
(* The state of the calls is well typed for any number of calls.           *)
THEOREM TypeCorrect == Safe => []TypeOK
<1>1. IInv => TypeOK
  BY DEF IInv
<1> QED
  BY <1>1, Invariance, PTL

(* An error without a timeout means that the server answered nothing       *)
(* LookupAtNameserver would forward: the deferred Done comes after the     *)
(* send, so the answer is in the channel when waitTimeout returns.         *)
THEOREM ErrorsInTimeHonest == Safe => []ErrorInTimeMeansNoAnswer
<1>1. IInv => ErrorInTimeMeansNoAnswer
  BY DEF IInv, CallInv, Honest, ErrorInTimeMeansNoAnswer
<1> QED
  BY <1>1, Invariance, PTL

(* waitTimeout's goroutine blocks for ever in no call but those that timed *)
(* out.                                                                    *)
THEOREM LeaksNeedTimeouts == Safe => []HelperLeaksOnlyAfterTimeout
<1>1. IInv => HelperLeaksOnlyAfterTimeout
  BY DEF IInv, CallInv, Helped, HelperLeaksOnlyAfterTimeout
<1> QED
  BY <1>1, Invariance, PTL

-----------------------------------------------------------------------------
(* Refinement.                                                             *)

LEMMA PromiseInit == Init => \A c \in Calls : Promise(c)!Init
BY DEF Init, Promise!Init, Server

(* A step of a call is a step of its promise, or stutters.                 *)
LEMMA PromiseStep ==
  ASSUME TypeOK, NEW c \in Calls, CallInv(c), CallStep(c)
  PROVE  [Promise(c)!Next]_(Promise(c)!promiseVars)
<1> USE DEF TypeOK, CallInv, Server, Promise!promiseVars, Replies
<1>1. CASE RefuseSelf(c) \/ Begin(c) \/ Tick(c) \/ Signalled(c) \/ Finish(c) \/ HelperWakes(c)
  BY <1>1 DEF RefuseSelf, Begin, Tick, Signalled, Finish, HelperWakes, MayBegin,
              Working, WorkerStates, MainStates
<1>2. CASE EarlyAnswer(c) \/ CollectAnswer(c)
  <2>1. Promise(c)!Return
    BY <1>2 DEF EarlyAnswer, CollectAnswer, TakeAnswer, Promise!Return,
                Channelled, Sent
  <2> QED
    BY <2>1 DEF Promise!Next
<1>3. CASE Timeout(c)
  <2>1. Promise(c)!TimeUp
    BY <1>3 DEF Timeout, Promise!TimeUp
  <2> QED
    BY <2>1 DEF Promise!Next
<1>4. CASE CollectNothing(c)
  <2>1. Promise(c)!Fail
    BY <1>4 DEF CollectNothing, Promise!Fail, Channelled, Helped, Working, Sent,
                WorkerStates
  <2> QED
    BY <2>1 DEF Promise!Next
<1>5. CASE Exchange(c)
  <2>1. PICK outcome \in Replies \ {"none"} :
            /\ reply' = [reply EXCEPT ![c] = outcome]
            /\ worker' = [worker EXCEPT
                 ![c] = IF outcome \in Forwarded THEN "send" ELSE "finish"]
    BY <1>5 DEF Exchange
  <2>2. Server(c) = "silent"
    BY <1>5 DEF Exchange, Working
  <2>3. CASE outcome \in Forwarded
    BY <1>5, <2>1, <2>2, <2>3 DEF Exchange
  <2>4. CASE outcome \notin Forwarded
    <3>1. Promise(c)!Refuse
      BY <1>5, <2>1, <2>2, <2>4 DEF Exchange, Promise!Refuse
    <3> QED
      BY <3>1 DEF Promise!Next
  <2> QED
    BY <2>3, <2>4
<1>6. CASE Send(c)
  <2>1. Promise(c)!Answer
    BY <1>6 DEF Send, Promise!Answer, Working
  <2> QED
    BY <2>1 DEF Promise!Next
<1> QED
  BY <1>1, <1>2, <1>3, <1>4, <1>5, <1>6 DEF CallStep, Main

(* Every call keeps the promise of TimedLookup: an answer that is there is *)
(* returned even after the timeout, and an error without one is a refusal. *)
THEOREM PromiseKept == Safe => KeepsPromise
<1>1. IInv /\ [Next]_vars =>
        [\A c \in Calls : [Promise(c)!Next]_(Promise(c)!promiseVars)]_vars
  <2> SUFFICES ASSUME IInv, Next, NEW c \in Calls
               PROVE  [Promise(c)!Next]_(Promise(c)!promiseVars)
    OBVIOUS
  <2>1. CASE UNCHANGED vars
    BY <2>1 DEF vars, Promise!promiseVars, Server
  <2>2. CASE CallStep(c)
    BY <2>2, PromiseStep DEF IInv
  <2>3. ASSUME NEW d \in Calls, CallStep(d), d # c
        PROVE  [Promise(c)!Next]_(Promise(c)!promiseVars)
    <3>1. UNCHANGED CallVars(c)
      BY <2>3, OthersUntouched DEF IInv
    <3> QED
      BY <3>1 DEF CallVars, Promise!promiseVars, Server
  <2> QED
    BY <2>1, <2>2, <2>3 DEF Next, CallStep, Over
<1> QED
  BY <1>1, PromiseInit, Invariance, PTL DEF Safe, KeepsPromise
=============================================================================
