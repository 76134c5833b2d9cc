-------------------------- MODULE LookupRaceProofs --------------------------
(***************************************************************************)
(* Safety of LookupRace for any number of resolvers and cover queries.     *)
(*                                                                         *)
(* The properties are not inductive by themselves.  What closes the        *)
(* induction is that nothing is added to the WaitGroup once anyone waits   *)
(* for it (LaunchOver), so a counter that has reached zero stays there     *)
(* (Settled) and means that no goroutine is before its send.               *)
(***************************************************************************)
EXTENDS LookupRace, TLAPS, FiniteSetTheorems

(* Lookups are started in list order, up to the end of the list.           *)
LaunchOrder ==
    /\ launched <= call.resolvers
    /\ \A r \in Racers : worker[r] = "idle" <=> r > launched

(* Past the loop every resolver has been asked.                            *)
LaunchOver ==
    /\ main \in {"select", "wait", "collect", "failed"} => launched = call.resolvers
    /\ waiter # "off" => main \notin {"loop", "poll"}
    /\ reaper # "off" <=> Returned

(* Whoever has passed waitGroup.Wait() did so for good.                    *)
Settled ==
    main \in {"collect", "failed"} \/ waiter = "finished" \/ reaper = "closed"
        => waitGroup = 0

(* A worker past its send had a reply to forward, and while the call has   *)
(* not returned the first such reply is still in the channel: the          *)
(* non-blocking sends drop later answers only.                             *)
Sent(r) == worker[r] \in {"finish", "done"} /\ reply[r] \in Forwarded
FirstAnswerKept ==
    ~Returned /\ (\E r \in Racers : Sent(r)) => resultChannel # NoMessage

(* What is in the channel, or was returned, was sent by its worker.        *)
MessagesReal ==
    /\ \A r \in Racers : worker[r] = "send" => reply[r] \in Forwarded
    /\ resultChannel # NoMessage =>
          resultChannel \in Racers /\ Sent(resultChannel)
    /\ result # NoMessage <=> main = "answered"
    /\ result # NoMessage => result \in Racers /\ Sent(result)

NoPanic == \A r \in Racers : worker[r] # "panicked"

IInv ==
    /\ TypeOK
    /\ WaitGroupExact
    /\ LaunchOrder
    /\ LaunchOver
    /\ Settled
    /\ MessagesReal
    /\ FirstAnswerKept
    /\ ErrorMeansNoAnswer
    /\ NoPanic

-----------------------------------------------------------------------------
(* The counter.                                                            *)

LEMMA CountedFinite == IsFiniteSet(CountedWorkers)
<1>1. IsFiniteSet(Racers)
  BY FS_Interval, MaxResolversAssumption DEF Racers
<1> QED
  BY <1>1, FS_Subset DEF CountedWorkers

(* A counter of zero: no worker is between its Add and its Done.           *)
LEMMA NobodyCounted ==
  ASSUME WaitGroupExact, waitGroup = 0
  PROVE  \A r \in Racers : worker[r] \notin Counted
<1>1. CountedWorkers = {}
  BY CountedFinite, FS_EmptySet DEF WaitGroupExact
<1> QED
  BY <1>1 DEF CountedWorkers

(* Add(1) for a worker that starts.                                        *)
LEMMA WorkerJoins ==
  ASSUME TypeOK, WaitGroupExact, NEW r \in Racers, worker[r] \notin Counted,
         NEW s \in Counted, worker' = [worker EXCEPT ![r] = s],
         waitGroup' = waitGroup + 1
  PROVE  WaitGroupExact'
<1>1. CountedWorkers' = CountedWorkers \cup {r}
  BY DEF CountedWorkers, TypeOK
<1>2. r \notin CountedWorkers
  BY DEF CountedWorkers
<1> QED
  BY <1>1, <1>2, CountedFinite, FS_AddElement DEF WaitGroupExact

(* Done() of a worker that ends.                                           *)
LEMMA WorkerLeaves ==
  ASSUME TypeOK, WaitGroupExact, NEW r \in Racers, worker[r] \in Counted,
         NEW s, s \notin Counted, worker' = [worker EXCEPT ![r] = s],
         waitGroup' = waitGroup - 1
  PROVE  WaitGroupExact'
<1>1. CountedWorkers' = CountedWorkers \ {r}
  BY DEF CountedWorkers, TypeOK
<1>2. r \in CountedWorkers
  BY DEF CountedWorkers
<1> QED
  BY <1>1, <1>2, CountedFinite, FS_RemoveElement DEF WaitGroupExact

(* A worker that moves on without touching the counter.                    *)
LEMMA WorkerStays ==
  ASSUME TypeOK, WaitGroupExact, NEW r \in Racers, worker[r] \in Counted,
         NEW s \in Counted, worker' = [worker EXCEPT ![r] = s],
         waitGroup' = waitGroup
  PROVE  WaitGroupExact'
<1>1. CountedWorkers' = CountedWorkers
  BY DEF CountedWorkers, TypeOK
<1> QED
  BY <1>1 DEF WaitGroupExact

LEMMA WorkersUnchanged ==
  ASSUME WaitGroupExact, UNCHANGED <<worker, waitGroup>>
  PROVE  WaitGroupExact'
BY DEF WaitGroupExact, CountedWorkers

-----------------------------------------------------------------------------
(* The inductive invariant.                                                *)

LEMMA InitIInv == Init => IInv
<1> SUFFICES ASSUME Init PROVE IInv
  OBVIOUS
<1>1. TypeOK
  BY MaxResolversAssumption DEF Init, TypeOK, Racers, MainStates, WorkerStates,
     Replies, NoMessage
<1>2. WaitGroupExact
  <2>1. CountedWorkers = {}
    BY DEF Init, CountedWorkers, Counted
  <2> QED
    BY <2>1, FS_EmptySet DEF Init, WaitGroupExact
<1>3. LaunchOrder
  BY MaxResolversAssumption DEF Init, LaunchOrder, Racers, Calls
<1>4. LaunchOver /\ Settled /\ MessagesReal /\ FirstAnswerKept
      /\ ErrorMeansNoAnswer /\ NoPanic
  BY DEF Init, LaunchOver, Settled, MessagesReal, FirstAnswerKept, Sent,
     ErrorMeansNoAnswer, NoPanic, Returned, NoMessage
<1> QED
  BY <1>1, <1>2, <1>3, <1>4 DEF IInv

LEMMA NextIInv == IInv /\ [Next]_vars => IInv'
<1> SUFFICES ASSUME IInv, [Next]_vars PROVE IInv'
  OBVIOUS
<1> USE DEF IInv
<1>0. MaxResolvers \in Nat \ {0}
  BY MaxResolversAssumption
<1>1. CASE Launch
  <2> DEFINE r == launched + 1
  <2>1. r \in Racers /\ worker[r] = "idle" /\ call' = call
    BY <1>0, <1>1 DEF Launch, MoreResolvers, TypeOK, Calls, Racers, LaunchOrder
  <2>2. TypeOK'
    BY <1>0, <1>1, <2>1, InsertionAssumption
    DEF Launch, TypeOK, Racers, MainStates, WorkerStates, Calls
  <2>3. WaitGroupExact'
    BY <1>1, <2>1, WorkerJoins DEF Launch, Counted
  <2>4. LaunchOrder'
    BY <1>0, <1>1, <2>1 DEF Launch, LaunchOrder, MoreResolvers, TypeOK, Calls, Racers
  <2>5. LaunchOver' /\ Settled'
    BY <1>1 DEF Launch, LaunchOver, Settled, Returned
  <2>6. MessagesReal' /\ FirstAnswerKept' /\ ErrorMeansNoAnswer' /\ NoPanic'
    BY <1>1, <2>1 DEF Launch, TypeOK, MessagesReal, FirstAnswerKept, Sent, Forwarded,
       ErrorMeansNoAnswer, NoPanic, Returned
  <2> QED
    BY <2>2, <2>3, <2>4, <2>5, <2>6
<1>2. CASE SkipSelf
  <2> DEFINE r == launched + 1
  <2>1. r \in Racers /\ worker[r] = "idle" /\ call' = call
    BY <1>0, <1>2 DEF SkipSelf, MoreResolvers, TypeOK, Calls, Racers, LaunchOrder
  <2>2. TypeOK'
    BY <1>0, <1>2, <2>1 DEF SkipSelf, TypeOK, Racers, WorkerStates, Calls
  <2>3. WaitGroupExact'
    BY <1>2, <2>1, WorkerJoins DEF SkipSelf, Counted
  <2>4. LaunchOrder'
    BY <1>0, <1>2, <2>1 DEF SkipSelf, LaunchOrder, MoreResolvers, TypeOK, Calls, Racers
  <2>5. LaunchOver' /\ Settled'
    BY <1>2 DEF SkipSelf, LaunchOver, Settled, Returned
  <2>6. MessagesReal' /\ FirstAnswerKept' /\ ErrorMeansNoAnswer' /\ NoPanic'
    BY <1>2, <2>1 DEF SkipSelf, TypeOK, MessagesReal, FirstAnswerKept, Sent, Forwarded,
       ErrorMeansNoAnswer, NoPanic, Returned
  <2> QED
    BY <2>2, <2>3, <2>4, <2>5, <2>6
<1>3. CASE PollAnswer \/ SelectAnswer \/ CollectAnswer
  <2>1. /\ ReturnAnswer
        /\ UNCHANGED <<call, launched, waitGroup, worker, reply, inserted, waiter>>
        /\ main \in {"poll", "select", "collect"}
    BY <1>3 DEF PollAnswer, SelectAnswer, CollectAnswer
  <2>2. TypeOK'
    BY <1>0, <2>1 DEF ReturnAnswer, TypeOK, MainStates, NoMessage
  <2>3. WaitGroupExact'
    BY <2>1, WorkersUnchanged
  <2>4. LaunchOrder' /\ LaunchOver' /\ Settled'
    BY <2>1 DEF ReturnAnswer, LaunchOrder, LaunchOver, Settled, Returned
  <2>5. MessagesReal' /\ FirstAnswerKept' /\ ErrorMeansNoAnswer' /\ NoPanic'
    BY <2>1 DEF ReturnAnswer, TypeOK, MessagesReal, FirstAnswerKept, Sent, Forwarded,
       ErrorMeansNoAnswer, NoPanic, Returned, NoMessage
  <2> QED
    BY <2>2, <2>3, <2>4, <2>5
<1>4. CASE PollEmpty \/ EndLoop \/ SelectFinished \/ WaitAll
  <2>1. UNCHANGED <<call, launched, waitGroup, resultChannel, worker, reply,
                    inserted, reaper, result>>
    BY <1>4 DEF PollEmpty, EndLoop, SelectFinished, WaitAll
  <2>2. TypeOK'
    BY <1>4, <2>1 DEF PollEmpty, EndLoop, SelectFinished, WaitAll, TypeOK, MainStates
  <2>3. WaitGroupExact'
    BY <2>1, WorkersUnchanged
  <2>4. LaunchOrder' /\ LaunchOver' /\ Settled'
    BY <1>4, <2>1 DEF PollEmpty, EndLoop, SelectFinished, WaitAll, TypeOK, Calls,
       LaunchOrder, LaunchOver, Settled, Returned, AllDone, MoreResolvers
  <2>5. MessagesReal' /\ FirstAnswerKept' /\ ErrorMeansNoAnswer' /\ NoPanic'
    BY <1>4, <2>1 DEF PollEmpty, EndLoop, SelectFinished, WaitAll, MessagesReal,
       FirstAnswerKept, Sent, Forwarded, ErrorMeansNoAnswer, NoPanic, Returned, NoMessage
  <2> QED
    BY <2>2, <2>3, <2>4, <2>5
<1>5. CASE CollectNothing
  <2>1. waitGroup = 0 /\ \A r \in Racers : worker[r] \notin Counted
    BY <1>5, NobodyCounted DEF CollectNothing, Settled
  <2>2. TypeOK'
    BY <1>5 DEF CollectNothing, TypeOK, MainStates
  <2>3. WaitGroupExact'
    BY <1>5, WorkersUnchanged DEF CollectNothing
  <2>4. LaunchOrder' /\ LaunchOver' /\ Settled'
    BY <1>5 DEF CollectNothing, LaunchOrder, LaunchOver, Settled, Returned
  <2>5. \A r \in 1 .. call.resolvers :
          worker[r] = "done" /\ reply[r] \notin Forwarded
    <3> SUFFICES ASSUME NEW r \in 1 .. call.resolvers
                 PROVE  worker[r] = "done" /\ reply[r] \notin Forwarded
      OBVIOUS
    <3>1. r \in Racers /\ worker[r] # "idle"
      BY <1>0, <1>5 DEF CollectNothing, LaunchOver, LaunchOrder, TypeOK, Calls, Racers
    <3>2. worker[r] = "done"
      BY <2>1, <3>1 DEF TypeOK, WorkerStates, Counted, NoPanic
    <3>3. ~Sent(r)
      BY <1>5, <3>1 DEF CollectNothing, FirstAnswerKept, Returned
    <3> QED
      BY <3>2, <3>3 DEF Sent
  <2>6. MessagesReal' /\ FirstAnswerKept' /\ ErrorMeansNoAnswer' /\ NoPanic'
    BY <1>5, <2>5 DEF CollectNothing, MessagesReal, FirstAnswerKept, Sent, Forwarded,
       ErrorMeansNoAnswer, NoPanic, Returned, NoMessage
  <2> QED
    BY <2>2, <2>3, <2>4, <2>6
<1>6. ASSUME NEW r \in Racers, Exchange(r) PROVE IInv'
  <2>1. PICK outcome \in Replies \ {"none"} :
          /\ reply' = [reply EXCEPT ![r] = outcome]
          /\ worker' = [worker EXCEPT ![r] = AfterExchange(outcome)]
    BY <1>6 DEF Exchange
  <2>2. /\ worker[r] = "exchange"
        /\ UNCHANGED <<call, main, launched, waitGroup, resultChannel, inserted,
                        waiter, reaper, result>>
        /\ waitGroup # 0
        /\ AfterExchange(outcome) \in {"send", "lost", "finish"}
    BY <1>6, NobodyCounted DEF Exchange, Counted, AfterExchange
  <2>3. TypeOK'
    BY <2>1, <2>2 DEF TypeOK, WorkerStates, Replies
  <2>4. WaitGroupExact'
    BY <2>1, <2>2, WorkerStays DEF Counted
  <2>5. LaunchOrder' /\ LaunchOver' /\ Settled'
    BY <2>1, <2>2 DEF TypeOK, LaunchOrder, LaunchOver, Settled, Returned
  <2>6. MessagesReal'
    BY <2>1, <2>2 DEF TypeOK, MessagesReal, Sent, Forwarded, AfterExchange
  <2>7. FirstAnswerKept' /\ NoPanic'
    BY <2>1, <2>2 DEF TypeOK, FirstAnswerKept, Sent, Forwarded, AfterExchange,
       NoPanic, Returned
  <2>8. ErrorMeansNoAnswer'
    BY <2>2 DEF ErrorMeansNoAnswer, Settled
  <2> QED
    BY <2>3, <2>4, <2>5, <2>6, <2>7, <2>8
<1>7. ASSUME NEW r \in Racers, Send(r) PROVE IInv'
  <2>1. waitGroup # 0 /\ worker[r] = "send" /\ reply[r] \in Forwarded
    BY <1>7, NobodyCounted DEF Send, Counted, MessagesReal
  <2>2. /\ worker' = [worker EXCEPT ![r] = "finish"]
        /\ resultChannel' = IF resultChannel = NoMessage THEN r ELSE resultChannel
        /\ UNCHANGED <<call, main, launched, waitGroup, reply, inserted, waiter,
                        reaper, result>>
    BY <1>7, <2>1 DEF Send, Settled
  <2>3. TypeOK'
    BY <2>2 DEF TypeOK, WorkerStates, Racers
  <2>4. WaitGroupExact'
    BY <2>1, <2>2, WorkerStays DEF Counted
  <2>5. LaunchOrder' /\ LaunchOver' /\ Settled'
    BY <2>1, <2>2 DEF TypeOK, LaunchOrder, LaunchOver, Settled, Returned
  <2>6. MessagesReal'
    BY <2>1, <2>2 DEF TypeOK, MessagesReal, Sent, Forwarded
  <2>7. FirstAnswerKept' /\ NoPanic'
    BY <1>0, <2>1, <2>2 DEF TypeOK, FirstAnswerKept, Sent, Forwarded, NoPanic,
       Returned, NoMessage, Racers
  <2>8. ErrorMeansNoAnswer'
    BY <2>1, <2>2 DEF ErrorMeansNoAnswer, Settled
  <2> QED
    BY <2>3, <2>4, <2>5, <2>6, <2>7, <2>8
<1>8. ASSUME NEW r \in Racers, Finish(r) PROVE IInv'
  <2>1. waitGroup # 0 /\ worker[r] = "finish"
    BY <1>8, NobodyCounted DEF Finish, Counted
  <2>2. /\ worker' = [worker EXCEPT ![r] = "done"]
        /\ waitGroup' = waitGroup - 1
        /\ UNCHANGED <<call, main, launched, resultChannel, reply, inserted, waiter,
                        reaper, result>>
    BY <1>8 DEF Finish
  <2>3. TypeOK'
    BY <2>2 DEF TypeOK, WorkerStates
  <2>4. WaitGroupExact'
    BY <2>1, <2>2, WorkerLeaves DEF Counted
  <2>5. LaunchOrder' /\ LaunchOver' /\ Settled'
    BY <2>1, <2>2 DEF TypeOK, LaunchOrder, LaunchOver, Settled, Returned
  <2>6. MessagesReal' /\ FirstAnswerKept' /\ NoPanic'
    BY <2>1, <2>2 DEF TypeOK, MessagesReal, FirstAnswerKept, Sent, Forwarded, NoPanic,
       Returned
  <2>7. ErrorMeansNoAnswer'
    BY <2>1, <2>2 DEF ErrorMeansNoAnswer, Settled
  <2> QED
    BY <2>3, <2>4, <2>5, <2>6, <2>7
<1>9. ASSUME NEW r \in Racers, InsertedReturns(r) PROVE IInv'
  <2>1. /\ inserted' = [inserted EXCEPT ![r] = @ - 1]
        /\ inserted[r] > 0
        /\ UNCHANGED <<call, main, launched, waitGroup, resultChannel, worker, reply,
                        waiter, reaper, result>>
    BY <1>9 DEF InsertedReturns
  <2>2. TypeOK'
    BY <2>1 DEF TypeOK
  <2>3. WaitGroupExact'
    BY <2>1, WorkersUnchanged
  <2>4. LaunchOrder' /\ LaunchOver' /\ Settled' /\ MessagesReal' /\ FirstAnswerKept'
        /\ ErrorMeansNoAnswer' /\ NoPanic'
    BY <2>1 DEF LaunchOrder, LaunchOver, Settled, MessagesReal, FirstAnswerKept, Sent,
       Forwarded, ErrorMeansNoAnswer, NoPanic, Returned
  <2> QED
    BY <2>2, <2>3, <2>4
<1>10. CASE WaiterSignals \/ ReaperCloses
  <2>1. /\ UNCHANGED <<call, main, launched, waitGroup, resultChannel, worker, reply,
                        inserted, result>>
        /\ waitGroup = 0
        /\ \/ waiter = "waiting" /\ waiter' = "finished" /\ reaper' = reaper
           \/ reaper = "waiting" /\ reaper' = "closed" /\ waiter' = waiter
    BY <1>10 DEF WaiterSignals, ReaperCloses, AllDone
  <2>2. TypeOK'
    BY <2>1 DEF TypeOK
  <2>3. WaitGroupExact'
    BY <2>1, WorkersUnchanged
  <2>4. LaunchOrder' /\ LaunchOver' /\ Settled' /\ MessagesReal' /\ FirstAnswerKept'
        /\ ErrorMeansNoAnswer' /\ NoPanic'
    BY <2>1 DEF LaunchOrder, LaunchOver, Settled, MessagesReal, FirstAnswerKept, Sent,
       Forwarded, ErrorMeansNoAnswer, NoPanic, Returned
  <2> QED
    BY <2>2, <2>3, <2>4
<1>11. CASE UNCHANGED vars
  <2>1. WaitGroupExact'
    BY <1>11, WorkersUnchanged DEF vars
  <2> QED
    BY <1>11, <2>1 DEF vars, TypeOK, LaunchOrder, LaunchOver, Settled, MessagesReal,
       FirstAnswerKept, Sent, Forwarded, ErrorMeansNoAnswer, NoPanic, Returned
<1> QED
  BY <1>1, <1>2, <1>3, <1>4, <1>5, <1>6, <1>7, <1>8, <1>9, <1>10, <1>11
  DEF Next, Main, Worker, Over

LEMMA Invariance == Safe => []IInv
BY InitIInv, NextIInv, PTL DEF Safe

-----------------------------------------------------------------------------
(* The safety properties of the lookup.                                    *)

(* Every variable keeps to its type.                                       *)
THEOREM TypeCorrect == Safe => []TypeOK
<1>1. IInv => TypeOK
  BY DEF IInv
<1> QED
  BY <1>1, Invariance, PTL

(* The WaitGroup counts the lookups that have not called Done, whatever    *)
(* the number of resolvers and of cover queries.                           *)
THEOREM WaitGroupCorrect == Safe => []WaitGroupExact
<1>1. IInv => WaitGroupExact
  BY DEF IInv
<1> QED
  BY <1>1, Invariance, PTL

(* No lookup goroutine ever finds resultChannel closed: the reaper closes  *)
(* it when the counter is zero, and then nobody is before his send.        *)
THEOREM NeverSendsOnClosed == Safe => []NoSendOnClosedChannel
<1>1. IInv => NoSendOnClosedChannel
  BY NobodyCounted DEF IInv, Settled, Counted, NoPanic, NoSendOnClosedChannel
<1> QED
  BY <1>1, Invariance, PTL

(* ResolvError is returned only if every resolver was asked and none gave  *)
(* a reply to forward.                                                     *)
THEOREM ErrorIsHonest == Safe => []ErrorMeansNoAnswer
<1>1. IInv => ErrorMeansNoAnswer
  BY DEF IInv
<1> QED
  BY <1>1, Invariance, PTL

-----------------------------------------------------------------------------
(* The end of the lookup.                                                  *)

(* Which workers never call Done, that cover queries are started together  *)
(* with a lookup, and that a select has somebody who will signal it.       *)
EndInv ==
    /\ \A r \in Racers :
          /\ worker[r] = "idle" => inserted[r] = 0
          /\ worker[r] \in {"idle", "exchange", "skipped"} => reply[r] = "none"
          /\ worker[r] = "skipped" <=> r <= launched /\ r \in call.self
          /\ worker[r] = "lost" <=> call.unique /\ reply[r] = "error"
    /\ main = "select" => waiter # "off"

LEMMA EndInit == Init => EndInv
BY MaxResolversAssumption DEF Init, EndInv, Racers

LEMMA EndStep == IInv /\ EndInv /\ [Next]_vars => EndInv'
<1> SUFFICES ASSUME IInv, EndInv, [Next]_vars PROVE EndInv'
  OBVIOUS
<1>0. MaxResolvers \in Nat \ {0} /\ TypeOK /\ LaunchOrder
  BY MaxResolversAssumption DEF IInv
<1>1. CASE Launch \/ SkipSelf
  <2> DEFINE n == launched + 1
  <2>1. n \in Racers /\ worker[n] = "idle"
    BY <1>0, <1>1 DEF Launch, SkipSelf, MoreResolvers, TypeOK, Calls, Racers, LaunchOrder
  <2>2. /\ UNCHANGED <<call, main, reply, waiter>> \/ (UNCHANGED <<call, reply, waiter>> /\ main' = "poll")
        /\ launched' = n
        /\ worker' = [worker EXCEPT ![n] = IF n \in call.self THEN "skipped" ELSE "exchange"]
    BY <1>1 DEF Launch, SkipSelf
  <2>3. \A r \in Racers \ {n} : /\ worker'[r] = worker[r] /\ inserted'[r] = inserted[r]
                                /\ r <= n <=> r <= launched
    BY <1>0, <1>1, <2>1, <2>2 DEF Launch, SkipSelf, TypeOK, Racers
  <2>4. worker'[n] = IF n \in call.self THEN "skipped" ELSE "exchange"
    BY <1>0, <2>1, <2>2 DEF TypeOK
  <2> QED
    BY <1>0, <2>1, <2>2, <2>3, <2>4 DEF EndInv, TypeOK
<1>2. CASE PollAnswer \/ PollEmpty \/ EndLoop \/ SelectAnswer \/ SelectFinished
           \/ WaitAll \/ CollectAnswer \/ CollectNothing \/ WaiterSignals \/ ReaperCloses
  <2>1. /\ UNCHANGED <<call, launched, worker, reply, inserted>>
        /\ main' = "select" => waiter' # "off"
    BY <1>2 DEF PollAnswer, PollEmpty, EndLoop, SelectAnswer, SelectFinished, WaitAll,
       CollectAnswer, CollectNothing, WaiterSignals, ReaperCloses, ReturnAnswer, EndInv
  <2> QED
    BY <2>1 DEF EndInv
<1>3. ASSUME NEW r \in Racers, Exchange(r) PROVE EndInv'
  <2>1. PICK outcome \in Replies \ {"none"} :
          /\ reply' = [reply EXCEPT ![r] = outcome]
          /\ worker' = [worker EXCEPT ![r] = AfterExchange(outcome)]
    BY <1>3 DEF Exchange
  <2>2. worker[r] = "exchange" /\ UNCHANGED <<call, main, launched, inserted, waiter>>
    BY <1>3 DEF Exchange
  <2>3. /\ AfterExchange(outcome) \in {"send", "finish", "lost"}
        /\ AfterExchange(outcome) = "lost" <=> call.unique /\ outcome = "error"
    BY DEF AfterExchange, Forwarded
  <2> QED
    BY <1>0, <2>1, <2>2, <2>3 DEF EndInv, TypeOK
<1>4. ASSUME NEW r \in Racers, Send(r) \/ Finish(r) \/ InsertedReturns(r) PROVE EndInv'
  <2>1. /\ UNCHANGED <<call, main, launched, reply, waiter>>
        /\ \/ /\ UNCHANGED worker
              /\ inserted[r] > 0 /\ inserted' = [inserted EXCEPT ![r] = @ - 1]
           \/ /\ worker[r] \in {"send", "finish"} /\ UNCHANGED inserted
              /\ \E s \in {"finish", "done", "panicked"} : worker' = [worker EXCEPT ![r] = s]
    BY <1>4 DEF Send, Finish, InsertedReturns
  <2> QED
    BY <1>0, <2>1 DEF EndInv, TypeOK
<1>5. CASE UNCHANGED vars
  BY <1>5 DEF vars, EndInv
<1> QED
  BY <1>1, <1>2, <1>3, <1>4, <1>5 DEF Next, Main, Worker, Over

LEMMA EndInvariance == Safe => []EndInv
BY EndInit, EndStep, Invariance, PTL DEF Safe

LEMMA NeverDoneWorkers ==
  ASSUME IInv, EndInv
  PROVE  NeverDone = {r \in Racers : worker[r] \in {"lost", "skipped"}}
<1>0. MaxResolvers \in Nat \ {0} /\ TypeOK /\ LaunchOrder
  BY MaxResolversAssumption DEF IInv
<1>1. 1 .. launched \subseteq Racers
  BY <1>0 DEF TypeOK, Racers
<1>2. \A r \in Racers : r \notin 1 .. launched => worker[r] = "idle"
  BY <1>0 DEF TypeOK, Racers, LaunchOrder
<1>3. \A r \in 1 .. launched : r \in Racers /\ r <= launched
  BY <1>0, <1>1 DEF TypeOK
<1> QED
  BY <1>1, <1>2, <1>3 DEF NeverDone, EndInv

(* When no goroutine can go on, every worker has ended or never will.      *)
LEMMA BlockedWorkers ==
  ASSUME IInv, EndInv, ~CanGoOn, NeverDone = {}
  PROVE  Returned /\ reaper = "closed"
<1>1. \A r \in Racers : worker[r] \notin Counted
  BY NeverDoneWorkers DEF IInv, Counted, CanGoOn
<1>2. waitGroup = 0
  <2>1. CountedWorkers = {}
    BY <1>1 DEF CountedWorkers
  <2> QED
    BY <2>1, FS_EmptySet DEF IInv, WaitGroupExact
<1>3. waiter # "waiting" /\ main # "wait" /\ reaper # "waiting"
  BY <1>2 DEF CanGoOn, AllDone
<1>4. main # "select"
  BY <1>3 DEF CanGoOn, EndInv, IInv, TypeOK
<1>5. Returned
  BY <1>3, <1>4 DEF CanGoOn, Returned, IInv, TypeOK, MainStates
<1> QED
  BY <1>3, <1>5 DEF IInv, TypeOK, LaunchOver

(* The only thing that can keep a call from its end, or the goroutines it  *)
(* leaves behind from theirs, is a resolver that is this host or an oDoH   *)
(* exchange that failed; and each of those does.                           *)
THEOREM OnlyTheNeverDone == Safe => []OnlyTheNeverDoneBlock
<1>1. IInv /\ EndInv => OnlyTheNeverDoneBlock
  <2> SUFFICES ASSUME IInv, EndInv, ~CanGoOn
               PROVE  Returned /\ reaper = "closed" <=> NeverDone = {}
    BY DEF OnlyTheNeverDoneBlock
  <2>1. ASSUME reaper = "closed" PROVE NeverDone = {}
    BY <2>1, NobodyCounted, NeverDoneWorkers DEF IInv, Settled, Counted
  <2> QED
    BY <2>1, BlockedWorkers
<1> QED
  BY <1>1, EndInvariance, Invariance, PTL

IntegerStages ==
    /\ MainStage \in Int /\ WaiterStage \in Int /\ ReaperStage \in Int
    /\ \A r \in Racers : WorkerStage(r) \in Int /\ CoverLeft(r) \in Int

LEMMA StagesAreIntegers == (TypeOK => IntegerStages) /\ (TypeOK' => IntegerStages')
<1>0. MaxResolvers \in Nat \ {0} /\ InsertionFactor \in Nat
  BY MaxResolversAssumption, InsertionAssumption
<1>1. TypeOK => MainStage \in Int /\ WaiterStage \in Int /\ ReaperStage \in Int
  BY <1>0 DEF TypeOK, MainStates, MainStage, Returned, WaiterStage, ReaperStage
<1>2. TypeOK => \A r \in Racers : WorkerStage(r) \in Int /\ CoverLeft(r) \in Int
  BY <1>0 DEF TypeOK, WorkerStates, WorkerStage, CoverLeft
<1>3. TypeOK' => (MainStage \in Int /\ WaiterStage \in Int /\ ReaperStage \in Int)'
  BY <1>0 DEF TypeOK, MainStates, MainStage, Returned, WaiterStage, ReaperStage
<1>4. TypeOK' => (\A r \in Racers : WorkerStage(r) \in Int /\ CoverLeft(r) \in Int)'
  BY <1>0 DEF TypeOK, WorkerStates, WorkerStage, CoverLeft
<1> QED
  BY <1>1, <1>2, <1>3, <1>4 DEF IntegerStages

(* An answer leaves the channel only as the result of the call.            *)
LEMMA AnswerStays == IInv /\ Next => AnswerKept
<1> SUFFICES ASSUME IInv, Next, resultChannel # NoMessage
             PROVE  \/ resultChannel' = resultChannel
                    \/ resultChannel' = NoMessage /\ result' = resultChannel
  BY DEF AnswerKept
<1>1. CASE Main
  BY <1>1 DEF Main, Launch, SkipSelf, PollAnswer, PollEmpty, EndLoop, SelectAnswer,
     SelectFinished, WaitAll, CollectAnswer, CollectNothing, ReturnAnswer
<1>2. CASE \E r \in Racers : Worker(r) \/ InsertedReturns(r)
  BY <1>2 DEF Worker, Exchange, Send, Finish, InsertedReturns
<1>3. CASE WaiterSignals \/ ReaperCloses \/ Over
  BY <1>3 DEF WaiterSignals, ReaperCloses, Over, vars
<1> QED
  BY <1>1, <1>2, <1>3 DEF Next

(* Every step of a call uses up something of which there is only so much:  *)
(* with the theorem before, a call ends by itself unless it is blocked.    *)
THEOREM StepsUsedUp == Safe => EveryStepAdvances
<1>1. IInv /\ EndInv /\ [Next]_vars => [NothingGoesBack /\ SomethingAdvances]_vars
  <2> SUFFICES ASSUME IInv, EndInv, Next, ~UNCHANGED vars PROVE NothingGoesBack /\ SomethingAdvances
    OBVIOUS
  <2>0. MaxResolvers \in Nat \ {0} /\ TypeOK /\ LaunchOrder /\ InsertionFactor \in Nat
    BY MaxResolversAssumption, InsertionAssumption DEF IInv
  <2>1. IntegerStages /\ IntegerStages'
    BY NextIInv, StagesAreIntegers DEF IInv
  <2>2. CASE Launch \/ SkipSelf
    <3> DEFINE n == launched + 1
    <3>1. n \in Racers /\ worker[n] = "idle" /\ n \in 1 .. MaxResolvers
      BY <2>0, <2>2 DEF Launch, SkipSelf, MoreResolvers, TypeOK, Calls, Racers, LaunchOrder
    <3>2. /\ main = "loop" /\ main' \in {"loop", "poll"} /\ launched' = n
          /\ worker'[n] \in {"exchange", "skipped"} /\ inserted'[n] <= InsertionFactor
          /\ UNCHANGED <<waiter, reaper>>
      BY <2>0, <2>2, <3>1 DEF Launch, SkipSelf, TypeOK, Calls, EndInv
    <3>3. \A r \in Racers \ {n} : worker'[r] = worker[r] /\ inserted'[r] = inserted[r]
      BY <2>0, <2>2, <3>1 DEF Launch, SkipSelf, TypeOK
    <3>4. MainStage' > MainStage
      <4>1. launched \in Int /\ launched' = launched + 1 /\ MainStage = 2 * launched
        BY <2>0, <3>2 DEF MainStage, Returned, TypeOK
      <4>2. MainStage' = 2 * launched' \/ MainStage' = 2 * launched' - 1
        BY <3>2 DEF MainStage, Returned
      <4> QED
        BY <4>1, <4>2
    <3>5. WaiterStage' = WaiterStage /\ ReaperStage' = ReaperStage
      BY <3>2 DEF WaiterStage, ReaperStage
    <3>6. ASSUME NEW r \in Racers
          PROVE  WorkerStage(r)' >= WorkerStage(r) /\ CoverLeft(r)' <= CoverLeft(r)
      <4>1. CASE r = n
        BY <2>0, <3>1, <3>2, <4>1 DEF WorkerStage, CoverLeft
      <4>2. CASE r # n
        <5>1. WorkerStage(r)' = WorkerStage(r) /\ CoverLeft(r)' = CoverLeft(r)
          BY <3>3, <4>2 DEF WorkerStage, CoverLeft
        <5> QED
          BY <2>1, <5>1 DEF IntegerStages
      <4> QED
        BY <4>1, <4>2
    <3> QED
      BY <2>1, <3>4, <3>5, <3>6 DEF IntegerStages, NothingGoesBack, SomethingAdvances
  <2>3. CASE PollAnswer \/ PollEmpty \/ EndLoop \/ SelectAnswer \/ SelectFinished
             \/ WaitAll \/ CollectAnswer \/ CollectNothing
    <3>1. UNCHANGED <<launched, worker, inserted>>
      BY <2>3 DEF PollAnswer, PollEmpty, EndLoop, SelectAnswer, SelectFinished, WaitAll,
         CollectAnswer, CollectNothing
    <3>2. \A r \in Racers : WorkerStage(r)' = WorkerStage(r) /\ CoverLeft(r)' = CoverLeft(r)
      BY <3>1 DEF WorkerStage, CoverLeft
    <3>3. /\ main \in {"loop", "poll"} => launched \in 0 .. MaxResolvers
          /\ \/ main = "poll" /\ main' \in {"loop", "answered"}
             \/ main = "loop" /\ main' \in {"select", "wait"}
             \/ main \in {"select", "wait"} /\ main' \in {"answered", "collect"}
             \/ main = "collect" /\ main' \in {"answered", "failed"}
      BY <2>0, <2>3 DEF PollAnswer, PollEmpty, EndLoop, SelectAnswer, SelectFinished, WaitAll,
         CollectAnswer, CollectNothing, ReturnAnswer, TypeOK
    <3>4. MainStage' > MainStage
      BY <2>0, <3>1, <3>3 DEF MainStage, Returned, TypeOK
    <3>5. /\ waiter' = waiter \/ (waiter = "off" /\ waiter' = "waiting")
          /\ reaper' = reaper \/ (reaper = "off" /\ reaper' = "waiting")
      BY <2>3 DEF PollAnswer, PollEmpty, EndLoop, SelectAnswer, SelectFinished, WaitAll,
         CollectAnswer, CollectNothing, ReturnAnswer, IInv, LaunchOver, Returned, TypeOK
    <3>6. WaiterStage' >= WaiterStage /\ ReaperStage' >= ReaperStage
      BY <2>0, <3>5 DEF WaiterStage, ReaperStage, TypeOK
    <3> QED
      BY <2>1, <3>2, <3>4, <3>6 DEF IntegerStages, NothingGoesBack, SomethingAdvances
  <2>4. ASSUME NEW r \in Racers, Worker(r)
        PROVE  NothingGoesBack /\ SomethingAdvances
    <3>1. /\ UNCHANGED <<main, launched, inserted, waiter, reaper>>
          /\ \E s \in {"send", "finish", "lost", "done", "panicked"} :
                /\ worker' = [worker EXCEPT ![r] = s]
                /\ \/ worker[r] = "exchange" /\ s # "done"
                   \/ worker[r] = "send" /\ s \in {"finish", "panicked"}
                   \/ worker[r] = "finish" /\ s = "done"
      BY <2>4 DEF Worker, Exchange, Send, Finish, AfterExchange
    <3>2. MainStage' = MainStage /\ WaiterStage' = WaiterStage /\ ReaperStage' = ReaperStage
      BY <3>1 DEF MainStage, WaiterStage, ReaperStage, Returned
    <3>3. WorkerStage(r)' > WorkerStage(r) /\ CoverLeft(r)' = CoverLeft(r)
      BY <2>0, <3>1 DEF WorkerStage, CoverLeft, TypeOK
    <3>4. \A q \in Racers \ {r} : WorkerStage(q)' = WorkerStage(q) /\ CoverLeft(q)' = CoverLeft(q)
      BY <2>0, <3>1 DEF WorkerStage, CoverLeft, TypeOK
    <3> QED
      BY <2>1, <3>2, <3>3, <3>4 DEF IntegerStages, NothingGoesBack, SomethingAdvances
  <2>5. ASSUME NEW r \in Racers, InsertedReturns(r)
        PROVE  NothingGoesBack /\ SomethingAdvances
    <3>1. /\ UNCHANGED <<main, launched, worker, waiter, reaper>>
          /\ inserted[r] > 0 /\ inserted' = [inserted EXCEPT ![r] = @ - 1]
      BY <2>5 DEF InsertedReturns
    <3>2. MainStage' = MainStage /\ WaiterStage' = WaiterStage /\ ReaperStage' = ReaperStage
      BY <3>1 DEF MainStage, WaiterStage, ReaperStage, Returned
    <3>3. worker[r] # "idle"
      BY <3>1 DEF EndInv
    <3>4. WorkerStage(r)' = WorkerStage(r) /\ CoverLeft(r)' < CoverLeft(r)
      BY <2>0, <3>1, <3>3 DEF WorkerStage, CoverLeft, TypeOK
    <3>5. \A q \in Racers \ {r} : WorkerStage(q)' = WorkerStage(q) /\ CoverLeft(q)' = CoverLeft(q)
      BY <2>0, <3>1 DEF WorkerStage, CoverLeft, TypeOK
    <3> QED
      BY <2>1, <3>2, <3>4, <3>5 DEF IntegerStages, NothingGoesBack, SomethingAdvances
  <2>6. CASE WaiterSignals \/ ReaperCloses
    <3>1. /\ UNCHANGED <<main, launched, worker, inserted>>
          /\ \/ waiter = "waiting" /\ waiter' = "finished" /\ reaper' = reaper
             \/ reaper = "waiting" /\ reaper' = "closed" /\ waiter' = waiter
      BY <2>6 DEF WaiterSignals, ReaperCloses
    <3>2. MainStage' = MainStage
      BY <3>1 DEF MainStage, Returned
    <3>3. \A r \in Racers : WorkerStage(r)' = WorkerStage(r) /\ CoverLeft(r)' = CoverLeft(r)
      BY <3>1 DEF WorkerStage, CoverLeft
    <3>4. \/ WaiterStage' > WaiterStage /\ ReaperStage' = ReaperStage
          \/ WaiterStage' = WaiterStage /\ ReaperStage' > ReaperStage
      <4>1. CASE waiter = "waiting" /\ waiter' = "finished" /\ reaper' = reaper
        BY <4>1 DEF WaiterStage, ReaperStage
      <4>2. CASE reaper = "waiting" /\ reaper' = "closed" /\ waiter' = waiter
        BY <4>2 DEF WaiterStage, ReaperStage
      <4> QED
        BY <3>1, <4>1, <4>2
    <3> QED
      BY <2>1, <3>2, <3>3, <3>4 DEF IntegerStages, NothingGoesBack, SomethingAdvances
  <2> QED
    BY <2>2, <2>3, <2>4, <2>5, <2>6 DEF Next, Main, Over
<1>2. IInv /\ EndInv /\ [Next]_vars =>
        [NothingGoesBack /\ SomethingAdvances /\ AnswerKept]_vars
  BY <1>1, AnswerStays
<1> QED
  BY <1>2, EndInvariance, Invariance, PTL DEF Safe, EveryStepAdvances

-----------------------------------------------------------------------------
(* The lookup implements RaceContract.                                     *)

LEMMA ContractInit == Init => Contract!Init
<1> SUFFICES ASSUME Init PROVE Contract!Init
  OBVIOUS
<1>1. 1 .. call.resolvers \in SUBSET Racers
  BY MaxResolversAssumption DEF Init, Calls, Racers
<1>2. /\ {r \in Racers : Answered(r)} = {}
      /\ {r \in Racers : Refused(r)} = {}
  BY DEF Init, Answered, Refused
<1> QED
  BY <1>1, <1>2 DEF Init, Contract!Init, Returned, NoMessage

LEMMA ContractStep == IInv /\ [Next]_vars => [Contract!Next]_(Contract!contractVars)
<1> SUFFICES ASSUME IInv, [Next]_vars
             PROVE  Contract!Next \/ UNCHANGED Contract!contractVars
  OBVIOUS
<1> DEFINE answers == {r \in Racers : Answered(r)}
           refusals == {r \in Racers : Refused(r)}
<1>0. MaxResolvers \in Nat \ {0} /\ TypeOK /\ call.resolvers \in 0 .. MaxResolvers
  BY MaxResolversAssumption DEF IInv, TypeOK, Calls
<1>1. CASE Launch \/ SkipSelf
  <2>1. PICK s \in {"exchange", "skipped"} :
          worker' = [worker EXCEPT ![launched + 1] = s]
    BY <1>1 DEF Launch, SkipSelf
  <2>2. /\ UNCHANGED <<call, reply, result>> /\ Returned' = Returned /\ ~Returned
        /\ launched + 1 \in Racers /\ worker[launched + 1] = "idle"
    BY <1>0, <1>1 DEF Launch, SkipSelf, Returned, MoreResolvers, TypeOK, Racers,
       IInv, LaunchOrder
  <2>3. answers' = answers /\ refusals' = refusals
    BY <1>0, <2>1, <2>2 DEF Answered, Refused, Forwarded, TypeOK
  <2> QED
    BY <2>2, <2>3 DEF Contract!contractVars
<1>2. CASE PollAnswer \/ SelectAnswer \/ CollectAnswer
  <2>1. /\ UNCHANGED <<call, worker, reply>> /\ ~Returned /\ main' = "answered"
        /\ resultChannel # NoMessage /\ result' = resultChannel
    BY <1>2 DEF PollAnswer, SelectAnswer, CollectAnswer, ReturnAnswer, Returned
  <2>2. answers' = answers /\ refusals' = refusals
    BY <2>1 DEF Answered, Refused, Forwarded
  <2>3. resultChannel \in answers
    BY <2>1 DEF IInv, MessagesReal, Sent, Answered
  <2>4. Contract!Return(resultChannel)
    BY <2>1, <2>2, <2>3 DEF Contract!Return, Returned
  <2> QED
    BY <2>3, <2>4 DEF Contract!Next
<1>3. CASE CollectNothing
  <2>1. /\ UNCHANGED <<call, worker, reply, result>> /\ ~Returned /\ main' = "failed"
        /\ result = NoMessage
    BY <1>3 DEF CollectNothing, Returned, IInv, MessagesReal
  <2>2. answers' = answers /\ refusals' = refusals
    BY <2>1 DEF Answered, Refused, Forwarded
  <2>3. \A r \in 1 .. call.resolvers : Refused(r)
    BY <2>1, NextIInv DEF IInv, ErrorMeansNoAnswer, Refused, Forwarded
  <2>4. \A r \in Racers : Refused(r) => r \in 1 .. call.resolvers
    BY <1>0 DEF Refused, IInv, LaunchOrder, Racers, TypeOK
  <2>5. refusals = 1 .. call.resolvers
    BY <1>0, <2>3, <2>4 DEF Racers
  <2>6. Contract!Fail
    BY <2>1, <2>2, <2>5 DEF Contract!Fail, Returned
  <2> QED
    BY <2>6 DEF Contract!Next
<1>4. CASE PollEmpty \/ EndLoop \/ SelectFinished \/ WaitAll
  <2>1. UNCHANGED <<call, worker, reply, result>> /\ ~Returned /\ ~Returned'
    BY <1>4 DEF PollEmpty, EndLoop, SelectFinished, WaitAll, Returned
  <2>2. answers' = answers /\ refusals' = refusals
    BY <2>1 DEF Answered, Refused, Forwarded
  <2> QED
    BY <2>1, <2>2 DEF Contract!contractVars
<1>5. ASSUME NEW r \in Racers, Exchange(r)
      PROVE  Contract!Next \/ UNCHANGED Contract!contractVars
  <2>1. PICK outcome \in Replies \ {"none"} :
          /\ reply' = [reply EXCEPT ![r] = outcome]
          /\ worker' = [worker EXCEPT ![r] = AfterExchange(outcome)]
    BY <1>5 DEF Exchange
  <2>2. worker[r] = "exchange" /\ UNCHANGED <<call, main, result>>
    BY <1>5 DEF Exchange
  <2>3. r \in 1 .. call.resolvers
    BY <1>0, <2>2 DEF IInv, LaunchOrder, Racers, TypeOK
  <2>4. answers' = answers /\ r \notin answers /\ r \notin refusals
    BY <1>0, <2>1, <2>2 DEF Answered, Refused, Forwarded, AfterExchange, TypeOK
  <2>5. CASE AfterExchange(outcome) = "finish"
    <3>1. refusals' = refusals \cup {r}
      BY <1>0, <2>1, <2>2, <2>5 DEF Refused, Forwarded, AfterExchange, TypeOK
    <3>2. Contract!Refuse(r)
      BY <2>2, <2>3, <2>4, <3>1 DEF Contract!Refuse, Returned
    <3> QED
      BY <3>2 DEF Contract!Next
  <2>6. CASE AfterExchange(outcome) # "finish"
    <3>1. refusals' = refusals
      BY <1>0, <2>1, <2>2, <2>6 DEF Refused, Forwarded, AfterExchange, TypeOK
    <3> QED
      BY <2>2, <2>4, <3>1 DEF Contract!contractVars, Returned
  <2> QED
    BY <2>5, <2>6
<1>6. ASSUME NEW r \in Racers, Send(r)
      PROVE  Contract!Next \/ UNCHANGED Contract!contractVars
  <2>1. /\ worker[r] = "send" /\ reply[r] \in Forwarded
        /\ UNCHANGED <<call, main, reply, result>>
    BY <1>6 DEF Send, IInv, MessagesReal
  <2>2. PICK s \in {"finish", "panicked"} : worker' = [worker EXCEPT ![r] = s]
    BY <1>6 DEF Send
  <2>3. r \in 1 .. call.resolvers
    BY <1>0, <2>1 DEF IInv, LaunchOrder, Racers, TypeOK
  <2>4. /\ answers' = answers \cup {r} /\ refusals' = refusals
        /\ r \notin answers /\ r \notin refusals
    BY <1>0, <2>1, <2>2 DEF Answered, Refused, Forwarded, TypeOK
  <2>5. Contract!Answer(r)
    BY <2>1, <2>3, <2>4 DEF Contract!Answer, Returned
  <2> QED
    BY <2>5 DEF Contract!Next
<1>7. ASSUME NEW r \in Racers, Finish(r) \/ InsertedReturns(r)
      PROVE  Contract!Next \/ UNCHANGED Contract!contractVars
  <2>1. /\ UNCHANGED <<call, main, reply, result>>
        /\ \/ worker[r] = "finish" /\ worker' = [worker EXCEPT ![r] = "done"]
           \/ UNCHANGED worker
    BY <1>7 DEF Finish, InsertedReturns
  <2>2. answers' = answers /\ refusals' = refusals
    BY <1>0, <2>1 DEF Answered, Refused, Forwarded, TypeOK
  <2> QED
    BY <2>1, <2>2 DEF Contract!contractVars, Returned
<1>8. CASE WaiterSignals \/ ReaperCloses \/ UNCHANGED vars
  <2>1. UNCHANGED <<call, main, worker, reply, result>>
    BY <1>8 DEF WaiterSignals, ReaperCloses, vars
  <2>2. answers' = answers /\ refusals' = refusals
    BY <2>1 DEF Answered, Refused, Forwarded
  <2> QED
    BY <2>1, <2>2 DEF Contract!contractVars, Returned
<1> QED
  BY <1>1, <1>2, <1>3, <1>4, <1>5, <1>6, <1>7, <1>8 DEF Next, Main, Worker, Over

(* LookupAtNameservers keeps the promise of its comment: the value it      *)
(* returns is an answer it was given, and it fails only when every         *)
(* resolver it was to ask has refused.                                     *)
THEOREM LookupImplementsContract == Safe => ImplementsContract
BY ContractInit, ContractStep, Invariance, PTL DEF Safe, ImplementsContract, Contract!Spec
=============================================================================
