----------------------------- MODULE LookupRace -----------------------------
(***************************************************************************)
(* One call of Resolver.LookupAtNameservers: the racing loop of            *)
(* resolver.go from the point where the list of resolvers is chosen to the *)
(* return of the call, with every goroutine the call starts.               *)
(*                                                                         *)
(*   main    the calling goroutine                                         *)
(*   worker  one routine_DoLookup, routine_DoLookup_DoH or                 *)
(*           routine_DoLookup_oDoH per resolver                            *)
(*   inserted  the cover queries of privacy mode, which nobody waits for   *)
(*   waiter  the goroutine that turns waitGroup.Wait into lookupFinished   *)
(*   reaper  the deferred goroutine that closes resultChannel              *)
(*                                                                         *)
(* A message on resultChannel is the position of the resolver that sent    *)
(* it; 0 stands for an empty channel.                                      *)
(***************************************************************************)
EXTENDS Integers, FiniteSets

CONSTANTS
    MaxResolvers,     \* bound on the number of resolvers a call races
    InsertionFactor,  \* cover queries per resolver in privacy mode (3 in the code)
    UniqueSites,      \* may the question be a user-defined unique website?
    SelfResolvers     \* positions whose address may be 127.0.0.1

ASSUME MaxResolversAssumption == MaxResolvers \in Nat \ {0}
ASSUME InsertionAssumption == InsertionFactor \in Nat
ASSUME UniqueAssumption == UniqueSites \subseteq BOOLEAN /\ UniqueSites # {}
ASSUME SelfAssumption == SelfResolvers \subseteq 1 .. MaxResolvers

VARIABLES
    call,           \* what this call was given; never changes
    main,           \* control state of the calling goroutine
    launched,       \* iterations of the launch loop begun so far
    waitGroup,      \* the counter of the sync.WaitGroup
    resultChannel,  \* the message buffered in the channel of capacity 1
    worker,         \* control state of the lookup goroutine of each resolver
    reply,          \* what the exchange of each resolver ended with
    inserted,       \* cover queries in flight, per resolver
    waiter,         \* "finished" when lookupFinished holds its token
    reaper,         \* "closed" when resultChannel has been closed
    result          \* the answer the call returned

vars == <<call, main, launched, waitGroup, resultChannel, worker, reply,
          inserted, waiter, reaper, result>>

Racers == 1 .. MaxResolvers
NoMessage == 0

Calls == [resolvers : 0 .. MaxResolvers,
          self      : SUBSET SelfResolvers,
          unique    : UniqueSites,
          racing    : BOOLEAN,
          factor    : {0, InsertionFactor}]

MainStates == {"loop", "poll", "select", "wait", "collect", "answered", "failed"}
WorkerStates == {"idle", "exchange", "send", "finish", "done",
                 "lost", "skipped", "panicked"}
Replies == {"none", "success", "nxdomain", "servfail", "error"}

(* The workers for which Add(1) was called and Done was not.               *)
Counted == {"exchange", "send", "finish", "lost", "skipped"}

(* The replies a worker forwards: plain DNS and DoH forward NXDOMAIN and   *)
(* other failure codes, oDoH forwards successes only.                      *)
Forwarded == IF call.unique THEN {"success"} ELSE {"success", "nxdomain"}

(* Mutant of the next definition: every routine returns on an error before *)
(* it has deferred Done.                                                   *)
ErrorSkipsDone(outcome) ==
    IF outcome \in Forwarded THEN "send"
    ELSE IF outcome = "error" THEN "lost" ELSE "finish"

(* Where an exchange leads: a forwarded reply to the send, a socket error  *)
(* or SERVFAIL to the deferred Done; but the oDoH routine returns on an    *)
(* error before it has deferred Done.                                      *)
AfterExchange(outcome) ==
    IF outcome \in Forwarded THEN "send"
    ELSE IF call.unique /\ outcome = "error" THEN "lost" ELSE "finish"

(* Mutant of the next definition: Wait misses the last worker.             *)
AllButOneDone == waitGroup <= 1

(* waitGroup.Wait() may return.                                            *)
AllDone == waitGroup = 0

(* Mutant of the next definition: the loop counts from 0 and is left too   *)
(* late.                                                                   *)
LoopsOnceMore == launched <= call.resolvers

(* The loop has resolvers left.                                            *)
MoreResolvers == launched < call.resolvers

Returned == main \in {"answered", "failed"}

TypeOK ==
    /\ call \in Calls
    /\ main \in MainStates
    /\ launched \in 0 .. MaxResolvers
    /\ waitGroup \in Int
    /\ resultChannel \in 0 .. MaxResolvers
    /\ worker \in [Racers -> WorkerStates]
    /\ reply \in [Racers -> Replies]
    /\ inserted \in [Racers -> Nat]
    /\ waiter \in {"off", "waiting", "finished"}
    /\ reaper \in {"off", "waiting", "closed"}
    /\ result \in 0 .. MaxResolvers

Init ==
    /\ call \in Calls
    /\ main = "loop"
    /\ launched = 0
    /\ waitGroup = 0
    /\ resultChannel = NoMessage
    /\ worker = [r \in Racers |-> "idle"]
    /\ reply = [r \in Racers |-> "none"]
    /\ inserted = [r \in Racers |-> 0]
    /\ waiter = "off"
    /\ reaper = "off"
    /\ result = NoMessage

-----------------------------------------------------------------------------
(* The calling goroutine.                                                  *)

(* waitGroup.Add(1), then the goroutine of this resolver and its cover     *)
(* queries.  oDoH lookups have no cover queries.                           *)
Launch ==
    LET r == launched + 1 IN
    /\ main = "loop"
    /\ MoreResolvers
    /\ r \notin call.self
    /\ launched' = r
    /\ waitGroup' = waitGroup + 1
    /\ worker' = [worker EXCEPT ![r] = "exchange"]
    /\ inserted' = [inserted EXCEPT ![r] = IF call.unique THEN 0 ELSE call.factor]
    /\ main' = "poll"
    /\ UNCHANGED <<call, resultChannel, reply, waiter, reaper, result>>

(* A resolver at 127.0.0.1 is counted, then left out: the loop continues   *)
(* without polling the channel.                                            *)
SkipSelf ==
    LET r == launched + 1 IN
    /\ main = "loop"
    /\ MoreResolvers
    /\ r \in call.self
    /\ launched' = r
    /\ waitGroup' = waitGroup + 1
    /\ worker' = [worker EXCEPT ![r] = "skipped"]
    /\ UNCHANGED <<call, main, resultChannel, reply, inserted, waiter, reaper, result>>

(* Every return runs the deferred function that starts the reaper.         *)
ReturnAnswer ==
    /\ resultChannel # NoMessage
    /\ result' = resultChannel
    /\ resultChannel' = NoMessage
    /\ main' = "answered"
    /\ reaper' = "waiting"

PollAnswer ==
    /\ main = "poll"
    /\ ReturnAnswer
    /\ UNCHANGED <<call, launched, waitGroup, worker, reply, inserted, waiter>>

PollEmpty ==
    /\ main = "poll"
    /\ resultChannel = NoMessage
    /\ main' = "loop"
    /\ UNCHANGED <<call, launched, waitGroup, resultChannel, worker, reply,
                   inserted, waiter, reaper, result>>

(* After the loop: with Racing a waiter is started and main selects on it  *)
(* and on the channel; without, main itself waits for every worker.        *)
EndLoop ==
    /\ main = "loop"
    /\ ~MoreResolvers
    /\ main' = IF call.racing THEN "select" ELSE "wait"
    /\ waiter' = IF call.racing THEN "waiting" ELSE waiter
    /\ UNCHANGED <<call, launched, waitGroup, resultChannel, worker, reply,
                   inserted, reaper, result>>

(* Mutant of the next definition: the answer is taken only after           *)
(* waitGroup.Wait.                                                         *)
SelectWaitsForAll ==
    /\ main = "select"
    /\ waiter = "finished"
    /\ ReturnAnswer
    /\ UNCHANGED <<call, launched, waitGroup, worker, reply, inserted, waiter>>

(* The select takes an answer as soon as there is one.                     *)
SelectAnswer ==
    /\ main = "select"
    /\ ReturnAnswer
    /\ UNCHANGED <<call, launched, waitGroup, worker, reply, inserted, waiter>>

(* Mutant of the next definition: the loop goes on instead of ending.      *)
LoopsAgain ==
    /\ main = "select"
    /\ waiter = "finished"
    /\ main' = "loop"
    /\ UNCHANGED <<call, launched, waitGroup, resultChannel, worker, reply,
                   inserted, waiter, reaper, result>>

(* lookupFinished ends the loop.                                           *)
SelectFinished ==
    /\ main = "select"
    /\ waiter = "finished"
    /\ main' = "collect"
    /\ UNCHANGED <<call, launched, waitGroup, resultChannel, worker, reply,
                   inserted, waiter, reaper, result>>

WaitAll ==
    /\ main = "wait"
    /\ AllDone
    /\ main' = "collect"
    /\ UNCHANGED <<call, launched, waitGroup, resultChannel, worker, reply,
                   inserted, waiter, reaper, result>>

CollectAnswer ==
    /\ main = "collect"
    /\ ReturnAnswer
    /\ UNCHANGED <<call, launched, waitGroup, worker, reply, inserted, waiter>>

(* Nothing on the channel: ResolvError.                                    *)
CollectNothing ==
    /\ main = "collect"
    /\ resultChannel = NoMessage
    /\ main' = "failed"
    /\ reaper' = "waiting"
    /\ UNCHANGED <<call, launched, waitGroup, resultChannel, worker, reply,
                   inserted, waiter, result>>

Main ==
    \/ Launch \/ SkipSelf \/ PollAnswer \/ PollEmpty \/ EndLoop
    \/ SelectAnswer \/ SelectFinished \/ WaitAll
    \/ CollectAnswer \/ CollectNothing

-----------------------------------------------------------------------------
(* The lookup goroutines.                                                  *)

(* The exchange returns: the client's timeouts see to it.                  *)
Exchange(r) ==
    /\ worker[r] = "exchange"
    /\ \E outcome \in Replies \ {"none"} :
          /\ reply' = [reply EXCEPT ![r] = outcome]
          /\ worker' = [worker EXCEPT ![r] = AfterExchange(outcome)]
    /\ UNCHANGED <<call, main, launched, waitGroup, resultChannel, inserted,
                   waiter, reaper, result>>

(* Mutant of the next definition: the newest message replaces the one in   *)
(* the buffer.                                                             *)
SendOverwrites(r) ==
    /\ worker[r] = "send"
    /\ worker' = [worker EXCEPT ![r] = "finish"]
    /\ resultChannel' = r
    /\ UNCHANGED <<call, main, launched, waitGroup, reply, inserted, waiter,
                   reaper, result>>

(* select with default: the message is dropped when the buffer is full. A  *)
(* send on a closed channel would panic.                                   *)
Send(r) ==
    /\ worker[r] = "send"
    /\ worker' = [worker EXCEPT ![r] = IF reaper = "closed" THEN "panicked" ELSE "finish"]
    /\ resultChannel' = IF resultChannel = NoMessage /\ reaper # "closed"
                          THEN r ELSE resultChannel
    /\ UNCHANGED <<call, main, launched, waitGroup, reply, inserted, waiter,
                   reaper, result>>

(* The deferred waitGroup.Done().                                          *)
Finish(r) ==
    /\ worker[r] = "finish"
    /\ worker' = [worker EXCEPT ![r] = "done"]
    /\ waitGroup' = waitGroup - 1
    /\ UNCHANGED <<call, main, launched, resultChannel, reply, inserted, waiter,
                   reaper, result>>

Worker(r) == Exchange(r) \/ Send(r) \/ Finish(r)

(* Mutant of the next definition: a cover query calls Done as an ordinary  *)
(* one does.                                                               *)
InsertedCallsDone(r) ==
    /\ inserted[r] > 0
    /\ inserted' = [inserted EXCEPT ![r] = @ - 1]
    /\ waitGroup' = waitGroup - 1
    /\ UNCHANGED <<call, main, launched, resultChannel, worker, reply, waiter,
                   reaper, result>>

(* A cover query ends: it neither sends nor calls Done.                    *)
InsertedReturns(r) ==
    /\ inserted[r] > 0
    /\ inserted' = [inserted EXCEPT ![r] = @ - 1]
    /\ UNCHANGED <<call, main, launched, waitGroup, resultChannel, worker, reply,
                   waiter, reaper, result>>

(* waitGroup.Wait() returns in the waiter, which fills lookupFinished.     *)
WaiterSignals ==
    /\ waiter = "waiting"
    /\ AllDone
    /\ waiter' = "finished"
    /\ UNCHANGED <<call, main, launched, waitGroup, resultChannel, worker, reply,
                   inserted, reaper, result>>

ReaperCloses ==
    /\ reaper = "waiting"
    /\ AllDone
    /\ reaper' = "closed"
    /\ UNCHANGED <<call, main, launched, waitGroup, resultChannel, worker, reply,
                   inserted, waiter, result>>

(* Nothing of the call is left: the one state in which it may stop.        *)
Over ==
    /\ Returned
    /\ reaper = "closed"
    /\ waiter # "waiting"
    /\ \A r \in Racers : worker[r] \in {"idle", "done"} /\ inserted[r] = 0
    /\ UNCHANGED vars

Next ==
    \/ Main
    \/ \E r \in Racers : Worker(r) \/ InsertedReturns(r)
    \/ WaiterSignals
    \/ ReaperCloses
    \/ Over

Safe == Init /\ [][Next]_vars

(* Goroutines that can run do run, and every exchange ends: dns.Client has *)
(* dial, read and write timeouts.                                          *)
Spec ==
    /\ Safe
    /\ WF_vars(Main)
    /\ WF_vars(WaiterSignals)
    /\ WF_vars(ReaperCloses)
    /\ \A r \in Racers : WF_vars(Worker(r)) /\ WF_vars(InsertedReturns(r))

(* The scheduler alone: an exchange may hang for ever.                     *)
SlowNetworkSpec ==
    /\ Safe
    /\ WF_vars(Main)
    /\ WF_vars(WaiterSignals)
    /\ \A r \in Racers : WF_vars(Send(r) \/ Finish(r))

-----------------------------------------------------------------------------
(* Properties.                                                             *)

(* The counter is exactly the number of lookups that were added and have   *)
(* not called Done; it never goes negative and cover queries never touch   *)
(* it (waitGroup.Add and Done in the loop and the three routines).         *)
CountedWorkers == {r \in Racers : worker[r] \in Counted}
WaitGroupExact == waitGroup = Cardinality(CountedWorkers)

(* resultChannel is closed by the reaper, asynchronously and after the     *)
(* call has returned; no worker that lost the race may find it closed when *)
(* it comes to its send.                                                   *)
NoSendOnClosedChannel ==
    /\ reaper = "closed" => \A r \in Racers : worker[r] \notin {"exchange", "send"}
    /\ \A r \in Racers : worker[r] # "panicked"

(* "It returns an error if no request has succeeded": ResolvError means    *)
(* that every resolver of the list was asked and none of them gave a reply *)
(* its routine forwards, not that an answer was late or dropped.           *)
ErrorMeansNoAnswer ==
    main = "failed" =>
        \A r \in 1 .. call.resolvers :
            worker[r] = "done" /\ reply[r] \notin Forwarded

(* What keeps LookupReturns and NothingLeaks from failing, for any number  *)
(* of resolvers, in two halves.  A call in which no goroutine can take a   *)
(* step has come to its end, with the channel closed, unless one of those  *)
(* it has launched is this host or an oDoH exchange that failed: these     *)
(* never call Done, and each of them keeps the reaper (or the call itself) *)
(* waiting for ever.                                                       *)
CanGoOn ==
    \/ main \in {"loop", "poll", "collect"}
    \/ main = "select" /\ (resultChannel # NoMessage \/ waiter = "finished")
    \/ AllDone /\ (main = "wait" \/ waiter = "waiting" \/ reaper = "waiting")
    \/ \E r \in Racers : worker[r] \in {"exchange", "send", "finish"} \/ inserted[r] > 0
NeverDone ==
    {r \in 1 .. launched : r \in call.self \/ (call.unique /\ reply[r] = "error")}
OnlyTheNeverDoneBlock ==
    ~CanGoOn => (Returned /\ reaper = "closed" <=> NeverDone = {})

(* And no goroutine goes in circles: every step of the call brings one of  *)
(* them nearer to its end and takes none back, so that there are only so   *)
(* many steps, whoever is scheduled; and the answer in the channel, which  *)
(* holds one, is never overwritten: it leaves only as the call's result.   *)
MainStage ==
    CASE main = "loop" -> 2 * launched
      [] main = "poll" -> 2 * launched - 1
      [] main \in {"select", "wait"} -> 2 * MaxResolvers + 1
      [] main = "collect" -> 2 * MaxResolvers + 2
      [] Returned -> 2 * MaxResolvers + 3
WorkerStage(r) ==
    CASE worker[r] = "idle" -> 0
      [] worker[r] = "exchange" -> 1
      [] worker[r] = "send" -> 2
      [] worker[r] = "finish" -> 3
      [] worker[r] \in {"done", "lost", "skipped", "panicked"} -> 4
CoverLeft(r) == IF worker[r] = "idle" THEN InsertionFactor ELSE inserted[r]
WaiterStage ==
    CASE waiter = "off" -> 0 [] waiter = "waiting" -> 1 [] waiter = "finished" -> 2
ReaperStage ==
    CASE reaper = "off" -> 0 [] reaper = "waiting" -> 1 [] reaper = "closed" -> 2
NothingGoesBack ==
    /\ MainStage' >= MainStage
    /\ WaiterStage' >= WaiterStage
    /\ ReaperStage' >= ReaperStage
    /\ \A r \in Racers : WorkerStage(r)' >= WorkerStage(r) /\ CoverLeft(r)' <= CoverLeft(r)
SomethingAdvances ==
    \/ MainStage' > MainStage
    \/ WaiterStage' > WaiterStage
    \/ ReaperStage' > ReaperStage
    \/ \E r \in Racers : WorkerStage(r)' > WorkerStage(r) \/ CoverLeft(r)' < CoverLeft(r)
AnswerKept ==
    resultChannel # NoMessage =>
        \/ resultChannel' = resultChannel
        \/ resultChannel' = NoMessage /\ result' = resultChannel
EveryStepAdvances == [][NothingGoesBack /\ SomethingAdvances /\ AnswerKept]_vars

(* Every call returns.                                                     *)
LookupReturns == <>Returned

(* Every channel is closed in the end: no reaper, waiter or worker stays   *)
(* behind.                                                                 *)
NothingLeaks == <>[](reaper = "closed" /\ waiter # "waiting"
                     /\ \A r \in Racers : worker[r] \in {"idle", "done"})

(* "Will return as early as possible (have an answer)": with Racing, one   *)
(* answer in the channel is enough even if other exchanges never end.      *)
EarlyReturn == (call.racing /\ resultChannel # NoMessage) ~> Returned

(* The call implements the promise of its comment: a worker past its send  *)
(* has answered, one that went to Done without a send has refused, one     *)
(* that never calls Done stays silent.                                     *)
Answered(r) == worker[r] \in {"finish", "done", "panicked"} /\ reply[r] \in Forwarded
Refused(r) == worker[r] \in {"finish", "done"} /\ reply[r] \notin Forwarded

Contract == INSTANCE RaceContract WITH
    Candidates <- Racers,
    required <- 1 .. call.resolvers,
    answered <- {r \in Racers : Answered(r)},
    refused <- {r \in Racers : Refused(r)},
    status <- IF Returned THEN main ELSE "pending",
    winner <- IF result = NoMessage THEN {} ELSE {result}

ImplementsContract == Contract!Spec
=============================================================================
