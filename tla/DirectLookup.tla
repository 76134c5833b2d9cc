---------------------------- MODULE DirectLookup ----------------------------
(***************************************************************************)
(* Resolver.LookupAtNameserver: one question to one nameserver, with a     *)
(* timeout.  Direct resolution makes several such calls in sequence, and   *)
(* what one call leaves running is still there during the next ones.       *)
(*                                                                         *)
(*   main    the calling goroutine, per call                               *)
(*   worker  routine_DoLookup, started by the call                         *)
(*   helper  the goroutine waitTimeout starts: it waits for the WaitGroup, *)
(*           sends on an unbuffered channel and closes it                  *)
(***************************************************************************)
EXTENDS Naturals

CONSTANT MaxCalls   \* bound on the calls one goroutine makes in sequence

ASSUME MaxCallsAssumption == MaxCalls \in Nat \ {0}

VARIABLES
    main,           \* control state of the caller in each call
    timedOut,       \* what waitTimeout returned
    resultChannel,  \* is a message in the channel of capacity 1?
    waitGroup,      \* the counter of the sync.WaitGroup
    worker,         \* control state of the lookup goroutine
    reply,          \* what its exchange ended with
    helper          \* control state of waitTimeout's goroutine

vars == <<main, timedOut, resultChannel, waitGroup, worker, reply, helper>>

Calls == 1 .. MaxCalls

MainStates == {"idle", "select", "wait", "collect", "answered", "failed", "self"}
WorkerStates == {"idle", "exchange", "send", "finish", "done"}
Replies == {"none", "success", "nxdomain", "servfail", "error"}
HelperStates == {"off", "waiting", "sending", "done"}

(* The replies a worker sends: every response but SERVFAIL.                *)
Forwarded == {"success", "nxdomain"}

Returned(c) == main[c] \in {"answered", "failed", "self"}

TypeOK ==
    /\ main \in [Calls -> MainStates]
    /\ timedOut \in [Calls -> BOOLEAN]
    /\ resultChannel \in [Calls -> BOOLEAN]
    /\ waitGroup \in [Calls -> {0, 1}]
    /\ worker \in [Calls -> WorkerStates]
    /\ reply \in [Calls -> Replies]
    /\ helper \in [Calls -> HelperStates]

Init ==
    /\ main = [c \in Calls |-> "idle"]
    /\ timedOut = [c \in Calls |-> FALSE]
    /\ resultChannel = [c \in Calls |-> FALSE]
    /\ waitGroup = [c \in Calls |-> 0]
    /\ worker = [c \in Calls |-> "idle"]
    /\ reply = [c \in Calls |-> "none"]
    /\ helper = [c \in Calls |-> "off"]

-----------------------------------------------------------------------------
(* The caller.                                                             *)

MayBegin(c) == main[c] = "idle" /\ (c = 1 \/ (c > 1 /\ Returned(c - 1)))

(* utils.IsNamehelp: a query to this host is an error before anything is   *)
(* started.                                                                *)
RefuseSelf(c) ==
    /\ MayBegin(c)
    /\ main' = [main EXCEPT ![c] = "self"]
    /\ UNCHANGED <<timedOut, resultChannel, waitGroup, worker, reply, helper>>

(* Add(1), start the worker, and select on its answer and the ticker.      *)
Begin(c) ==
    /\ MayBegin(c)
    /\ main' = [main EXCEPT ![c] = "select"]
    /\ waitGroup' = [waitGroup EXCEPT ![c] = 1]
    /\ worker' = [worker EXCEPT ![c] = "exchange"]
    /\ UNCHANGED <<timedOut, resultChannel, reply, helper>>

TakeAnswer(c) ==
    /\ resultChannel[c]
    /\ main' = [main EXCEPT ![c] = "answered"]
    /\ resultChannel' = [resultChannel EXCEPT ![c] = FALSE]
    /\ UNCHANGED <<timedOut, waitGroup, worker, reply, helper>>

EarlyAnswer(c) == main[c] = "select" /\ TakeAnswer(c)

(* Mutant of the next definition: the result of waitTimeout is not waited  *)
(* for.                                                                    *)
TickAndGoOn(c) ==
    /\ main[c] = "select"
    /\ main' = [main EXCEPT ![c] = "collect"]
    /\ helper' = [helper EXCEPT ![c] = "waiting"]
    /\ UNCHANGED <<timedOut, resultChannel, waitGroup, worker, reply>>

(* The ticker fires and waitTimeout starts its helper.  A select with both *)
(* an answer and a tick takes either.                                      *)
Tick(c) ==
    /\ main[c] = "select"
    /\ main' = [main EXCEPT ![c] = "wait"]
    /\ helper' = [helper EXCEPT ![c] = "waiting"]
    /\ UNCHANGED <<timedOut, resultChannel, waitGroup, worker, reply>>

(* The unbuffered channel: the helper's send and the caller's receive are  *)
(* one step, after which the helper closes the channel and ends.           *)
Signalled(c) ==
    /\ main[c] = "wait"
    /\ helper[c] = "sending"
    /\ main' = [main EXCEPT ![c] = "collect"]
    /\ helper' = [helper EXCEPT ![c] = "done"]
    /\ UNCHANGED <<timedOut, resultChannel, waitGroup, worker, reply>>

(* Mutant of the next definition: the timeout is looked at only once the   *)
(* worker is done.                                                         *)
TimeoutAfterWait(c) ==
    /\ main[c] = "wait"
    /\ waitGroup[c] = 0
    /\ main' = [main EXCEPT ![c] = "collect"]
    /\ timedOut' = [timedOut EXCEPT ![c] = TRUE]
    /\ UNCHANGED <<resultChannel, waitGroup, worker, reply, helper>>

(* time.After: nobody will receive from the helper any more.               *)
Timeout(c) ==
    /\ main[c] = "wait"
    /\ main' = [main EXCEPT ![c] = "collect"]
    /\ timedOut' = [timedOut EXCEPT ![c] = TRUE]
    /\ UNCHANGED <<resultChannel, waitGroup, worker, reply, helper>>

CollectAnswer(c) == main[c] = "collect" /\ TakeAnswer(c)

(* Mutant of the next definition: after a timeout the channel is not       *)
(* looked at.                                                              *)
TimeoutMeansError(c) ==
    /\ main[c] = "collect"
    /\ ~resultChannel[c] \/ timedOut[c]
    /\ main' = [main EXCEPT ![c] = "failed"]
    /\ UNCHANGED <<timedOut, resultChannel, waitGroup, worker, reply, helper>>

CollectNothing(c) ==
    /\ main[c] = "collect"
    /\ ~resultChannel[c]
    /\ main' = [main EXCEPT ![c] = "failed"]
    /\ UNCHANGED <<timedOut, resultChannel, waitGroup, worker, reply, helper>>

Main(c) ==
    \/ EarlyAnswer(c) \/ Tick(c) \/ Signalled(c) \/ Timeout(c)
    \/ CollectAnswer(c) \/ CollectNothing(c)

-----------------------------------------------------------------------------
(* The goroutines.                                                         *)

(* Mutant of the next definition: the error path calls Done itself, as     *)
(* well as deferring it.                                                   *)
ErrorCallsDoneToo(c) ==
    /\ worker[c] = "exchange"
    /\ worker' = [worker EXCEPT ![c] = "finish"]
    /\ reply' = [reply EXCEPT ![c] = "error"]
    /\ waitGroup' = [waitGroup EXCEPT ![c] = @ - 1]
    /\ UNCHANGED <<main, timedOut, resultChannel, helper>>

(* What is not forwarded goes straight to the deferred Done.               *)
Exchange(c) ==
    /\ worker[c] = "exchange"
    /\ \E outcome \in Replies \ {"none"} :
          /\ reply' = [reply EXCEPT ![c] = outcome]
          /\ worker' = [worker EXCEPT
                 ![c] = IF outcome \in Forwarded THEN "send" ELSE "finish"]
    /\ UNCHANGED <<main, timedOut, resultChannel, waitGroup, helper>>

(* Mutant of the next definition: Done is called before the send.          *)
DoneThenSend(c) ==
    /\ worker[c] = "send"
    /\ IF waitGroup[c] = 1
         THEN waitGroup' = [waitGroup EXCEPT ![c] = 0] /\ UNCHANGED <<worker, resultChannel>>
         ELSE /\ worker' = [worker EXCEPT ![c] = "done"]
              /\ resultChannel' = [resultChannel EXCEPT ![c] = TRUE]
              /\ UNCHANGED waitGroup
    /\ UNCHANGED <<main, timedOut, reply, helper>>

(* The only sender of its channel always finds room.                       *)
Send(c) ==
    /\ worker[c] = "send"
    /\ worker' = [worker EXCEPT ![c] = "finish"]
    /\ resultChannel' = [resultChannel EXCEPT ![c] = TRUE]
    /\ UNCHANGED <<main, timedOut, waitGroup, reply, helper>>

(* The deferred waitGroup.Done().                                          *)
Finish(c) ==
    /\ worker[c] = "finish"
    /\ worker' = [worker EXCEPT ![c] = "done"]
    /\ waitGroup' = [waitGroup EXCEPT ![c] = @ - 1]
    /\ UNCHANGED <<main, timedOut, resultChannel, reply, helper>>

(* waitGroup.Wait() returns in the helper, which goes on to its send.      *)
HelperWakes(c) ==
    /\ helper[c] = "waiting"
    /\ waitGroup[c] = 0
    /\ helper' = [helper EXCEPT ![c] = "sending"]
    /\ UNCHANGED <<main, timedOut, resultChannel, waitGroup, worker, reply>>

(* Every call has returned and every goroutine that can end has: a helper  *)
(* nobody receives from blocks for ever.                                   *)
Over ==
    /\ \A c \in Calls : /\ Returned(c)
                        /\ worker[c] \in {"idle", "done"}
                        /\ helper[c] # "waiting"
    /\ UNCHANGED vars

Next ==
    \/ \E c \in Calls : \/ RefuseSelf(c) \/ Begin(c) \/ Main(c)
                        \/ Exchange(c) \/ Send(c) \/ Finish(c)
                        \/ HelperWakes(c)
    \/ Over

Safe == Init /\ [][Next]_vars

(* Goroutines that can run do run and the timers fire; nothing is assumed  *)
(* of the exchange, which may hang for ever.                               *)
Spec ==
    /\ Safe
    /\ \A c \in Calls : /\ WF_vars(Main(c))
                        /\ WF_vars(Send(c) \/ Finish(c))
                        /\ WF_vars(HelperWakes(c))

-----------------------------------------------------------------------------
(* Properties.                                                             *)

(* "wait for the nameserver to finish or timeout": a ResolvError without a *)
(* timeout means that the server had nothing to forward and its goroutine  *)
(* has ended, never that the answer was still on its way to the channel.   *)
ErrorInTimeMeansNoAnswer ==
    \A c \in Calls : main[c] = "failed" /\ ~timedOut[c] =>
        worker[c] = "done" /\ reply[c] \notin Forwarded

(* The helper sends on an unbuffered channel that only waitTimeout         *)
(* receives from: it stays behind for ever, and the goroutine leaks, in    *)
(* calls that timed out and in no others.                                  *)
HelperLeaksOnlyAfterTimeout ==
    \A c \in Calls : helper[c] \in {"waiting", "sending"} =>
        main[c] = "wait" \/ timedOut[c]

(* Every call returns although its exchange, or that of an earlier call,   *)
(* may hang for ever: the timeout alone is enough.                         *)
ReturnsInTime == \A c \in Calls : main[c] = "select" ~> Returned(c)

(* Each call keeps the promise of TimedLookup.  What the server did counts *)
(* from the send into the channel; a call to this host never began.        *)
(* KeepsPromise is the conjunction of Promise(c)!Spec, as one formula.     *)
Server(c) ==
    IF reply[c] = "none" \/ worker[c] = "send" THEN "silent"
    ELSE IF reply[c] \in Forwarded THEN "answered" ELSE "refused"

Promise(c) == INSTANCE TimedLookup WITH
    server <- Server(c),
    late <- timedOut[c],
    status <- IF main[c] \in {"answered", "failed"} THEN main[c] ELSE "pending"

KeepsPromise ==
    /\ \A c \in Calls : Promise(c)!Init
    /\ [][\A c \in Calls : [Promise(c)!Next]_(Promise(c)!promiseVars)]_vars
=============================================================================
