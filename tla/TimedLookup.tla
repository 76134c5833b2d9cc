----------------------------- MODULE TimedLookup -----------------------------
(***************************************************************************)
(* What a lookup at one nameserver promises, with no goroutines, channels  *)
(* or timers: an answer that is there is returned, late or not; an error   *)
(* means that the server gave none, or that its time was up and nothing    *)
(* had come by then.                                                       *)
(***************************************************************************)

VARIABLES
    server,   \* "silent", "answered" or "refused"
    late,     \* is the time up?
    status    \* "pending", "answered" or "failed"

promiseVars == <<server, late, status>>

Init == server = "silent" /\ late = FALSE /\ status = "pending"

Answer ==
    /\ server = "silent"
    /\ server' = "answered"
    /\ UNCHANGED <<late, status>>

Refuse ==
    /\ server = "silent"
    /\ server' = "refused"
    /\ UNCHANGED <<late, status>>

TimeUp ==
    /\ status = "pending"
    /\ late' = TRUE
    /\ UNCHANGED <<server, status>>

Return ==
    /\ status = "pending"
    /\ server = "answered"
    /\ status' = "answered"
    /\ UNCHANGED <<server, late>>

Fail ==
    /\ status = "pending"
    /\ server = "refused" \/ (late /\ server = "silent")
    /\ status' = "failed"
    /\ UNCHANGED <<server, late>>

Next == Answer \/ Refuse \/ TimeUp \/ Return \/ Fail

Spec == Init /\ [][Next]_promiseVars
=============================================================================
