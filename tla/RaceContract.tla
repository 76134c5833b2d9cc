---------------------------- MODULE RaceContract ----------------------------
(***************************************************************************)
(* What a lookup over several resolvers promises its caller, with no       *)
(* goroutines, channels or counters:                                       *)
(* "Will return as early as possible (have an answer).                     *)
(*  It returns an error if no request has succeeded."  (resolver.go)       *)
(* A lookup asks resolvers; each one answers, refuses or stays silent; the *)
(* lookup returns one of the answers, or fails when all have refused.      *)
(***************************************************************************)
EXTENDS Naturals

CONSTANT Candidates   \* every resolver a lookup may be given

VARIABLES
    required,   \* the resolvers of this lookup
    answered,   \* those that gave an answer
    refused,    \* those that gave none and will not
    status,     \* "pending", "answered" or "failed"
    winner      \* the resolver whose answer was returned, as a set

contractVars == <<required, answered, refused, status, winner>>

Init ==
    /\ required \in SUBSET Candidates
    /\ answered = {}
    /\ refused = {}
    /\ status = "pending"
    /\ winner = {}

Answer(r) ==
    /\ r \in required \ (answered \cup refused)
    /\ answered' = answered \cup {r}
    /\ UNCHANGED <<required, refused, status, winner>>

Refuse(r) ==
    /\ r \in required \ (answered \cup refused)
    /\ refused' = refused \cup {r}
    /\ UNCHANGED <<required, answered, status, winner>>

Return(r) ==
    /\ status = "pending"
    /\ r \in answered
    /\ status' = "answered"
    /\ winner' = {r}
    /\ UNCHANGED <<required, answered, refused>>

Fail ==
    /\ status = "pending"
    /\ refused = required
    /\ status' = "failed"
    /\ UNCHANGED <<required, answered, refused, winner>>

Next ==
    \/ \E r \in Candidates : Answer(r) \/ Refuse(r) \/ Return(r)
    \/ Fail

Spec == Init /\ [][Next]_contractVars
=============================================================================
