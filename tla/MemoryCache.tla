---------------------------- MODULE MemoryCache ----------------------------
(***************************************************************************)
(* cache.MemoryCache under concurrent Set, Get and Remove (cache.go).  The *)
(* RWMutex makes Full, Exists and the write of Set atomic one by one, not  *)
(* Set as a whole: other goroutines run between the check and the write.   *)
(*                                                                         *)
(* An entry is its expiry time; the message it carries plays no part here. *)
(***************************************************************************)
EXTENDS Integers, FiniteSets

CONSTANTS
    Clients,   \* the goroutines that use the cache
    Keys,      \* cache keys
    Limits,    \* what Maxcount may be configured to
    Expire,    \* the configured life of an entry
    MaxTime    \* bound on the clock

ASSUME SetsAssumption == IsFiniteSet(Clients) /\ IsFiniteSet(Keys) /\ Clients # {} /\ Keys # {}
ASSUME NumbersAssumption == Limits \subseteq Nat /\ Expire \in Nat /\ MaxTime \in Nat

VARIABLES
    Maxcount,  \* the configured limit, 0 for none; never changes
    Backend,   \* the expiry of each stored key, Absent for the others
    now,       \* the clock
    pc,        \* control state of each goroutine
    key,       \* the key it works on
    expire,    \* the expiry it has computed for its entry
    got,       \* what its last Get returned
    removed    \* has any entry ever been removed?

vars == <<Maxcount, Backend, now, pc, key, expire, got, removed>>

Absent == -1
Stamps == 0 .. MaxTime + Expire
Stored == {k \in Keys : Backend[k] # Absent}
Length == Cardinality(Stored)

TypeOK ==
    /\ Maxcount \in Limits
    /\ Backend \in [Keys -> Stamps \cup {Absent}]
    /\ now \in 0 .. MaxTime
    /\ pc \in [Clients -> {"idle", "full", "exists", "stamp", "write"}]
    /\ key \in [Clients -> Keys]
    /\ expire \in [Clients -> Stamps]
    /\ got \in [Clients -> Stamps \cup {Absent}]
    /\ removed \in BOOLEAN

Init ==
    /\ Maxcount \in Limits
    /\ Backend = [k \in Keys |-> Absent]
    /\ now = 0
    /\ pc = [c \in Clients |-> "idle"]
    /\ \E k \in Keys : key = [c \in Clients |-> k]
    /\ expire = [c \in Clients |-> 0]
    /\ got = [c \in Clients |-> Absent]
    /\ removed = FALSE

-----------------------------------------------------------------------------
Goto(c, label) == pc' = [pc EXCEPT ![c] = label]

(* Mutants of Full: the special case forgotten, and one entry more than    *)
(* the limit.                                                              *)
ZeroIsALimit == Length >= Maxcount
FullOneLate == Maxcount # 0 /\ Length > Maxcount

(* A Maxcount of zero means that the cache is never full.                  *)
Full == Maxcount # 0 /\ Length >= Maxcount

SetBegins(c) ==
    /\ pc[c] = "idle"
    /\ \E k \in Keys : key' = [key EXCEPT ![c] = k]
    /\ Goto(c, "full")
    /\ UNCHANGED <<Maxcount, Backend, now, expire, got, removed>>

(* c.Full() ...                                                            *)
CheckFull(c) ==
    /\ pc[c] = "full"
    /\ Goto(c, IF Full THEN "exists" ELSE "stamp")
    /\ UNCHANGED <<Maxcount, Backend, now, key, expire, got, removed>>

(* ... && !c.Exists(key): the write is refused with IsFull.                *)
Refuse(c) ==
    /\ pc[c] = "exists"
    /\ key[c] \notin Stored
    /\ Goto(c, "idle")
    /\ UNCHANGED <<Maxcount, Backend, now, key, expire, got, removed>>

Exists(c) ==
    /\ pc[c] = "exists"
    /\ key[c] \in Stored
    /\ Goto(c, "stamp")
    /\ UNCHANGED <<Maxcount, Backend, now, key, expire, got, removed>>

(* Mutant of the next definition: the life of the entry is added twice.    *)
AddsExpireTwice(c) ==
    /\ pc[c] = "stamp"
    /\ expire' = [expire EXCEPT ![c] = now + Expire + Expire]
    /\ Goto(c, "write")
    /\ UNCHANGED <<Maxcount, Backend, now, key, got, removed>>

(* time.Now().Add(c.Expire), outside the lock.                             *)
Stamp(c) ==
    /\ pc[c] = "stamp"
    /\ expire' = [expire EXCEPT ![c] = now + Expire]
    /\ Goto(c, "write")
    /\ UNCHANGED <<Maxcount, Backend, now, key, got, removed>>

(* The write, under the lock.                                              *)
Write(c) ==
    /\ pc[c] = "write"
    /\ Backend' = [Backend EXCEPT ![key[c]] = expire[c]]
    /\ Goto(c, "idle")
    /\ UNCHANGED <<Maxcount, now, key, expire, got, removed>>

Set(c) == SetBegins(c) \/ CheckFull(c) \/ Refuse(c) \/ Exists(c) \/ Stamp(c) \/ Write(c)

(* Get looks at nothing but the key.                                       *)
Get(c) ==
    /\ pc[c] = "idle"
    /\ \E k \in Keys : got' = [got EXCEPT ![c] = Backend[k]]
    /\ UNCHANGED <<Maxcount, Backend, now, pc, key, expire, removed>>

Remove(c) ==
    /\ pc[c] = "idle"
    /\ \E k \in Keys : Backend' = [Backend EXCEPT ![k] = Absent]
    /\ removed' = TRUE
    /\ UNCHANGED <<Maxcount, now, pc, key, expire, got>>

Tick ==
    /\ now < MaxTime
    /\ now' = now + 1
    /\ UNCHANGED <<Maxcount, Backend, pc, key, expire, got, removed>>

Next == Tick \/ \E c \in Clients : Set(c) \/ Get(c) \/ Remove(c)

Spec == Init /\ [][Next]_vars

-----------------------------------------------------------------------------
(* Properties.                                                             *)

(* The limit is not exact: every goroutine that passed the check before    *)
(* the others wrote still writes.  But the overshoot is bounded by the     *)
(* number of goroutines that may be inside Set at once, however often Set  *)
(* and Remove are called.                                                  *)
Overshoot == Cardinality(Clients) - 1
LimitKeptButForRaces == Maxcount # 0 => Length <= Maxcount + Overshoot

(* "Cache is Full" is said only of a cache that is full, and never when    *)
(* there is no limit: not-full was read before not-exists, and as long as  *)
(* nothing is removed (the program never calls Remove) it stays true.      *)
RefusalIsHonest ==
    [][\A c \in Clients :
          pc[c] = "exists" /\ pc'[c] = "idle" /\ ~removed => Maxcount # 0 /\ Length >= Maxcount]_vars
=============================================================================
