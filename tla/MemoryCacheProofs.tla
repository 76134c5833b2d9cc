------------------------- MODULE MemoryCacheProofs -------------------------
(***************************************************************************)
(* The limit of MemoryCache, for any number of goroutines, keys and any    *)
(* configured limit.  A count of the goroutines between check and write is *)
(* not inductive: one that was let in because its key exists adds to the   *)
(* count of a cache that may be full already.  What no step of Set, Get or *)
(* Remove can push over the limit is the set of the keys that are stored   *)
(* together with those that are about to be (Room).                        *)
(***************************************************************************)
EXTENDS MemoryCache, FiniteSetTheorems, TLAPS

Writers == {c \in Clients : pc[c] \in {"stamp", "write"}}
Pending == {key[c] : c \in Writers}
Room == Maxcount # 0 => Cardinality(Stored \cup Pending) <= Maxcount + Overshoot

(* A goroutine that has seen the cache full is right until a removal.      *)
FullWasSeen ==
    ~removed => \A c \in Clients : pc[c] = "exists" => Maxcount # 0 /\ Length >= Maxcount

IInv == TypeOK /\ Room /\ FullWasSeen

-----------------------------------------------------------------------------
(* Sizes.                                                                  *)

LEMMA KeySetsAreFinite ==
  ASSUME NEW S \in SUBSET Keys
  PROVE  IsFiniteSet(S) /\ Cardinality(S) \in Nat
BY SetsAssumption, FS_Subset, FS_CardinalityType

LEMMA SmallerKeySet ==
  ASSUME NEW S \in SUBSET Keys, NEW T \in SUBSET S
  PROVE  Cardinality(T) <= Cardinality(S)
BY KeySetsAreFinite, FS_Subset

LEMMA OvershootIsNatural == Overshoot \in Nat /\ Overshoot + 1 = Cardinality(Clients)
<1>1. Cardinality(Clients) \in Nat /\ Cardinality(Clients) # 0
  BY SetsAssumption, FS_CardinalityType, FS_EmptySet
<1> QED
  BY <1>1 DEF Overshoot

LEMMA KeySetsTyped ==
  ASSUME TypeOK
  PROVE  Stored \in SUBSET Keys /\ Pending \in SUBSET Keys
BY DEF TypeOK, Stored, Pending, Writers

(* There are no more keys about to be written than there are goroutines.   *)
LEMMA FewPending ==
  ASSUME TypeOK
  PROVE  Cardinality(Pending) <= Overshoot + 1
<1>1. IsFiniteSet(Writers) /\ Cardinality(Writers) <= Cardinality(Clients)
  BY SetsAssumption, FS_Subset DEF Writers
<1>2. IsFiniteSet(Pending) /\ Cardinality(Pending) <= Cardinality(Writers)
  <2> DEFINE keyOf == [c \in Writers |-> key[c]]
  <2>1. keyOf \in Surjection(Writers, Pending)
    BY DEF Surjection, Pending
  <2> QED
    BY <1>1, <2>1, FS_Surjection
<1>3. Cardinality(Pending) \in Nat /\ Cardinality(Writers) \in Nat
      /\ Cardinality(Clients) \in Nat
  BY <1>1, <1>2, SetsAssumption, FS_CardinalityType
<1> QED
  BY <1>1, <1>2, <1>3, OvershootIsNatural

(* The bound is kept by a step that adds no key to the union ...           *)
LEMMA RoomKept ==
  ASSUME TypeOK, TypeOK', Room, Maxcount' = Maxcount,
         (Stored \cup Pending)' \subseteq Stored \cup Pending
  PROVE  Room'
<1> DEFINE S == Stored \cup Pending
<1>1. S \in SUBSET Keys /\ S' \in SUBSET S /\ S' \in SUBSET Keys
  BY KeySetsTyped
<1>2. Cardinality(S') <= Cardinality(S)
  BY <1>1, SmallerKeySet
<1>3. Cardinality(S) \in Nat /\ Cardinality(S') \in Nat
  BY <1>1, KeySetsAreFinite
<1>4. Maxcount \in Nat /\ Overshoot \in Nat
  BY OvershootIsNatural, NumbersAssumption DEF TypeOK
<1> HIDE DEF S
<1>5. Maxcount # 0 => Cardinality(S') <= Maxcount + Overshoot
  BY <1>2, <1>3, <1>4, Room DEF Room, S
<1> QED
  BY <1>5 DEF Room, S, Overshoot

(* ... and by any step that leaves fewer stored entries than the limit.    *)
LEMMA RoomWhenNotFull == TypeOK /\ (Maxcount # 0 => Length < Maxcount) => Room
<1> SUFFICES ASSUME TypeOK, Maxcount # 0 => Length < Maxcount PROVE Room
  OBVIOUS
<1>1. Stored \in SUBSET Keys /\ Pending \in SUBSET Keys
  BY KeySetsTyped
<1>2. /\ IsFiniteSet(Stored) /\ Cardinality(Stored) \in Nat
      /\ IsFiniteSet(Pending) /\ Cardinality(Pending) \in Nat
      /\ Cardinality(Stored \cup Pending) \in Nat
  BY <1>1, KeySetsAreFinite
<1>3. Cardinality(Stored \cup Pending) <= Cardinality(Stored) + Cardinality(Pending)
  <2>1. /\ Cardinality(Stored \cup Pending) =
             Cardinality(Stored) + Cardinality(Pending) - Cardinality(Stored \cap Pending)
        /\ Stored \cap Pending \in SUBSET Keys
    BY <1>1, <1>2, FS_Union
  <2>2. Cardinality(Stored \cap Pending) \in Nat
    BY <2>1, KeySetsAreFinite
  <2> QED
    BY <1>2, <2>1, <2>2
<1>4. Maxcount \in Nat /\ Overshoot \in Nat
  BY OvershootIsNatural, NumbersAssumption DEF TypeOK
<1> QED
  BY <1>2, <1>3, <1>4, FewPending DEF Room, Length

-----------------------------------------------------------------------------
(* The inductive invariant.                                                *)

LEMMA InitIInv == Init => IInv
<1> SUFFICES ASSUME Init PROVE IInv
  OBVIOUS
<1>1. TypeOK
  <2>1. 0 \in 0 .. MaxTime /\ 0 \in Stamps
    BY NumbersAssumption DEF Stamps
  <2>2. key \in [Clients -> Keys]
    BY DEF Init
  <2> QED
    BY <2>1, <2>2 DEF Init, TypeOK
<1>2. Stored = {} /\ Length = 0
  BY FS_EmptySet DEF Init, Stored, Length, Absent
<1>3. Maxcount # 0 => Length < Maxcount
  BY <1>1, <1>2, NumbersAssumption DEF TypeOK
<1>4. FullWasSeen
  BY DEF Init, FullWasSeen
<1> QED
  BY <1>1, <1>3, <1>4, RoomWhenNotFull DEF IInv

LEMMA TypeStep == TypeOK /\ [Next]_vars => TypeOK'
<1> SUFFICES ASSUME TypeOK, [Next]_vars PROVE TypeOK'
  OBVIOUS
<1> USE DEF TypeOK, Goto
<1>1. CASE Tick
  BY <1>1, NumbersAssumption DEF Tick
<1>2. ASSUME NEW c \in Clients, Set(c) PROVE TypeOK'
  <2>1. CASE SetBegins(c) \/ CheckFull(c) \/ Refuse(c) \/ Exists(c)
    BY <2>1 DEF SetBegins, CheckFull, Refuse, Exists
  <2>2. CASE Stamp(c)
    <3>1. now + Expire \in Stamps
      BY NumbersAssumption DEF Stamps
    <3> QED
      BY <2>2, <3>1 DEF Stamp
  <2>3. CASE Write(c)
    BY <2>3 DEF Write
  <2> QED
    BY <1>2, <2>1, <2>2, <2>3 DEF Set
<1>3. ASSUME NEW c \in Clients, Get(c) \/ Remove(c) PROVE TypeOK'
  BY <1>3 DEF Get, Remove
<1>4. CASE UNCHANGED vars
  BY <1>4 DEF vars, Stamps
<1> QED
  BY <1>1, <1>2, <1>3, <1>4 DEF Next

LEMMA RoomStep == TypeOK /\ TypeOK' /\ Room /\ [Next]_vars => Room'
<1> SUFFICES ASSUME TypeOK, TypeOK', Room, [Next]_vars PROVE Room'
  OBVIOUS
<1> DEFINE S == Stored \cup Pending
<1>1. Maxcount' = Maxcount
  BY DEF Next, Tick, Set, SetBegins, CheckFull, Refuse, Exists, Stamp, Write, Get, Remove, vars
<1>2. ASSUME NEW c \in Clients, CheckFull(c), ~Full PROVE Room'
  <2>1. Length' = Length
    BY <1>2 DEF CheckFull, Length, Stored
  <2>2. Maxcount # 0 => Length < Maxcount
    <3>1. Length \in Nat /\ Maxcount \in Nat
      BY KeySetsTyped, KeySetsAreFinite, NumbersAssumption DEF Length, TypeOK
    <3> QED
      BY <1>2, <3>1 DEF Full
  <2>3. (Maxcount # 0 => Length < Maxcount)'
    BY <1>1, <2>1, <2>2
  <2> QED
    BY <2>3, TypeOK', RoomWhenNotFull, PTL
<1>3. ASSUME NEW c \in Clients, CheckFull(c), Full PROVE S' \subseteq S
  BY <1>3 DEF CheckFull, Goto, Stored, Pending, Writers, TypeOK
<1>4. ASSUME NEW c \in Clients, SetBegins(c) \/ Refuse(c) PROVE S' \subseteq S
  BY <1>4 DEF SetBegins, Refuse, Goto, Stored, Pending, Writers, TypeOK
<1>5. ASSUME NEW c \in Clients, Exists(c) \/ Stamp(c) PROVE S' \subseteq S
  <2>1. Stored' = Stored /\ (key[c] \in Stored \/ c \in Writers)
    BY <1>5 DEF Exists, Stamp, Stored, Writers
  <2>2. \A d \in Writers' : d = c \/ d \in Writers
    BY <1>5 DEF Exists, Stamp, Goto, Writers, TypeOK
  <2>3. key' = key
    BY <1>5 DEF Exists, Stamp
  <2> QED
    BY <2>1, <2>2, <2>3 DEF Pending
<1>6. ASSUME NEW c \in Clients, Write(c) PROVE S' \subseteq S
  <2>1. c \in Writers /\ Writers' \subseteq Writers /\ key' = key
    BY <1>6 DEF Write, Goto, Writers, TypeOK
  <2>2. Stored' \subseteq Stored \cup {key[c]}
    BY <1>6 DEF Write, Stored, TypeOK
  <2> QED
    BY <2>1, <2>2 DEF Pending
<1>7. ASSUME NEW c \in Clients, Get(c) \/ Remove(c) PROVE S' \subseteq S
  BY <1>7 DEF Get, Remove, Stored, Pending, Writers, TypeOK
<1>8. CASE Tick \/ UNCHANGED vars
  <2>1. S' = S
    BY <1>8 DEF Tick, vars, Stored, Pending, Writers
  <2> QED
    BY <1>1, <2>1, RoomKept
<1> QED
  BY <1>1, <1>2, <1>3, <1>4, <1>5, <1>6, <1>7, <1>8, RoomKept DEF Next, Set

LEMMA FullWasSeenStep == TypeOK /\ FullWasSeen /\ [Next]_vars => FullWasSeen'
<1> SUFFICES ASSUME TypeOK, FullWasSeen, [Next]_vars, ~removed',
                    NEW c \in Clients, pc'[c] = "exists"
             PROVE  Maxcount' # 0 /\ Length' >= Maxcount'
  BY DEF FullWasSeen
<1>1. Maxcount' = Maxcount /\ ~removed
  BY DEF Next, Tick, Set, SetBegins, CheckFull, Refuse, Exists, Stamp, Write, Get, Remove, vars
<1>2. Stored \subseteq Stored' /\ Stored' \in SUBSET Keys
  <2>1. ASSUME NEW d \in Clients, Write(d) PROVE Stored \subseteq Stored'
    <3>1. expire[d] # Absent
      BY NumbersAssumption DEF TypeOK, Stamps, Absent
    <3> QED
      BY <2>1, <3>1 DEF Write, Stored, TypeOK
  <2>2. ASSUME ~\E d \in Clients : Write(d) PROVE Stored' = Stored
    BY <2>2, <1>1 DEF Next, Tick, Set, SetBegins, CheckFull, Refuse, Exists, Stamp, Get, Remove,
       vars, Stored
  <2> QED
    BY <2>1, <2>2 DEF Stored
<1>3. Length <= Length' /\ Length \in Nat /\ Length' \in Nat
  BY <1>2, SmallerKeySet, KeySetsAreFinite, KeySetsTyped DEF Length
<1>4. Maxcount # 0 /\ Length >= Maxcount
  <2>1. CASE pc[c] = "exists"
    BY <1>1, <2>1 DEF FullWasSeen
  <2>2. CASE pc[c] # "exists"
    <3>1. CheckFull(c) /\ Full
      BY <2>2 DEF Next, Tick, Set, SetBegins, CheckFull, Refuse, Exists, Stamp, Write, Get,
         Remove, vars, Goto, TypeOK
    <3> QED
      BY <3>1 DEF Full
  <2> QED
    BY <2>1, <2>2
<1>5. Maxcount \in Nat
  BY NumbersAssumption DEF TypeOK
<1> QED
  BY <1>1, <1>3, <1>4, <1>5

LEMMA Invariance == Spec => []IInv
<1>1. IInv /\ [Next]_vars => IInv'
  BY TypeStep, RoomStep, FullWasSeenStep DEF IInv
<1> QED
  BY <1>1, InitIInv, PTL DEF Spec

-----------------------------------------------------------------------------
(* Every variable keeps to its type: no entry without an expiry time.      *)
THEOREM TypeCorrect == Spec => []TypeOK
<1>1. IInv => TypeOK
  BY DEF IInv
<1> QED
  BY <1>1, Invariance, PTL

(* With N goroutines the cache never holds more than Maxcount + N - 1      *)
(* entries, although Set checks the limit and writes in separate steps.    *)
THEOREM LimitHolds == Spec => []LimitKeptButForRaces
<1>1. ASSUME IInv PROVE LimitKeptButForRaces
  <2>1. Stored \in SUBSET (Stored \cup Pending) /\ Stored \cup Pending \in SUBSET Keys
    BY <1>1, KeySetsTyped DEF IInv
  <2>2. Length <= Cardinality(Stored \cup Pending)
    BY <2>1, SmallerKeySet DEF Length
  <2>3. Length \in Nat /\ Cardinality(Stored \cup Pending) \in Nat
    BY <2>1, KeySetsAreFinite DEF Length
  <2>4. Maxcount \in Nat /\ Overshoot \in Nat
    BY <1>1, OvershootIsNatural, NumbersAssumption DEF IInv, TypeOK
  <2> QED
    BY <1>1, <2>2, <2>3, <2>4 DEF IInv, Room, LimitKeptButForRaces
<1> QED
  BY <1>1, Invariance, PTL

(* Until something is removed, IsFull is returned only by a full cache.    *)
THEOREM RefusesOnlyWhenFull == Spec => RefusalIsHonest
<1>1. ASSUME IInv, [Next]_vars
      PROVE  [\A c \in Clients : pc[c] = "exists" /\ pc'[c] = "idle" /\ ~removed =>
                 Maxcount # 0 /\ Length >= Maxcount]_vars
  BY <1>1 DEF IInv, FullWasSeen
<1> QED
  BY <1>1, Invariance, PTL DEF Spec, RefusalIsHonest
=============================================================================
