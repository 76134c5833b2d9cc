------------------------- MODULE ResolverPoolProofs -------------------------
(***************************************************************************)
(* Type correctness of ResolverPool and MappingSettles, for any number of  *)
(* goroutines, domains and resolvers.  The types need three facts beside   *)
(* themselves: a swap that is under way has a position above 1 and has     *)
(* loaded what it is going to store (SwapBounded), a list that is drawn,   *)
(* extended or collected has room for what is added to it (PickBounded),   *)
(* and a name that goes into the array was found there (NameFound).        *)
(***************************************************************************)
EXTENDS ResolverPool, TLAPS

SwapBounded(t) ==
    /\ pc[t] \in {"loadI", "storeI", "storeJ"} => swap[t].i > 1 /\ swap[t].atJ \in Resolvers
    /\ pc[t] \in {"storeI", "storeJ"} => swap[t].atI \in Resolvers

PickBounded(t) ==
    /\ pc[t] \in {"shuffle", "loadI", "storeI", "storeJ", "draw", "extend"} =>
          Len(pick[t]) \in {0, 1}
    /\ mode = "race" /\ pc[t] \in {"shuffle", "loadI", "storeI", "storeJ", "choose",
                                   "search", "append"} => pick[t] = <<>>
    /\ pc[t] = "collect" => pick[t] = <<>> \/ (Len(pick[t]) = 1 /\ name[t] # "none")

NameFound(t) ==
    /\ pc[t] \notin {"search", "append", "collect", "seek", "doh"} => name[t] = "none"
    /\ pc[t] = "append" => name[t] \in Resolvers
    /\ pc[t] = "collect" => name[t] \in Resolvers \cup {"none"}

(* Some states belong to some modes.                                       *)
ModeFits(t) ==
    /\ pc[t] \in {"search", "append", "collect"} => mode = "race"
    /\ pc[t] \in {"draw", "extend", "map"} => Private

LocalInv(t) == SwapBounded(t) /\ PickBounded(t) /\ NameFound(t) /\ ModeFits(t)

IInv == TypeOK /\ \A t \in Threads : LocalInv(t)

-----------------------------------------------------------------------------
(* What a step of one goroutine leaves alone.                              *)

Step(t) == Lookup(t) \/ \E s \in Threads : Launch(t, s)

LEMMA NextSteps ==
  ASSUME Next
  PROVE  \E t \in Threads : Step(t)
BY DEF Next, Step

LEMMA StepLeaves ==
  ASSUME TypeOK, NEW t \in Threads, Step(t)
  PROVE  /\ UNCHANGED <<mode, best>>
         /\ \A s \in Threads \ {t} :
               /\ pc'[s] = pc[s] /\ domain'[s] = domain[s] /\ swap'[s] = swap[s]
               /\ at'[s] = at[s] /\ name'[s] = name[s] /\ pick'[s] = pick[s]
<1> USE DEF TypeOK, Goto, SetPick, SetName, SetAt, flags
<1>1. CASE \E d \in Domains : BeginOpen(t, d) \/ BeginPrivate(t, d)
  BY <1>1 DEF BeginOpen, BeginPrivate
<1>2. CASE LoadAtJ(t) \/ LoadAtI(t) \/ StoreAtI(t) \/ StoreAtJ(t) \/ ShuffleEnds(t)
  BY <1>2 DEF LoadAtJ, LoadAtI, StoreAtI, StoreAtJ, ShuffleEnds
<1>3. CASE DrawOne(t) \/ ChooseFirst(t) \/ WriteMapping(t)
  BY <1>3 DEF DrawOne, ChooseFirst, WriteMapping
<1>4. CASE DecideToRace(t) \/ DecideNotToRace(t) \/ AppendBest(t) \/ Collect(t)
  BY <1>4 DEF DecideToRace, DecideNotToRace, AppendBest, Collect
<1>5. CASE SearchBest(t) \/ Seek(t) \/ SeekDoH(t)
  BY <1>5 DEF SearchBest, Seek, SeekDoH, Scan
<1>6. CASE AskFor(t) \/ Return(t) \/ \E s \in Threads : Launch(t, s)
  BY <1>6 DEF AskFor, Return, Launch
<1> QED
  BY <1>1, <1>2, <1>3, <1>4, <1>5, <1>6 DEF Step, Lookup

(* What of LocalInv concerns the others is kept.                           *)
LEMMA OthersKeep ==
  ASSUME TypeOK, NEW t \in Threads, Step(t), NEW s \in Threads \ {t}, LocalInv(s)
  PROVE  LocalInv(s)'
<1>1. /\ mode' = mode /\ pc'[s] = pc[s] /\ swap'[s] = swap[s]
      /\ name'[s] = name[s] /\ pick'[s] = pick[s]
  BY StepLeaves
<1> QED
  BY <1>1 DEF LocalInv, SwapBounded, PickBounded, NameFound, ModeFits, Private

-----------------------------------------------------------------------------
(* The inductive invariant.                                                *)

LEMMA InitIInv == Init => IInv
<1> SUFFICES ASSUME Init PROVE IInv
  OBVIOUS
<1>1. Size \in Positions /\ 1 \in Positions
  BY SizeAssumption DEF Positions
<1>2. NoSwap(Size) \in Swaps
  BY <1>1 DEF NoSwap, Swaps
<1>3. <<>> \in NameLists /\ Len(<<>>) = 0
  BY DEF NameLists
<1>4. domain \in [Threads -> Domains]
  BY DEF Init
<1>5. TypeOK
  BY <1>1, <1>2, <1>3, <1>4 DEF Init, TypeOK
<1>6. \A t \in Threads : LocalInv(t)
  BY <1>3 DEF Init, LocalInv, SwapBounded, PickBounded, NameFound, ModeFits, Private
<1> QED
  BY <1>5, <1>6 DEF IInv

(* Lists of names.                                                         *)
LEMMA LengthTyped == \A list \in NameLists : Len(list) \in {0, 1, 2}
<1>1. \A n \in Nat : n <= 2 => n \in {0, 1, 2}
  OBVIOUS
<1>2. \A list \in NameLists : Len(list) \in Nat /\ Len(list) <= 2
  BY DEF NameLists
<1> QED
  BY <1>1, <1>2, Zenon

LEMMA AppendTyped ==
  ASSUME NEW list \in NameLists, Len(list) \in {0, 1}, NEW r \in Resolvers
  PROVE  /\ Append(list, r) \in NameLists
         /\ Len(Append(list, r)) = Len(list) + 1
         /\ Len(list) = 1 => Append(list, r)[1] = list[1]
<1>1. list \in Seq(Resolvers) /\ Append(list, r) \in Seq(Resolvers)
  BY DEF NameLists
<1>2. Len(Append(list, r)) = Len(list) + 1
  BY <1>1
<1>3. \A n : n \in {0, 1} => n + 1 <= 2
  OBVIOUS
<1>4. Len(list) + 1 <= 2
  BY <1>3, Zenon
<1>5. ASSUME NEW n, Len(list) = n, n = 1 PROVE Append(list, r)[1] = list[1]
  <2>1. 1 \in 1 .. Len(list)
    BY <1>5
  <2> QED
    BY <1>1, <2>1
<1> QED
  BY <1>1, <1>2, <1>4, <1>5 DEF NameLists

LEMMA EmptyTyped == <<>> \in NameLists /\ Len(<<>>) = 0
BY DEF NameLists

LEMMA OneTyped ==
  ASSUME NEW r \in Resolvers
  PROVE  <<r>> \in NameLists /\ Len(<<r>>) = 1 /\ <<r>>[1] = r
BY DEF NameLists

(* The step of one goroutine, for that goroutine and for the rest.         *)
LEMMA StepIInv ==
  ASSUME IInv, NEW t \in Threads, Step(t),
         contended' \subseteq Domains, collided' \in BOOLEAN, disturbed' \subseteq Threads
  PROVE  IInv'
<1> SUFFICES TypeOK' /\ LocalInv(t)'
  BY OthersKeep DEF IInv
<1>0. /\ TypeOK /\ SwapBounded(t) /\ PickBounded(t) /\ NameFound(t) /\ ModeFits(t)
      /\ Size \in Nat \ {0} /\ Size \in Positions /\ 1 \in Positions
      /\ \A k \in Positions : pool[k] \in Resolvers
      /\ at[t] \in Positions /\ pick[t] \in NameLists /\ swap[t] \in Swaps
      /\ name[t] \in AllNames \cup {"none"}
  BY SizeAssumption DEF IInv, LocalInv, TypeOK, Positions
<1> USE <1>0 DEF Goto, SetPick, SetName, SetAt, flags
<1>1. ASSUME NEW d \in Domains, BeginOpen(t, d) PROVE TypeOK' /\ LocalInv(t)'
  <2>1. NoSwap(Size) \in Swaps
    BY DEF NoSwap, Swaps
  <2>2. TypeOK'
    BY <1>1, <2>1, EmptyTyped DEF BeginOpen, TypeOK
  <2>3. /\ pc'[t] = "shuffle" /\ pick'[t] = <<>> /\ name'[t] = name[t] /\ pc[t] = "idle"
    BY <1>1 DEF BeginOpen, TypeOK
  <2> QED
    BY <2>2, <2>3, EmptyTyped DEF LocalInv, SwapBounded, PickBounded, NameFound, ModeFits, Private
<1>2. ASSUME NEW d \in Domains, BeginPrivate(t, d) PROVE TypeOK' /\ LocalInv(t)'
  <2> DEFINE list == IF Known(d) THEN mapping[d] ELSE <<>>
  <2>1. list \in NameLists
    BY EmptyTyped DEF Known, TypeOK
  <2>2. NoSwap(Size) \in Swaps
    BY DEF NoSwap, Swaps
  <2>3. MustExtend(d) \/ ~Known(d) => Len(list) \in {0, 1}
    <3>1. MustExtend(d) => list = mapping[d] /\ Len(mapping[d]) = 1
      BY DEF MustExtend
    <3>2. ~Known(d) => list = <<>>
      OBVIOUS
    <3> HIDE DEF list
    <3>3. MustExtend(d) => Len(list) = 1
      BY <3>1
    <3>4. ~Known(d) => Len(list) = 0
      BY <3>2, EmptyTyped
    <3> QED
      BY <3>3, <3>4
  <2> HIDE DEF list
  <2>4. TypeOK'
    BY <1>2, <2>1, <2>2 DEF BeginPrivate, TypeOK, list
  <2>5. /\ pc[t] = "idle" /\ pick'[t] = list /\ name'[t] = name[t] /\ mode' = mode /\ Private
        /\ pc'[t] = "ask" \/ (pc'[t] = "shuffle" /\ (MustExtend(d) \/ ~Known(d)))
    BY <1>2 DEF BeginPrivate, TypeOK, list
  <2> QED
    BY <2>3, <2>4, <2>5 DEF LocalInv, SwapBounded, PickBounded, NameFound, ModeFits, Private
<1>3. ASSUME LoadAtJ(t) PROVE TypeOK' /\ LocalInv(t)'
  <2>1. PICK j \in 1 .. swap[t].i :
          swap' = [swap EXCEPT ![t] = [i |-> swap[t].i, j |-> j,
                                       atI |-> "none", atJ |-> pool[j]]]
    BY <1>3 DEF LoadAtJ
  <2>2. swap[t].i \in Positions /\ j \in Positions
    BY <2>1 DEF Swaps, Positions
  <2>3. TypeOK'
    BY <1>3, <2>1, <2>2 DEF LoadAtJ, TypeOK, Swaps
  <2>4. /\ swap'[t].i = swap[t].i /\ swap[t].i > 1 /\ swap'[t].atJ = pool[j]
        /\ pc[t] = "shuffle" /\ pc'[t] = "loadI"
        /\ UNCHANGED <<mode, pick, name>>
    BY <1>3, <2>1, <2>2 DEF LoadAtJ, TypeOK, Positions
  <2> QED
    BY <2>2, <2>3, <2>4 DEF LocalInv, SwapBounded, PickBounded, NameFound, ModeFits, Private
<1>4. ASSUME LoadAtI(t) PROVE TypeOK' /\ LocalInv(t)'
  <2>1. swap[t].i \in Positions
    BY DEF Swaps
  <2>2. swap' = [swap EXCEPT ![t] = [swap[t] EXCEPT !.atI = pool[swap[t].i]]]
    BY <1>4 DEF LoadAtI
  <2>3. TypeOK'
    BY <1>4, <2>1, <2>2 DEF LoadAtI, TypeOK, Swaps
  <2>4. /\ swap'[t].i = swap[t].i /\ swap'[t].atJ = swap[t].atJ
        /\ swap'[t].atI = pool[swap[t].i]
        /\ pc[t] = "loadI" /\ pc'[t] = "storeI"
        /\ UNCHANGED <<mode, pick, name>>
    BY <1>4, <2>2 DEF LoadAtI, TypeOK, Swaps
  <2> QED
    BY <2>1, <2>3, <2>4 DEF LocalInv, SwapBounded, PickBounded, NameFound, ModeFits, Private
<1>5. ASSUME StoreAtI(t) PROVE TypeOK' /\ LocalInv(t)'
  <2>1. swap[t].i \in Positions /\ swap[t].atJ \in Resolvers
    BY <1>5 DEF Swaps, StoreAtI, SwapBounded
  <2>2. TypeOK'
    BY <1>5, <2>1 DEF StoreAtI, TypeOK
  <2>3. pc[t] = "storeI" /\ pc'[t] = "storeJ" /\ UNCHANGED <<mode, swap, pick, name>>
    BY <1>5 DEF StoreAtI, TypeOK
  <2> QED
    BY <2>2, <2>3 DEF LocalInv, SwapBounded, PickBounded, NameFound, ModeFits, Private
<1>6. ASSUME StoreAtJ(t) PROVE TypeOK' /\ LocalInv(t)'
  <2>1. swap[t].j \in Positions /\ swap[t].atI \in Resolvers /\ swap[t].i - 1 \in Positions
    BY <1>6 DEF Swaps, StoreAtJ, SwapBounded, Positions
  <2>2. NoSwap(swap[t].i - 1) \in Swaps
    BY <2>1 DEF NoSwap, Swaps
  <2>3. TypeOK'
    BY <1>6, <2>1, <2>2 DEF StoreAtJ, TypeOK
  <2>4. pc[t] = "storeJ" /\ pc'[t] = "shuffle" /\ UNCHANGED <<mode, pick, name>>
    BY <1>6 DEF StoreAtJ, TypeOK
  <2> QED
    BY <2>3, <2>4 DEF LocalInv, SwapBounded, PickBounded, NameFound, ModeFits, Private
<1>7. ASSUME ShuffleEnds(t) PROVE TypeOK' /\ LocalInv(t)'
  <2>1. TypeOK'
    BY <1>7 DEF ShuffleEnds, TypeOK
  <2>2. /\ pc[t] = "shuffle" /\ UNCHANGED <<mode, swap, pick, name>>
        /\ pc'[t] = "choose" \/ (pc'[t] \in {"draw", "extend"} /\ mode = "private")
    BY <1>7 DEF ShuffleEnds, TypeOK
  <2> QED
    BY <2>1, <2>2 DEF LocalInv, SwapBounded, PickBounded, NameFound, ModeFits, Private
<1>8. ASSUME DrawOne(t) PROVE TypeOK' /\ LocalInv(t)'
  <2> DEFINE r == pool[at[t]]
             drawn == IF r \in Excluded(t) THEN pick[t] ELSE Append(pick[t], r)
             over == Len(drawn) = 2 \/ at[t] = Size
  <2>1. pc[t] \in {"draw", "extend"} /\ Len(pick[t]) \in {0, 1} /\ r \in Resolvers
    BY <1>8 DEF DrawOne, PickBounded
  <2>2. drawn \in NameLists /\ Len(drawn) \in {0, 1, 2}
    <3>1. Append(pick[t], r) \in NameLists
      BY <2>1, AppendTyped
    <3> QED
      BY <3>1, LengthTyped
  <2>3. /\ pick' = [pick EXCEPT ![t] = drawn]
        /\ pc' = [pc EXCEPT ![t] = IF over THEN "map" ELSE pc[t]]
        /\ at' = [at EXCEPT ![t] = IF over THEN 1 ELSE at[t] + 1]
        /\ UNCHANGED <<flags, pool, mapping, domain, swap, name, used>>
    BY <1>8 DEF DrawOne
  <2> HIDE DEF drawn
  <2>4. ~over => at[t] + 1 \in Positions /\ Len(drawn) \in {0, 1}
    <3>1. at[t] # Size => at[t] + 1 \in Positions
      BY DEF Positions
    <3>2. Len(drawn) # 2 => Len(drawn) \in {0, 1}
      BY <2>2
    <3> QED
      BY <3>1, <3>2
  <2> HIDE DEF over
  <2>5. TypeOK'
    BY <2>1, <2>2, <2>3, <2>4 DEF TypeOK
  <2>6. /\ pick'[t] = drawn /\ UNCHANGED <<mode, swap, name>>
        /\ (over /\ pc'[t] = "map") \/ (~over /\ pc'[t] = pc[t])
    BY <2>3 DEF TypeOK
  <2> QED
    BY <2>1, <2>4, <2>5, <2>6 DEF LocalInv, SwapBounded, PickBounded, NameFound, ModeFits, Private
<1>9. ASSUME ChooseFirst(t) PROVE TypeOK' /\ LocalInv(t)'
  <2>1. TypeOK'
    BY <1>9, OneTyped DEF ChooseFirst, TypeOK
  <2>2. /\ pc[t] = "choose" /\ UNCHANGED <<mode, swap, name>>
        /\ pc'[t] = "ask" \/ (pc'[t] = "map" /\ mode = "privateProxy")
    BY <1>9 DEF ChooseFirst, TypeOK
  <2> QED
    BY <2>1, <2>2 DEF LocalInv, SwapBounded, PickBounded, NameFound, ModeFits, Private
<1>10. ASSUME WriteMapping(t) PROVE TypeOK' /\ LocalInv(t)'
  <2>1. TypeOK'
    BY <1>10 DEF WriteMapping, TypeOK
  <2>2. pc[t] = "map" /\ pc'[t] = "ask" /\ UNCHANGED <<mode, swap, pick, name>>
    BY <1>10 DEF WriteMapping, TypeOK
  <2> QED
    BY <2>1, <2>2 DEF LocalInv, SwapBounded, PickBounded, NameFound, ModeFits, Private
<1>11. ASSUME DecideToRace(t) PROVE TypeOK' /\ LocalInv(t)'
  <2>1. PICK b \in BestOfConfig : name' = [name EXCEPT ![t] = b]
    BY <1>11 DEF DecideToRace
  <2>2. TypeOK'
    BY <1>11, <2>1, ConfigAssumption DEF DecideToRace, TypeOK
  <2>3. /\ pc[t] = "choose" /\ pc'[t] = "search" /\ mode = "race"
        /\ UNCHANGED <<mode, swap, pick>>
    BY <1>11 DEF DecideToRace, TypeOK
  <2> QED
    BY <2>2, <2>3 DEF LocalInv, SwapBounded, PickBounded, NameFound, ModeFits, Private
<1>12. ASSUME DecideNotToRace(t) PROVE TypeOK' /\ LocalInv(t)'
  <2>1. TypeOK'
    BY <1>12 DEF DecideNotToRace, TypeOK
  <2>2. /\ pc[t] = "choose" /\ pc'[t] = "collect" /\ mode = "race"
        /\ UNCHANGED <<mode, swap, pick, name>>
    BY <1>12 DEF DecideNotToRace, TypeOK
  <2> QED
    BY <2>1, <2>2 DEF LocalInv, SwapBounded, PickBounded, NameFound, ModeFits, Private
<1>13. ASSUME NEW found \in {"append", "ask", "idle"}, NEW missing \in {"collect", "ask", "idle"},
              Scan(t, found, missing)
       PROVE  /\ at' \in [Threads -> Positions]
              /\ pc' = [pc EXCEPT ![t] = pc'[t]]
              /\ pc'[t] \in {found, missing, pc[t]}
              /\ pc'[t] = found /\ found \notin {missing, pc[t]} => name[t] = pool[at[t]]
  <2>1. at[t] # Size => at[t] + 1 \in Positions
    BY DEF Positions
  <2> QED
    BY <1>13, <2>1 DEF Scan, TypeOK
<1>14. ASSUME SearchBest(t) PROVE TypeOK' /\ LocalInv(t)'
  <2>1. /\ pc[t] = "search" /\ mode = "race" /\ pick[t] = <<>>
        /\ name' = [name EXCEPT ![t] = IF pc'[t] = "collect" THEN "none" ELSE name[t]]
        /\ UNCHANGED <<flags, pool, mapping, domain, swap, pick, used>>
    BY <1>14 DEF SearchBest, PickBounded, ModeFits
  <2>2. /\ at' \in [Threads -> Positions]
        /\ pc' = [pc EXCEPT ![t] = pc'[t]]
        /\ pc'[t] \in {"append", "collect", "search"}
        /\ pc'[t] = "append" => name[t] = pool[at[t]]
    BY <1>13, <1>14, <2>1 DEF SearchBest
  <2>3. TypeOK'
    BY <2>1, <2>2 DEF TypeOK
  <2>4. name'[t] = IF pc'[t] = "collect" THEN "none" ELSE name[t]
    BY <2>1 DEF TypeOK
  <2> QED
    BY <2>1, <2>2, <2>3, <2>4 DEF LocalInv, SwapBounded, PickBounded, NameFound, ModeFits, Private
<1>15. ASSUME AppendBest(t) PROVE TypeOK' /\ LocalInv(t)'
  <2>1. name[t] \in Resolvers /\ pc[t] = "append" /\ pc'[t] = "collect"
    BY <1>15 DEF AppendBest, NameFound, TypeOK
  <2>2. TypeOK'
    BY <1>15, <2>1 DEF AppendBest, TypeOK
  <2>3. mode = "race" /\ UNCHANGED <<mode, swap, pick, name>>
    BY <1>15, <2>1 DEF AppendBest, ModeFits, Private
  <2> QED
    BY <2>1, <2>2, <2>3 DEF LocalInv, SwapBounded, PickBounded, NameFound, ModeFits, Private
<1>16. ASSUME Collect(t) PROVE TypeOK' /\ LocalInv(t)'
  <2> DEFINE first == pick[t] = <<>>
             r == IF first THEN pool[1] ELSE IF Size > 1 THEN pool[2] ELSE name[t]
             over == ~first \/ name[t] = "none"
  <2>1. /\ pc[t] = "collect" /\ mode = "race" /\ name[t] \in Resolvers \cup {"none"}
        /\ first \/ (Len(pick[t]) = 1 /\ name[t] # "none")
    BY <1>16 DEF Collect, PickBounded, NameFound, ModeFits, Private
  <2>2. r \in Resolvers
    BY <2>1, SizeAssumption DEF Positions
  <2>3. /\ pick' = [pick EXCEPT ![t] = Append(pick[t], r)]
        /\ name' = [name EXCEPT ![t] = IF over THEN "none" ELSE name[t]]
        /\ pc' = [pc EXCEPT ![t] = IF over THEN "ask" ELSE "collect"]
        /\ UNCHANGED <<flags, pool, mapping, domain, swap, at, used>>
    BY <1>16 DEF Collect
  <2>4. Append(pick[t], r) \in NameLists /\ (first => Len(Append(pick[t], r)) = 1)
    <3>1. (first => Len(pick[t]) = 0) /\ (~first => Len(pick[t]) = 1)
      BY <2>1, EmptyTyped
    <3> HIDE DEF r
    <3>2. Append(pick[t], r) \in NameLists /\ Len(Append(pick[t], r)) = Len(pick[t]) + 1
      BY <2>2, <3>1, AppendTyped
    <3> QED
      BY <3>1, <3>2
  <2>5. TypeOK'
    BY <2>1, <2>3, <2>4 DEF TypeOK
  <2>6. /\ pick'[t] = Append(pick[t], r) /\ UNCHANGED <<mode, swap>>
        /\ \/ over /\ pc'[t] = "ask" /\ name'[t] = "none"
           \/ ~over /\ pc'[t] = "collect" /\ name'[t] = name[t]
    BY <2>3 DEF TypeOK
  <2> QED
    BY <2>1, <2>4, <2>5, <2>6 DEF LocalInv, SwapBounded, PickBounded, NameFound, ModeFits, Private
<1>17. ASSUME AskFor(t) \/ \E s \in Threads : Launch(t, s) PROVE TypeOK' /\ LocalInv(t)'
  <2>1. \A s \in Threads : Names(AskList(s)) \subseteq AllNames
    <3>1. \A s \in Threads : pick[s] \in Seq(AllNames) /\ best \in Seq(AllNames)
      BY BestAssumption DEF TypeOK, NameLists, AllNames
    <3>2. \A s \in Threads : AskList(s) \in Seq(AllNames)
      BY <3>1 DEF AskList
    <3> QED
      BY <3>2 DEF Names
  <2>2. PICK n \in AllNames : name' = [name EXCEPT ![t] = n]
    BY <1>17, <2>1 DEF AskFor, Launch
  <2>3. TypeOK'
    BY <1>17, <2>2 DEF AskFor, Launch, TypeOK
  <2>4. pc'[t] \in {"seek", "doh"} /\ UNCHANGED <<mode, swap, pick>>
    BY <1>17 DEF AskFor, Launch, TypeOK
  <2> QED
    BY <2>3, <2>4 DEF LocalInv, SwapBounded, PickBounded, NameFound, ModeFits, Private
<1>18. ASSUME Seek(t) \/ SeekDoH(t) PROVE TypeOK' /\ LocalInv(t)'
  <2>1. PICK rest \in {"ask", "idle"} :
          /\ Scan(t, rest, rest)
          /\ name' = [name EXCEPT ![t] = IF pc'[t] = rest THEN "none" ELSE name[t]]
          /\ pc[t] \in {"seek", "doh"}
          /\ UNCHANGED <<flags, pool, mapping, domain, swap, pick, used>>
    BY <1>18 DEF Seek, SeekDoH
  <2>2. /\ at' \in [Threads -> Positions]
        /\ pc' = [pc EXCEPT ![t] = pc'[t]]
        /\ pc'[t] \in {rest, pc[t]}
    BY <1>13, <2>1
  <2>3. TypeOK'
    BY <2>1, <2>2 DEF TypeOK
  <2>4. name'[t] = IF pc'[t] = rest THEN "none" ELSE name[t]
    BY <2>1 DEF TypeOK
  <2> QED
    BY <2>1, <2>2, <2>3, <2>4 DEF LocalInv, SwapBounded, PickBounded, NameFound, ModeFits, Private
<1>19. ASSUME Return(t) PROVE TypeOK' /\ LocalInv(t)'
  <2>1. used' \in [Domains -> SUBSET NameLists]
    BY <1>19 DEF Return, TypeOK
  <2>2. TypeOK'
    BY <1>19, <2>1, EmptyTyped DEF Return, TypeOK
  <2>3. pc[t] = "ask" /\ pc'[t] = "idle" /\ UNCHANGED <<mode, swap, name>>
    BY <1>19 DEF Return, TypeOK
  <2> QED
    BY <2>2, <2>3 DEF LocalInv, SwapBounded, PickBounded, NameFound, ModeFits, Private
<1> QED
  BY <1>1, <1>2, <1>3, <1>4, <1>5, <1>6, <1>7, <1>8, <1>9, <1>10, <1>11, <1>12, <1>14, <1>15,
     <1>16, <1>17, <1>18, <1>19 DEF Step, Lookup

LEMMA NextIInv == IInv /\ [Next]_vars => IInv'
<1> SUFFICES ASSUME IInv, [Next]_vars PROVE IInv'
  OBVIOUS
<1>1. CASE Next
  <2>1. contended' \subseteq Domains /\ collided' \in BOOLEAN /\ disturbed' \subseteq Threads
    BY <1>1 DEF Next, Remember, IInv, TypeOK
  <2> QED
    BY <1>1, <2>1, NextSteps, StepIInv
<1>2. CASE UNCHANGED vars
  <2>1. TypeOK'
    BY <1>2 DEF vars, flags, history, IInv, TypeOK
  <2>2. \A t \in Threads : LocalInv(t)'
    BY <1>2 DEF vars, flags, history, IInv, LocalInv, SwapBounded, PickBounded, NameFound,
       ModeFits, Private
  <2> QED
    BY <2>1, <2>2 DEF IInv
<1> QED
  BY <1>1, <1>2

LEMMA Invariance == Spec => []IInv
BY InitIInv, NextIInv, PTL DEF Spec

-----------------------------------------------------------------------------
(* Every variable keeps to its type; in particular nothing but a name of   *)
(* the pool ever gets into the array, the mapping or a list, however the   *)
(* unlocked loads and stores interleave.                                   *)
THEOREM TypeCorrect == Spec => []TypeOK
<1>1. IInv => TypeOK
  BY DEF IInv
<1> QED
  BY <1>1, Invariance, PTL

(* One step of one goroutine leaves a settled list alone.                  *)
LEMMA StepSettles ==
  ASSUME IInv, Next, NEW d \in Domains, Settled(d)
  PROVE  Settled(d)' /\ mapping'[d] = mapping[d]
<1>0. PICK t \in Threads : Step(t)
  BY NextSteps
<1>1. /\ TypeOK /\ Known(d) /\ Len(mapping[d]) = 2 /\ mode = "private" /\ Private
      /\ \A s \in Threads : Undecided(s) => domain[s] # d
      /\ \A s \in Threads \ {t} : pc'[s] = pc[s] /\ domain'[s] = domain[s]
      /\ mode' = mode
  BY <1>0, StepLeaves DEF IInv, Settled, Private
<1>2. SUFFICES mapping'[d] = mapping[d] /\ (Undecided(t)' => domain'[t] # d)
  BY <1>1 DEF Settled, Undecided, Known
<1>3. CASE \E e \in Domains : BeginOpen(t, e) \/ BeginPrivate(t, e)
  <2>1. PICK e \in Domains : BeginPrivate(t, e)
    BY <1>1, <1>3 DEF BeginOpen
  <2>2. domain'[t] = e /\ mapping' = mapping
    BY <1>1, <2>1 DEF BeginPrivate, TypeOK
  <2>3. e = d => pc'[t] = "ask"
    BY SMTT(30), <1>1, <2>1 DEF BeginPrivate, Goto, MustExtend, TypeOK
  <2> QED
    BY <2>2, <2>3 DEF Undecided
<1>4. CASE LoadAtJ(t) \/ LoadAtI(t) \/ StoreAtI(t) \/ StoreAtJ(t) \/ ShuffleEnds(t) \/ DrawOne(t)
  <2>1. Undecided(t) /\ UNCHANGED <<mapping, domain>>
    BY <1>4 DEF LoadAtJ, LoadAtI, StoreAtI, StoreAtJ, ShuffleEnds, DrawOne, Undecided
  <2> QED
    BY <1>1, <2>1
<1>5. CASE WriteMapping(t)
  <2>1. domain[t] # d
    BY <1>1, <1>5 DEF WriteMapping, Undecided
  <2> QED
    BY <1>1, <1>5, <2>1 DEF WriteMapping, TypeOK
<1>6. CASE ChooseFirst(t) \/ DecideToRace(t) \/ DecideNotToRace(t) \/ SearchBest(t)
           \/ AppendBest(t) \/ Collect(t)
  BY <1>1, <1>6 DEF ChooseFirst, DecideToRace, DecideNotToRace, SearchBest, AppendBest,
     Collect, IInv, LocalInv, ModeFits, Private
<1>7. CASE AskFor(t) \/ Return(t) \/ \E s \in Threads : Launch(t, s)
  <2>1. mapping' = mapping /\ pc'[t] \in {"seek", "idle", "doh"}
    BY <1>1, <1>7 DEF AskFor, Return, Launch, Goto, TypeOK
  <2> QED
    BY <2>1 DEF Undecided
<1>8. CASE Seek(t) \/ SeekDoH(t)
  <2>1. mapping' = mapping /\ pc'[t] \in {"seek", "doh", "ask", "idle"}
    BY <1>1, <1>8 DEF Seek, SeekDoH, Scan, Goto, TypeOK
  <2> QED
    BY <2>1 DEF Undecided
<1> QED
  BY <1>0, <1>3, <1>4, <1>5, <1>6, <1>7, <1>8 DEF Step, Lookup

(* A list of two, once no lookup of its domain is undecided, is final.     *)
THEOREM MappingIsFinal == Spec => MappingSettles
<1>1. IInv /\ [Next]_vars => [\A d \in Domains : SettledForGood(d)]_vars
  BY StepSettles DEF SettledForGood
<1> QED
  BY <1>1, Invariance, PTL DEF Spec, MappingSettles
=============================================================================
