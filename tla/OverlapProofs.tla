---------------------------- MODULE OverlapProofs ----------------------------
(***************************************************************************)
(* What ResolverPool promises until two lookups get in each other's way,   *)
(* for any goroutines, resolvers, domains and modes.                       *)
(*                                                                         *)
(* Until a store comes into another's swap (Apart), a swap stores what is  *)
(* still in place (FreshSwap), so the shuffle permutes the array, but for  *)
(* the element it has in hand (Full).  A lookup beside which nobody stores *)
(* (Alone) reads an array that stands still: the names race mode has       *)
(* decided on are still there when it collects them (RaceInv), and a scan  *)
(* misses no name that it has passed (SoughtInv).  Until two lookups draw  *)
(* a list for a domain at the same time (OneDrawing), the list one of them *)
(* stores is the domain's first or goes on from the one stored before      *)
(* (MapInv), and so from all that its lookups were ever sent to (UsedInv), *)
(* however the array is shuffled.                                          *)
(***************************************************************************)
EXTENDS ResolverPoolProofs

Apart == ~collided => \A s, t \in Threads : s # t => ~(Storing(s) /\ MidSwap(t))

Alone(t) ==
    t \notin disturbed /\ pc[t] # "idle" => \A s \in Threads \ {t} : ~Storing(s)

Full == Names(pool) \cup InHand = Resolvers

FreshSwap(t) ==
    LET s == swap[t] IN
    /\ pc[t] = "loadI" => pool[s.j] = s.atJ
    /\ pc[t] = "storeI" => pool[s.j] = s.atJ /\ pool[s.i] = s.atI
    /\ pc[t] = "storeJ" => /\ pool[s.i] = s.atJ /\ pool[s.j] = s.atJ
                           /\ s.i = s.j => s.atI = s.atJ

ArrayInv == mode # "race" /\ ~collided => Full /\ \A t \in Threads : FreshSwap(t)

(* The second resolver of a race is a best one, the first a high-spread    *)
(* one, and both are in the array.                                         *)
Raced(list) == list[1] \in HighSpread /\ list[2] \in BestOfConfig
RaceInv(t) ==
    mode = "race" =>
        /\ pc[t] \in {"search", "append"} => pool[1] \in HighSpread /\ name[t] \in BestOfConfig
        /\ pc[t] = "append" => name[t] \in Names(pool)
        /\ pc[t] = "collect" /\ name[t] # "none" =>
              /\ pool[1] \in HighSpread /\ name[t] \in BestOfConfig
              /\ Size > 1 => pool[2] = name[t]
              /\ name[t] \in Names(pool)
        /\ pc[t] = "collect" /\ pick[t] # <<>> => pick[t][1] = pool[1]
        /\ pc[t] = "ask" => (Len(pick[t]) = 2 => Raced(pick[t]))
        /\ pc[t] = "seek" => (Len(pick[t]) = 2 => Raced(pick[t]))

(* Without privacy the names a lookup is going to ask are in the array,    *)
(* and a scan has not passed the name it looks for.                        *)
SoughtInv(t) ==
    /\ ~Private /\ pc[t] \in {"ask", "seek"} => Names(pick[t]) \subseteq Names(pool)
    /\ ~Private /\ pc[t] \in {"seek", "doh"} => name[t] \in Names(pool)
    /\ pc[t] \in {"search", "seek", "doh"} => \A k \in Positions : k < at[t] => pool[k] # name[t]

AtStart(t) == pc[t] \notin {"draw", "extend", "search", "seek", "doh"} => at[t] = 1

QuietInv(t) == Alone(t) /\ (t \notin disturbed => RaceInv(t) /\ SoughtInv(t)) /\ AtStart(t)

(* A list is what was stored before, or goes on from there.                *)
Extends(new, old) ==
    \/ new = old
    \/ Len(old) = 1 /\ Len(new) = 2 /\ new[1] = old[1]

MapInv(t) ==
    Private =>
        /\ pc[t] \in {"shuffle", "loadI", "storeI", "storeJ", "choose"} =>
              IF Known(domain[t])
                THEN mode = "private" /\ pick[t] = mapping[domain[t]] /\ Len(pick[t]) = 1
                ELSE pick[t] = <<>>
        /\ pc[t] = "draw" => ~Known(domain[t])
        /\ pc[t] = "extend" =>
              Known(domain[t]) /\ pick[t] = mapping[domain[t]] /\ Len(pick[t]) = 1
        /\ pc[t] = "map" => (Known(domain[t]) => Extends(pick[t], mapping[domain[t]]))
        /\ pc[t] \in {"ask", "seek"} =>
              Known(domain[t]) /\ Extends(mapping[domain[t]], pick[t])

UsedInv(d) == \A list \in used[d] : Known(d) /\ Extends(mapping[d], list)

OneDrawing(d) ==
    \A s, t \in Threads :
        Undecided(s) /\ Undecided(t) /\ domain[s] = d /\ domain[t] = d => s = t

DomainInv(d) ==
    /\ OneDrawing(d) /\ UsedInv(d)
    /\ \A t \in Threads : domain[t] = d => MapInv(t)

OverlapInv ==
    /\ Apart /\ ArrayInv
    /\ \A t \in Threads : QuietInv(t)
    /\ \A d \in Domains \ contended : DomainInv(d)

-----------------------------------------------------------------------------
(* What is remembered of a step.                                           *)

Heir(t, s) == Launch(t, s) /\ (s \in disturbed => t \in disturbed')
OneStep(t) == Lookup(t) \/ \E s \in Threads : Heir(t, s)

Remembered ==
    /\ contended \subseteq contended'
    /\ \A d \in Domains \ contended' : OneDrawing(d)'
    /\ (collided => collided') /\ Apart'
    /\ \A t \in Threads : Alone(t)'
    /\ \A t \in Threads : t \notin disturbed' => pc'[t] = "idle" \/ t \notin disturbed

LEMMA NextRemembers ==
  ASSUME IInv, Next
  PROVE  \E t \in Threads : OneStep(t) /\ Step(t) /\ Remembered
<1>1. ASSUME NEW before, disturbed \subseteq before, Remember(before)
      PROVE  Remembered
  <2>1. contended \subseteq contended' /\ \A d \in Domains \ contended' : OneDrawing(d)'
    BY <1>1 DEF Remember, OneDrawing
  <2>2. (collided => collided') /\ Apart'
    BY <1>1 DEF Remember, Apart
  <2>3. \A t \in Threads : Alone(t)'
    BY <1>1 DEF Remember, Alone
  <2>4. \A t \in Threads : t \notin disturbed' => pc'[t] = "idle" \/ t \notin disturbed
    BY <1>1 DEF Remember
  <2> QED
    BY <2>1, <2>2, <2>3, <2>4 DEF Remembered
<1>2. CASE \E t \in Threads : Lookup(t) /\ Remember(disturbed)
  BY <1>1, <1>2 DEF OneStep, Step
<1>3. ASSUME NEW s \in Threads, NEW t \in Threads, Launch(t, s),
             Remember(IF s \in disturbed THEN disturbed \cup {t} ELSE disturbed)
      PROVE  OneStep(t) /\ Step(t) /\ Remembered
  <2>1. Remembered
    BY <1>1, <1>3
  <2>2. pc'[t] # "idle"
    BY <1>3 DEF Launch, Goto, IInv, TypeOK
  <2>3. s \in disturbed => t \in disturbed'
    BY <1>3, <2>2 DEF Remember
  <2> QED
    BY <1>3, <2>1, <2>3 DEF OneStep, Step, Heir
<1> QED
  BY <1>2, <1>3 DEF Next

(* Who changes the array was about to store.                               *)
LEMMA PoolKept ==
  ASSUME NEW t \in Threads, Step(t), ~Storing(t)
  PROVE  pool' = pool
BY DEF Step, Lookup, Launch, Storing, BeginOpen, BeginPrivate, LoadAtJ, LoadAtI, StoreAtI,
   StoreAtJ, ShuffleEnds, DrawOne, ChooseFirst, WriteMapping, DecideToRace, DecideNotToRace,
   SearchBest, AppendBest, Collect, AskFor, Seek, SeekDoH, Return

-----------------------------------------------------------------------------
(* The array.                                                              *)

(* A store puts one name in the place of another.                          *)
LEMMA StoreChangesNames ==
  ASSUME NEW i \in Positions, NEW x, pool \in [Positions -> Resolvers],
         NEW new, new = [pool EXCEPT ![i] = x]
  PROVE  Names(new) \cup {pool[i]} = Names(pool) \cup {x}
<1>1. DOMAIN new = Positions /\ DOMAIN pool = Positions
  OBVIOUS
<1>2. \A k \in Positions : new[k] = IF k = i THEN x ELSE pool[k]
  OBVIOUS
<1>3. Names(new) = {new[k] : k \in Positions} /\ Names(pool) = {pool[k] : k \in Positions}
  BY <1>1 DEF Names
<1>4. ASSUME NEW y \in Names(new) PROVE y \in Names(pool) \cup {x}
  BY <1>2, <1>3
<1>5. ASSUME NEW y \in Names(pool), y # pool[i] PROVE y \in Names(new)
  <2>1. PICK k \in Positions : y = pool[k]
    BY <1>3
  <2>2. k # i /\ y = new[k]
    BY <1>2, <1>5, <2>1
  <2> QED
    BY <1>3, <2>2
<1>6. x \in Names(new) /\ pool[i] \in Names(pool)
  BY <1>2, <1>3
<1> QED
  BY <1>4, <1>5, <1>6

LEMMA ArrayStep ==
  ASSUME IInv, Apart, ArrayInv, NEW t \in Threads, Step(t), Remembered
  PROVE  ArrayInv'
<1> SUFFICES ASSUME mode' # "race", ~collided'
             PROVE  Full' /\ \A s \in Threads : FreshSwap(s)'
  BY DEF ArrayInv
<1>1. /\ TypeOK /\ mode # "race" /\ ~collided /\ Full /\ LocalInv(t)
      /\ \A s \in Threads : FreshSwap(s) /\ swap[s] \in Swaps
      /\ \A s \in Threads \ {t} : pc'[s] = pc[s] /\ swap'[s] = swap[s]
      /\ \A s \in Threads \ {t} : Storing(t) => ~MidSwap(s)
  BY StepLeaves DEF IInv, TypeOK, ArrayInv, Remembered, Apart
<1>2. ASSUME NEW s \in Threads \ {t} PROVE FreshSwap(s)'
  <2>1. CASE Storing(t)
    <3>1. ~MidSwap(s)
      BY <1>1, <2>1
    <3> QED
      BY <1>1, <3>1 DEF FreshSwap, MidSwap
  <2>2. CASE ~Storing(t)
    <3>1. pool' = pool
      BY <2>2, PoolKept
    <3> QED
      BY <1>1, <3>1 DEF FreshSwap
  <2> QED
    BY <2>1, <2>2
<1>3. /\ swap[t].i \in Positions /\ swap[t].j \in Positions
      /\ pool \in [Positions -> Resolvers]
  BY <1>1 DEF Swaps, TypeOK
<1>4. CASE StoreAtI(t)
  <2>1. /\ pool' = [pool EXCEPT ![swap[t].i] = swap[t].atJ] /\ swap' = swap
        /\ pc[t] = "storeI" /\ pc'[t] = "storeJ"
    BY <1>1, <1>4 DEF StoreAtI, Goto, TypeOK
  <2>2. pool[swap[t].j] = swap[t].atJ /\ pool[swap[t].i] = swap[t].atI
    BY <1>1, <2>1 DEF FreshSwap
  <2>3. \A s \in Threads \ {t} : pc[s] # "storeJ" /\ pc'[s] # "storeJ"
    BY <1>1, <2>1 DEF Storing, MidSwap
  <2>4. InHand = {} /\ InHand' = {swap[t].atI}
    BY <2>1, <2>3 DEF InHand
  <2>5. Names(pool') \cup {swap[t].atI} = Names(pool) \cup {swap[t].atJ}
    <3>1. Names(pool') \cup {pool[swap[t].i]} = Names(pool) \cup {swap[t].atJ}
      BY <1>3, <2>1, StoreChangesNames
    <3> QED
      BY <2>2, <3>1
  <2>6. swap[t].atJ \in Names(pool)
    BY <1>3, <2>2 DEF Names
  <2>7. Full'
    BY <1>1, <2>4, <2>5, <2>6 DEF Full
  <2>8. FreshSwap(t)'
    BY <1>3, <2>1, <2>2 DEF FreshSwap
  <2> QED
    BY <1>2, <2>7, <2>8
<1>5. CASE StoreAtJ(t)
  <2>1. /\ pool' = [pool EXCEPT ![swap[t].j] = swap[t].atI]
        /\ pc[t] = "storeJ" /\ pc'[t] = "shuffle"
    BY <1>1, <1>5 DEF StoreAtJ, Goto, TypeOK
  <2>2. /\ pool[swap[t].i] = swap[t].atJ /\ pool[swap[t].j] = swap[t].atJ
        /\ swap[t].i = swap[t].j => swap[t].atI = swap[t].atJ
    BY <1>1, <2>1 DEF FreshSwap
  <2>3. \A s \in Threads \ {t} : pc[s] # "storeJ" /\ pc'[s] # "storeJ"
    BY <1>1, <2>1 DEF Storing, MidSwap
  <2>4. InHand = {swap[t].atI} /\ InHand' = {}
    BY <2>1, <2>3 DEF InHand
  <2>5. Names(pool') \cup {swap[t].atJ} = Names(pool) \cup {swap[t].atI}
    <3>1. Names(pool') \cup {pool[swap[t].j]} = Names(pool) \cup {swap[t].atI}
      BY <1>3, <2>1, StoreChangesNames
    <3> QED
      BY <2>2, <3>1
  <2>6. swap[t].atJ \in Names(pool')
    <3>1. pool'[swap[t].i] = swap[t].atJ /\ swap[t].i \in DOMAIN pool'
      BY <1>3, <2>1, <2>2
    <3> QED
      BY <3>1 DEF Names
  <2>7. Full'
    BY <1>1, <2>4, <2>5, <2>6 DEF Full
  <2>8. FreshSwap(t)'
    BY <2>1 DEF FreshSwap
  <2> QED
    BY <1>2, <2>7, <2>8
<1>6. CASE AppendBest(t)
  BY <1>1, <1>6 DEF AppendBest, LocalInv, ModeFits
<1>7. CASE LoadAtJ(t)
  <2>1. PICK j \in 1 .. swap[t].i :
          swap' = [swap EXCEPT ![t] = [i |-> swap[t].i, j |-> j,
                                       atI |-> "none", atJ |-> pool[j]]]
    BY <1>7 DEF LoadAtJ
  <2>2. /\ pool' = pool /\ pc[t] = "shuffle" /\ pc'[t] = "loadI"
        /\ swap'[t].j = j /\ swap'[t].atJ = pool[j]
    BY <1>1, <1>7, <2>1 DEF LoadAtJ, Goto, TypeOK
  <2>3. InHand' = InHand
    BY <1>1, <2>2 DEF InHand
  <2> QED
    BY <1>1, <1>2, <2>2, <2>3 DEF Full, FreshSwap, Names
<1>8. CASE LoadAtI(t)
  <2>1. swap' = [swap EXCEPT ![t] = [swap[t] EXCEPT !.atI = pool[swap[t].i]]]
    BY <1>8 DEF LoadAtI
  <2>2. /\ pool' = pool /\ pc[t] = "loadI" /\ pc'[t] = "storeI"
        /\ swap'[t].i = swap[t].i /\ swap'[t].j = swap[t].j
        /\ swap'[t].atI = pool[swap[t].i] /\ swap'[t].atJ = swap[t].atJ
    BY <1>1, <1>8, <2>1 DEF LoadAtI, Goto, TypeOK, Swaps
  <2>3. InHand' = InHand
    BY <1>1, <2>2 DEF InHand
  <2> QED
    BY <1>1, <1>2, <2>2, <2>3 DEF Full, FreshSwap, Names
<1>9. CASE ~Storing(t) /\ ~MidSwap(t) /\ ~LoadAtJ(t)
  <2>1. pool' = pool
    BY <1>9, PoolKept
  <2>2. pc'[t] \notin {"loadI", "storeI", "storeJ"}
    BY <1>1, <1>9 DEF Step, Lookup, Launch, BeginOpen, BeginPrivate, LoadAtI,
       StoreAtI, StoreAtJ, ShuffleEnds, DrawOne, ChooseFirst, WriteMapping, DecideToRace,
       DecideNotToRace, SearchBest, AppendBest, Collect, AskFor, Seek, SeekDoH, Return, Scan,
       Goto, MidSwap, Storing, TypeOK
  <2>3. InHand' = InHand
    BY <1>1, <1>9, <2>2 DEF InHand, MidSwap
  <2> QED
    BY <1>1, <1>2, <2>1, <2>2, <2>3 DEF Full, FreshSwap, Names
<1>10. Storing(t) \/ MidSwap(t) => StoreAtI(t) \/ StoreAtJ(t) \/ AppendBest(t) \/ LoadAtI(t)
  BY DEF Storing, MidSwap, Step, Lookup, Launch, BeginOpen, BeginPrivate, LoadAtJ,
     ShuffleEnds, DrawOne, ChooseFirst, WriteMapping, DecideToRace, DecideNotToRace,
     SearchBest, Collect, AskFor, Seek, SeekDoH, Return
<1> QED
  BY <1>4, <1>5, <1>6, <1>7, <1>8, <1>9, <1>10

-----------------------------------------------------------------------------
(* A lookup beside which nobody stores.                                    *)

LEMMA AppendToOne ==
  ASSUME NEW list \in NameLists, Len(list) = 1, NEW r \in Resolvers
  PROVE  /\ DOMAIN Append(list, r) = {1, 2} /\ Len(Append(list, r)) = 2
         /\ Append(list, r)[1] = list[1] /\ Append(list, r)[2] = r
<1>0. list \in Seq(Resolvers)
  BY DEF NameLists
<1>1. /\ Append(list, r) \in Seq(Resolvers)
      /\ Len(Append(list, r)) = Len(list) + 1
      /\ Append(list, r)[Len(list) + 1] = r
  BY <1>0
<1>2. \A n : n = 1 => n + 1 = 2 /\ 1 .. 2 = {1, 2}
  OBVIOUS
<1>3. Len(list) + 1 = 2
  BY <1>2, Zenon
<1>4. Len(Append(list, r)) = 2
  BY <1>1, <1>3
<1>5. DOMAIN Append(list, r) = 1 .. 2
  BY <1>1, <1>4
<1> QED
  BY <1>1, <1>2, <1>3, <1>4, <1>5, AppendTyped

LEMMA NamesOfAppend ==
  ASSUME NEW list \in NameLists, Len(list) \in {0, 1}, NEW r \in Resolvers, NEW S, r \in S,
         Len(list) = 1 => list[1] \in S
  PROVE  Names(Append(list, r)) \subseteq S
<1>1. list \in Seq(Resolvers)
  BY DEF NameLists
<1>2. CASE Len(list) = 0
  <2>1. Append(list, r) = <<r>>
    BY <1>1, <1>2
  <2> QED
    BY <2>1 DEF Names
<1>3. CASE Len(list) = 1
  <2> QED
    BY <1>3, AppendToOne DEF Names
<1> QED
  BY <1>2, <1>3

LEMMA AtStartStep ==
  ASSUME IInv, NEW t \in Threads, AtStart(t), Step(t)
  PROVE  AtStart(t)'
<1> USE DEF IInv, TypeOK, Goto, SetAt, AtStart
<1>1. CASE \E d \in Domains : BeginOpen(t, d) \/ BeginPrivate(t, d)
  BY <1>1 DEF BeginOpen, BeginPrivate
<1>2. CASE LoadAtJ(t) \/ LoadAtI(t) \/ StoreAtI(t) \/ StoreAtJ(t) \/ ShuffleEnds(t)
  BY <1>2 DEF LoadAtJ, LoadAtI, StoreAtI, StoreAtJ, ShuffleEnds
<1>3. CASE DrawOne(t)
  BY <1>3 DEF DrawOne
<1>4. CASE ChooseFirst(t) \/ WriteMapping(t) \/ DecideToRace(t) \/ DecideNotToRace(t)
  BY <1>4 DEF ChooseFirst, WriteMapping, DecideToRace, DecideNotToRace
<1>5. CASE AppendBest(t) \/ Collect(t)
  BY <1>5 DEF AppendBest, Collect
<1>6. CASE SearchBest(t) \/ Seek(t) \/ SeekDoH(t)
  BY <1>6 DEF SearchBest, Seek, SeekDoH, Scan
<1>7. CASE AskFor(t) \/ Return(t) \/ \E s \in Threads : Launch(t, s)
  BY <1>7 DEF AskFor, Return, Launch
<1> QED
  BY <1>1, <1>2, <1>3, <1>4, <1>5, <1>6, <1>7 DEF Step, Lookup

LEMMA RaceStep ==
  ASSUME IInv, NEW t \in Threads, RaceInv(t), Step(t)
  PROVE  RaceInv(t)'
<1> SUFFICES ASSUME mode' = "race" PROVE RaceInv(t)'
  BY DEF RaceInv
<1>0. /\ mode = "race" /\ TypeOK /\ LocalInv(t) /\ ~Private
      /\ Size \in Nat \ {0} /\ 1 \in Positions /\ (Size > 1 => 2 \in Positions)
      /\ pick[t] \in NameLists /\ at[t] \in Positions
  BY StepLeaves, SizeAssumption DEF IInv, TypeOK, Positions, Private
<1>1. CASE pc'[t] \notin {"search", "append", "collect", "ask", "seek"}
  BY <1>1 DEF RaceInv
<1>2. CASE DecideToRace(t)
  BY <1>0, <1>2 DEF DecideToRace, Goto, SetName, TypeOK, RaceInv
<1>3. CASE DecideNotToRace(t)
  BY <1>0, <1>3 DEF DecideNotToRace, Goto, TypeOK, RaceInv, LocalInv, NameFound, PickBounded
<1>4. CASE SearchBest(t)
  <2>1. /\ pc[t] = "search" /\ pool' = pool /\ pick' = pick /\ pick[t] = <<>>
        /\ pc'[t] \in {"append", "collect", "search"}
        /\ pc'[t] = "append" => pool[at[t]] = name[t]
        /\ name'[t] = IF pc'[t] = "collect" THEN "none" ELSE name[t]
    BY <1>0, <1>4 DEF SearchBest, Scan, Goto, SetName, TypeOK, LocalInv, PickBounded
  <2>2. pool[at[t]] \in Names(pool)
    BY <1>0 DEF Names, TypeOK
  <2> QED
    BY <1>0, <2>1, <2>2 DEF RaceInv
<1>5. CASE AppendBest(t)
  <2>1. /\ pc[t] = "append" /\ pc'[t] = "collect" /\ name[t] \in Resolvers
        /\ name' = name /\ pick' = pick /\ pick[t] = <<>>
        /\ pool' = IF Size > 1 THEN [pool EXCEPT ![2] = name[t]] ELSE pool
    BY <1>0, <1>5 DEF AppendBest, Goto, TypeOK, LocalInv, NameFound, PickBounded
  <2>2. pool'[1] = pool[1] /\ (Size > 1 => pool'[2] = name[t])
    BY <1>0, <2>1 DEF TypeOK
  <2>3. name[t] \in Names(pool')
    <3>1. CASE Size > 1
      <4>1. 2 \in DOMAIN pool'
        BY <1>0, <2>1, <3>1 DEF TypeOK
      <4> QED
        BY <2>2, <3>1, <4>1 DEF Names
    <3>2. CASE ~(Size > 1)
      BY <1>0, <2>1, <3>2 DEF RaceInv
    <3> QED
      BY <3>1, <3>2
  <2> QED
    BY <1>0, <2>1, <2>2, <2>3 DEF RaceInv
<1>6. CASE Collect(t)
  <2> DEFINE first == pick[t] = <<>>
             r == IF first THEN pool[1] ELSE IF Size > 1 THEN pool[2] ELSE name[t]
             over == ~first \/ name[t] = "none"
  <2>1. /\ pc[t] = "collect" /\ pool' = pool
        /\ pick'[t] = Append(pick[t], r)
        /\ name'[t] = IF over THEN "none" ELSE name[t]
        /\ pc'[t] = IF over THEN "ask" ELSE "collect"
        /\ first \/ (Len(pick[t]) = 1 /\ name[t] # "none")
    BY <1>0, <1>6 DEF Collect, Goto, SetName, SetPick, TypeOK, LocalInv, PickBounded
  <2>2. CASE first
    <3>1. pick'[t] = <<pool[1]>>
      BY <2>1, <2>2
    <3>2. Len(pick'[t]) = 1 /\ pick'[t][1] = pool[1]
      BY <3>1
    <3> QED
      BY <1>0, <2>1, <2>2, <3>2 DEF RaceInv
  <2>3. CASE ~first
    <3>1. Len(pick[t]) = 1 /\ name[t] # "none" /\ pick[t] \in Seq(Resolvers)
      BY <1>0, <2>1, <2>3 DEF NameLists
    <3>2. r = name[t] /\ pick[t][1] = pool[1] /\ name[t] \in BestOfConfig /\ pool[1] \in HighSpread
      BY <1>0, <2>1, <2>3, <3>1 DEF RaceInv
    <3>3. name[t] \in Resolvers
      BY <1>0, <2>1, <3>1 DEF LocalInv, NameFound
    <3>4. pick'[t][1] = pool[1] /\ pick'[t][2] = name[t]
      BY <1>0, <2>1, <3>1, <3>2, <3>3, AppendToOne
    <3> QED
      BY <1>0, <2>1, <2>3, <3>2, <3>4 DEF RaceInv, Raced
  <2> QED
    BY <2>2, <2>3
<1>7. CASE AskFor(t)
  BY <1>0, <1>7 DEF AskFor, Goto, TypeOK, RaceInv
<1>8. CASE Seek(t)
  BY <1>0, <1>8 DEF Seek, Scan, Goto, TypeOK, RaceInv
<1>9. pc'[t] \in {"search", "append", "collect", "ask", "seek"} =>
        DecideToRace(t) \/ DecideNotToRace(t) \/ SearchBest(t) \/ AppendBest(t) \/ Collect(t)
          \/ AskFor(t) \/ Seek(t)
  BY <1>0 DEF Step, Lookup, Launch, BeginOpen, BeginPrivate, LoadAtJ, LoadAtI, StoreAtI,
     StoreAtJ, ShuffleEnds, DrawOne, ChooseFirst, WriteMapping, SeekDoH, Return, Scan, Goto,
     TypeOK, LocalInv, ModeFits, Private
<1> QED
  BY <1>1, <1>2, <1>3, <1>4, <1>5, <1>6, <1>7, <1>8, <1>9

LEMMA SoughtStep ==
  ASSUME IInv, NEW t \in Threads, AtStart(t), RaceInv(t), SoughtInv(t), OneStep(t), Step(t),
         \A s \in Threads : s \notin disturbed => SoughtInv(s), t \notin disturbed'
  PROVE  SoughtInv(t)'
<1>0. /\ TypeOK /\ LocalInv(t) /\ mode' = mode /\ (Private' <=> Private)
      /\ Size \in Nat \ {0} /\ 1 \in Positions /\ (Size > 1 => 2 \in Positions)
      /\ pick[t] \in NameLists /\ at[t] \in Positions
      /\ \A k \in Positions : pool[k] \in Resolvers
  BY StepLeaves, SizeAssumption DEF IInv, TypeOK, Positions, Private
<1>1. CASE pc'[t] \notin {"search", "ask", "seek", "doh"}
  BY <1>1 DEF SoughtInv
<1>2. CASE BeginPrivate(t, domain'[t])
  BY <1>0, <1>2 DEF BeginPrivate, Goto, TypeOK, SoughtInv
<1>3. CASE ChooseFirst(t)
  <2>1. pool' = pool /\ pick'[t] = <<pool[1]>> /\ pc'[t] \in {"ask", "map"}
    BY <1>0, <1>3 DEF ChooseFirst, SetPick, Goto, TypeOK
  <2>2. Names(<<pool[1]>>) = {pool[1]} /\ pool[1] \in Names(pool)
    BY <1>0 DEF Names, TypeOK
  <2> QED
    BY <1>0, <2>1, <2>2 DEF SoughtInv, Names
<1>4. CASE WriteMapping(t)
  BY <1>0, <1>4 DEF WriteMapping, Goto, TypeOK, SoughtInv, LocalInv, ModeFits
<1>5. CASE DecideToRace(t)
  <2>1. pc[t] = "choose" /\ pc'[t] = "search" /\ at' = at /\ at[t] = 1
    BY <1>0, <1>5 DEF DecideToRace, Goto, TypeOK, AtStart
  <2> QED
    BY <2>1, SizeAssumption DEF SoughtInv, Positions
<1>6. CASE SearchBest(t) \/ Seek(t) \/ SeekDoH(t)
  <2>1. /\ pc[t] \in {"search", "seek", "doh"} /\ pool' = pool /\ pick' = pick
        /\ pc'[t] \in {"append", "collect", "ask", "idle", pc[t]}
        /\ pc'[t] = "ask" => pc[t] = "seek"
        /\ pc'[t] = pc[t] => /\ name'[t] = name[t] /\ at'[t] = at[t] + 1
                             /\ pool[at[t]] # name[t]
    BY <1>0, <1>6 DEF SearchBest, Seek, SeekDoH, Scan, Goto, SetName, SetAt, TypeOK
  <2>2. \A k \in Positions : k < at[t] => pool[k] # name[t]
    BY <2>1 DEF SoughtInv
  <2>3. \A k \in Positions : k < at[t] + 1 => k < at[t] \/ k = at[t]
    BY <1>0 DEF Positions
  <2>4. pc'[t] = pc[t] => \A k \in Positions : k < at'[t] => pool'[k] # name'[t]
    BY <2>1, <2>2, <2>3
  <2> QED
    BY <1>0, <2>1, <2>4 DEF SoughtInv
<1>7. CASE Collect(t)
  <2> DEFINE first == pick[t] = <<>>
             r == IF first THEN pool[1] ELSE IF Size > 1 THEN pool[2] ELSE name[t]
  <2>1. /\ pc[t] = "collect" /\ pool' = pool /\ mode = "race"
        /\ pick'[t] = Append(pick[t], r)
        /\ pc'[t] \in {"ask", "collect"}
        /\ first \/ (Len(pick[t]) = 1 /\ name[t] # "none")
    BY <1>0, <1>7 DEF Collect, Goto, SetPick, TypeOK, LocalInv, PickBounded, ModeFits
  <2>2. \A k \in Positions : pool[k] \in Names(pool)
    BY <1>0 DEF Names, TypeOK
  <2>3. r \in Resolvers /\ r \in Names(pool)
    BY <1>0, <2>1, <2>2 DEF LocalInv, NameFound, RaceInv
  <2>4. Len(pick[t]) \in {0, 1} /\ (Len(pick[t]) = 1 => pick[t][1] \in Names(pool))
    BY <1>0, <2>1, <2>2, EmptyTyped DEF RaceInv
  <2> HIDE DEF r
  <2>5. Names(pick'[t]) \subseteq Names(pool)
    BY <1>0, <2>1, <2>3, <2>4, NamesOfAppend
  <2> QED
    BY <1>0, <2>1, <2>5 DEF SoughtInv
<1>8. CASE AskFor(t)
  <2>1. /\ pc[t] = "ask" /\ pc'[t] = "seek" /\ pool' = pool /\ pick' = pick
        /\ at' = at /\ at[t] = 1
        /\ name'[t] \in Names(AskList(t))
    BY <1>0, <1>8 DEF AskFor, Goto, SetName, TypeOK, AtStart
  <2>2. ~Private => name'[t] \in Names(pool)
    BY <2>1 DEF AskList, SoughtInv
  <2>3. \A k \in Positions : k < at'[t] => pool'[k] # name'[t]
    BY <1>0, <2>1 DEF Positions
  <2>4. ~Private => Names(pick[t]) \subseteq Names(pool)
    BY <2>1 DEF SoughtInv
  <2> QED
    BY <1>0, <2>1, <2>2, <2>3, <2>4 DEF SoughtInv
<1>9. CASE \E s \in Threads : Heir(t, s)
  <2>1. PICK s \in Threads : Heir(t, s)
    BY <1>9
  <2>2. /\ pc[s] = "ask" /\ pc[t] = "idle" /\ pc'[t] = "doh" /\ pool' = pool
        /\ at' = at /\ at[t] = 1
        /\ name'[t] \in Names(AskList(s))
    BY <1>0, <2>1 DEF Heir, Launch, Goto, SetName, TypeOK, AtStart
  <2>3. SoughtInv(s)
    BY <2>1 DEF Heir
  <2>4. ~Private => name'[t] \in Names(pool)
    BY <2>2, <2>3 DEF AskList, SoughtInv
  <2>5. \A k \in Positions : k < at'[t] => pool'[k] # name'[t]
    BY <1>0, <2>2 DEF Positions
  <2> QED
    BY <1>0, <2>2, <2>4, <2>5 DEF SoughtInv
<1>10. pc'[t] \in {"search", "ask", "seek", "doh"} =>
         \/ BeginPrivate(t, domain'[t]) \/ ChooseFirst(t) \/ WriteMapping(t) \/ DecideToRace(t)
         \/ SearchBest(t) \/ Seek(t) \/ SeekDoH(t) \/ Collect(t) \/ AskFor(t)
         \/ \E s \in Threads : Heir(t, s)
  <2>1. ASSUME NEW d \in Domains, BeginPrivate(t, d) PROVE BeginPrivate(t, domain'[t])
    <3>1. domain'[t] = d
      BY <1>0, <2>1 DEF BeginPrivate, TypeOK
    <3> QED
      BY <2>1, <3>1
  <2> QED
    BY <1>0, <2>1 DEF OneStep, Lookup, BeginOpen, LoadAtJ, LoadAtI, StoreAtI, StoreAtJ,
       ShuffleEnds, DrawOne, DecideNotToRace, AppendBest, Return, Goto, TypeOK
<1> QED
  BY <1>1, <1>2, <1>3, <1>4, <1>5, <1>6, <1>7, <1>8, <1>9, <1>10

LEMMA QuietStep ==
  ASSUME IInv, \A s \in Threads : QuietInv(s),
         NEW t \in Threads, OneStep(t), Step(t), Remembered, NEW s \in Threads
  PROVE  QuietInv(s)'
<1>1. CASE s = t
  <2>1. AtStart(t)'
    BY AtStartStep DEF QuietInv
  <2>2. ASSUME t \notin disturbed', pc'[t] # "idle" PROVE RaceInv(t)' /\ SoughtInv(t)'
    <3>1. t \notin disturbed
      BY <2>2 DEF Remembered
    <3>2. AtStart(t) /\ RaceInv(t) /\ SoughtInv(t)
      BY <3>1 DEF QuietInv
    <3> QED
      BY <2>2, <3>2, RaceStep, SoughtStep DEF QuietInv
  <2>3. pc'[t] = "idle" => RaceInv(t)' /\ SoughtInv(t)'
    BY DEF RaceInv, SoughtInv
  <2> QED
    BY <1>1, <2>1, <2>2, <2>3 DEF QuietInv, Remembered
<1>2. CASE s # t
  <2>1. /\ mode' = mode /\ pc'[s] = pc[s] /\ at'[s] = at[s] /\ name'[s] = name[s]
        /\ pick'[s] = pick[s]
    BY <1>2, StepLeaves DEF IInv
  <2>2. AtStart(s)'
    BY <2>1 DEF QuietInv, AtStart
  <2>3. ASSUME s \notin disturbed', pc'[s] # "idle" PROVE RaceInv(s)' /\ SoughtInv(s)'
    <3>1. s \notin disturbed /\ RaceInv(s) /\ SoughtInv(s) /\ ~Storing(t)
      BY <1>2, <2>1, <2>3 DEF Remembered, QuietInv, Alone
    <3>2. pool' = pool
      BY <3>1, PoolKept
    <3> QED
      BY <2>1, <3>1, <3>2 DEF RaceInv, SoughtInv, Private, Names
  <2>4. pc'[s] = "idle" => RaceInv(s)' /\ SoughtInv(s)'
    BY DEF RaceInv, SoughtInv
  <2> QED
    BY <2>2, <2>3, <2>4 DEF QuietInv, Remembered
<1> QED
  BY <1>1, <1>2

-----------------------------------------------------------------------------
(* The lists of the domains.                                               *)

LEMMA NoListIsNoList == NoList \notin NameLists
<1>1. NoList[1] = "none" /\ 1 \in DOMAIN NoList
  BY DEF NoList
<1>2. \A list \in NameLists : \A k \in DOMAIN list : list[k] \in Resolvers
  BY DEF NameLists
<1> QED
  BY <1>1, <1>2, NameAssumption DEF AllNames

LEMMA ExtendsTransitive ==
  ASSUME NEW a, NEW b, NEW c, Extends(a, b), Extends(b, c)
  PROVE  Extends(a, c)
<1>1. CASE b = c \/ a = b
  BY <1>1
<1>2. CASE b # c /\ a # b
  <2>1. Len(b) = 1 /\ Len(b) = 2
    BY <1>2 DEF Extends
  <2> QED
    BY <2>1
<1> QED
  BY <1>1, <1>2

(* A stored list is replaced only by the one lookup that was drawing, and  *)
(* only by one that goes on from it.                                       *)
LEMMA MappingStep ==
  ASSUME IInv, NEW t \in Threads, Step(t), NEW d \in Domains, domain[t] = d => MapInv(t)
  PROVE  \/ mapping'[d] = mapping[d]
         \/ /\ Undecided(t) /\ domain[t] = d
            /\ Known(d)' /\ (Known(d) => Extends(mapping'[d], mapping[d]))
<1>1. CASE WriteMapping(t)
  <2>1. /\ pc[t] = "map" /\ pick[t] \in NameLists /\ Private
        /\ mapping' = [mapping EXCEPT ![domain[t]] = pick[t]]
    BY <1>1 DEF WriteMapping, IInv, TypeOK, LocalInv, ModeFits
  <2>2. mapping'[d] = IF d = domain[t] THEN pick[t] ELSE mapping[d]
    BY <2>1 DEF IInv, TypeOK
  <2> QED
    BY <2>1, <2>2, NoListIsNoList DEF MapInv, Undecided, Known
<1>2. CASE ~WriteMapping(t)
  BY <1>2 DEF Step, Lookup, Launch, BeginOpen, BeginPrivate, LoadAtJ, LoadAtI, StoreAtI,
     StoreAtJ, ShuffleEnds, DrawOne, ChooseFirst, DecideToRace, DecideNotToRace, SearchBest,
     AppendBest, Collect, AskFor, Seek, SeekDoH, Return
<1> QED
  BY <1>1, <1>2

(* The lookup that takes the step.                                         *)
LEMMA OwnMapStep ==
  ASSUME IInv, NEW t \in Threads, MapInv(t), Step(t)
  PROVE  MapInv(t)'
<1>0. /\ TypeOK /\ LocalInv(t) /\ mode' = mode /\ (Private' <=> Private)
      /\ pick[t] \in NameLists /\ at[t] \in Positions
      /\ \A k \in Positions : pool[k] \in Resolvers
  BY StepLeaves DEF IInv, TypeOK, Private
<1> USE DEF Goto, SetPick
<1>1. CASE pc'[t] \in {"search", "append", "collect", "idle", "doh"} \/ ~Private
  BY <1>0, <1>1 DEF MapInv
<1>2. ASSUME NEW d \in Domains, BeginPrivate(t, d) PROVE MapInv(t)'
  <2>1. /\ mapping' = mapping /\ domain'[t] = d
        /\ pick'[t] = IF Known(d) THEN mapping[d] ELSE <<>>
        /\ pc'[t] = IF Known(d) /\ ~MustExtend(d) THEN "ask" ELSE "shuffle"
    BY <1>0, <1>2 DEF BeginPrivate, TypeOK
  <2> QED
    BY <1>0, <2>1 DEF MapInv, MustExtend, Known, Extends
<1>3. CASE LoadAtJ(t) \/ LoadAtI(t) \/ StoreAtI(t) \/ StoreAtJ(t)
  BY <1>0, <1>3 DEF LoadAtJ, LoadAtI, StoreAtI, StoreAtJ, TypeOK, MapInv, Known
<1>4. CASE ShuffleEnds(t)
  <2>1. /\ UNCHANGED <<mapping, domain, pick>> /\ pc[t] = "shuffle"
        /\ pc'[t] = IF mode # "private" THEN "choose"
                    ELSE IF pick[t] = <<>> THEN "draw" ELSE "extend"
    BY <1>0, <1>4 DEF ShuffleEnds, TypeOK
  <2>2. Len(pick[t]) = 1 => pick[t] # <<>>
    BY SMTT(30), EmptyTyped
  <2> QED
    BY <1>0, <2>1, <2>2 DEF MapInv, Known, Private
<1>5. CASE DrawOne(t)
  <2> DEFINE r == pool[at[t]]
             drawn == IF r \in Excluded(t) THEN pick[t] ELSE Append(pick[t], r)
             over == Len(drawn) = 2 \/ at[t] = Size
  <2>1. /\ mapping' = mapping /\ domain' = domain /\ pick'[t] = drawn
        /\ pc[t] \in {"draw", "extend"} /\ pc'[t] = IF over THEN "map" ELSE pc[t]
    BY <1>0, <1>5 DEF DrawOne, TypeOK
  <2>2. CASE pc[t] = "draw" \/ ~Private
    BY <1>0, <2>1, <2>2 DEF MapInv, Known
  <2>3. CASE pc[t] = "extend" /\ Private
    <3>1. /\ Known(domain[t]) /\ Len(pick[t]) = 1 /\ pick[t] = mapping[domain[t]]
      BY <2>3 DEF MapInv
    <3>2. drawn = pick[t] \/ (Len(drawn) = 2 /\ drawn[1] = pick[t][1])
      BY <1>0, <3>1, AppendToOne
    <3> HIDE DEF drawn
    <3>3. Extends(drawn, mapping[domain[t]])
      BY <3>1, <3>2 DEF Extends
    <3>4. Len(drawn) # 2 => drawn = pick[t]
      BY <3>2
    <3> QED
      BY <1>0, <2>1, <2>3, <3>1, <3>3, <3>4 DEF MapInv, Known
  <2> QED
    BY <2>1, <2>2, <2>3
<1>6. CASE ChooseFirst(t)
  <2>1. /\ UNCHANGED <<mapping, domain>> /\ pc[t] = "choose"
        /\ Private => mode = "privateProxy" /\ pc'[t] = "map"
    BY <1>0, <1>6 DEF ChooseFirst, TypeOK, Private
  <2> QED
    BY <1>0, <2>1 DEF MapInv, Known
<1>7. CASE WriteMapping(t)
  <2>1. /\ UNCHANGED <<domain, pick>> /\ pc[t] = "map" /\ pc'[t] = "ask"
        /\ mapping'[domain[t]] = pick[t]
    BY <1>0, <1>7 DEF WriteMapping, TypeOK
  <2>2. pick[t] # NoList
    BY <1>0, NoListIsNoList
  <2> QED
    BY <1>0, <2>1, <2>2 DEF MapInv, Known, Extends
<1>8. CASE AskFor(t)
  BY <1>0, <1>8 DEF AskFor, TypeOK, MapInv, Known
<1>9. CASE Seek(t)
  <2>1. /\ UNCHANGED <<mapping, domain, pick>> /\ pc[t] = "seek" /\ pc'[t] \in {"ask", "seek"}
    BY <1>0, <1>9 DEF Seek, Scan, TypeOK
  <2> QED
    BY <1>0, <2>1 DEF MapInv, Known
<1>10. CASE \/ \E d \in Domains : BeginOpen(t, d)
            \/ DecideToRace(t) \/ DecideNotToRace(t) \/ SearchBest(t) \/ AppendBest(t)
            \/ Collect(t)
  BY <1>0, <1>1, <1>10 DEF BeginOpen, DecideToRace, DecideNotToRace, SearchBest, AppendBest,
     Collect, LocalInv, ModeFits, Private
<1>11. CASE SeekDoH(t) \/ Return(t) \/ \E s \in Threads : Launch(t, s)
  BY <1>0, <1>1, <1>11 DEF SeekDoH, Scan, Return, Launch, TypeOK
<1> QED
  BY <1>2, <1>3, <1>4, <1>5, <1>6, <1>7, <1>8, <1>9, <1>10, <1>11 DEF Step, Lookup

(* Lookups whose domain is settled for them: those that draw no list.      *)
LEMMA OtherMapStep ==
  ASSUME IInv, NEW t \in Threads, Step(t),
         NEW s \in Threads \ {t}, MapInv(s), OneDrawing(domain[s]),
         domain[t] = domain[s] => MapInv(t)
  PROVE  MapInv(s)'
<1>1. /\ mode' = mode /\ pc'[s] = pc[s] /\ domain'[s] = domain[s] /\ pick'[s] = pick[s]
  BY StepLeaves DEF IInv
<1>2. domain[s] \in Domains
  BY DEF IInv, TypeOK
<1>3. CASE mapping'[domain[s]] = mapping[domain[s]]
  BY <1>1, <1>3 DEF MapInv, Known, Private
<1>4. CASE mapping'[domain[s]] # mapping[domain[s]]
  <2>1. /\ Undecided(t) /\ domain[t] = domain[s] /\ Known(domain[s])'
        /\ Known(domain[s]) => Extends(mapping'[domain[s]], mapping[domain[s]])
    BY <1>1, <1>2, <1>4, MappingStep DEF Known
  <2>2. ~Undecided(s)
    BY <2>1 DEF OneDrawing
  <2> QED
    BY <1>1, <2>1, <2>2, ExtendsTransitive DEF MapInv, Undecided, Private, Known
<1> QED
  BY <1>3, <1>4

LEMMA UsedStep ==
  ASSUME IInv, NEW t \in Threads, Step(t),
         NEW d \in Domains, UsedInv(d), domain[t] = d => MapInv(t)
  PROVE  UsedInv(d)'
<1>1. ASSUME NEW list \in used'[d] PROVE Known(d) /\ Extends(mapping[d], list)
  <2>1. CASE list \in used[d]
    BY <2>1 DEF UsedInv
  <2>2. CASE list \notin used[d]
    <3>1. Return(t)
      BY <2>2 DEF Step, Lookup, Launch, BeginOpen, BeginPrivate, LoadAtJ, LoadAtI, StoreAtI,
         StoreAtJ, ShuffleEnds, DrawOne, ChooseFirst, WriteMapping, DecideToRace,
         DecideNotToRace, SearchBest, AppendBest, Collect, AskFor, Seek, SeekDoH
    <3>2. pc[t] = "ask" /\ Private /\ d = domain[t] /\ list = pick[t]
      BY <2>2, <3>1 DEF Return, IInv, TypeOK
    <3> QED
      BY <3>2 DEF MapInv
  <2> QED
    BY <2>1, <2>2
<1>2. mapping'[d] = mapping[d] \/ (Known(d)' /\ (Known(d) => Extends(mapping'[d], mapping[d])))
  BY MappingStep
<1> QED
  BY <1>1, <1>2, ExtendsTransitive DEF UsedInv, Known

(* The domain of a lookup changes only when one begins, with nothing in    *)
(* hand.                                                                   *)
LEMMA DomainKept ==
  ASSUME IInv, NEW t \in Threads, Step(t)
  PROVE  domain'[t] = domain[t] \/ MapInv(t)
<1>1. CASE pc[t] = "idle"
  BY <1>1 DEF MapInv
<1>2. CASE pc[t] # "idle"
  BY <1>2 DEF Step, Lookup, Launch, BeginOpen, BeginPrivate, LoadAtJ, LoadAtI, StoreAtI,
     StoreAtJ, ShuffleEnds, DrawOne, ChooseFirst, WriteMapping, DecideToRace,
     DecideNotToRace, SearchBest, AppendBest, Collect, AskFor, Seek, SeekDoH, Return
<1> QED
  BY <1>1, <1>2

LEMMA DomainStep ==
  ASSUME IInv, NEW t \in Threads, Step(t), Remembered,
         \A e \in Domains \ contended : DomainInv(e),
         NEW d \in Domains \ contended'
  PROVE  DomainInv(d)'
<1>1. d \in Domains \ contended /\ DomainInv(d)
  BY DEF Remembered
<1>2. domain[t] = d => MapInv(t)
  BY <1>1 DEF DomainInv
<1>3. UsedInv(d)'
  BY <1>1, <1>2, UsedStep DEF DomainInv
<1>4. ASSUME NEW s \in Threads, domain'[s] = d PROVE MapInv(s)'
  <2>1. CASE s = t
    <3>1. MapInv(t)
      BY <1>2, <1>4, <2>1, DomainKept
    <3> QED
      BY <2>1, <3>1, OwnMapStep
  <2>2. CASE s # t
    <3>1. domain[s] = d
      BY <1>4, <2>2, StepLeaves DEF IInv
    <3> QED
      BY <1>1, <1>2, <2>2, <3>1, OtherMapStep DEF DomainInv
  <2> QED
    BY <2>1, <2>2
<1> QED
  BY <1>3, <1>4 DEF DomainInv, Remembered

-----------------------------------------------------------------------------
(* The theorems.                                                           *)

LEMMA OverlapInit == Init => OverlapInv
<1> SUFFICES ASSUME Init PROVE OverlapInv
  OBVIOUS
<1>1. ASSUME NEW t \in Threads
      PROVE  /\ pc[t] = "idle" /\ at[t] = 1
             /\ FreshSwap(t) /\ MapInv(t) /\ RaceInv(t) /\ SoughtInv(t)
             /\ ~Undecided(t) /\ ~Storing(t)
  BY DEF Init, FreshSwap, RaceInv, SoughtInv, MapInv, Undecided, Storing
<1>2. InHand = {}
  BY <1>1 DEF InHand
<1>3. Full
  BY <1>2 DEF Init, Full, Names
<1>4. \A d \in Domains : DomainInv(d)
  BY <1>1 DEF Init, DomainInv, UsedInv, OneDrawing
<1>5. Apart /\ \A t \in Threads : QuietInv(t)
  BY <1>1 DEF Apart, QuietInv, Alone, AtStart
<1> QED
  BY <1>1, <1>3, <1>4, <1>5 DEF OverlapInv, ArrayInv

LEMMA OverlapStep == IInv /\ OverlapInv /\ [Next]_vars => OverlapInv'
<1> SUFFICES ASSUME IInv, OverlapInv, [Next]_vars PROVE OverlapInv'
  OBVIOUS
<1>1. CASE Next
  <2>1. PICK t \in Threads : OneStep(t) /\ Step(t) /\ Remembered
    BY <1>1, NextRemembers
  <2>2. ArrayInv'
    BY <2>1, ArrayStep DEF OverlapInv
  <2>3. \A s \in Threads : QuietInv(s)'
    BY <2>1, QuietStep DEF OverlapInv
  <2>4. \A d \in Domains \ contended' : DomainInv(d)'
    BY <2>1, DomainStep DEF OverlapInv
  <2> QED
    BY <2>1, <2>2, <2>3, <2>4 DEF OverlapInv, Remembered
<1>2. CASE UNCHANGED vars
  <2> USE <1>2 DEF vars, flags, history
  <2>1. Apart' /\ ArrayInv'
    BY DEF OverlapInv, Apart, Storing, MidSwap, ArrayInv, Full, InHand, FreshSwap, Names
  <2>2. ASSUME NEW t \in Threads PROVE QuietInv(t)'
    <3>1. QuietInv(t)
      BY DEF OverlapInv
    <3>2. Alone(t)' <=> Alone(t)
      BY DEF Alone, Storing
    <3>3. RaceInv(t)' <=> RaceInv(t)
      BY DEF RaceInv, Names
    <3>4. (SoughtInv(t)' <=> SoughtInv(t)) /\ (AtStart(t)' <=> AtStart(t))
      BY DEF SoughtInv, AtStart, Private, Names
    <3> QED
      BY <3>1, <3>2, <3>3, <3>4 DEF QuietInv
  <2>3. \A d \in Domains \ contended' : DomainInv(d)'
    BY DEF OverlapInv, DomainInv, OneDrawing, Undecided, UsedInv, MapInv, Known, Private
  <2> QED
    BY <2>1, <2>2, <2>3 DEF OverlapInv
<1> QED
  BY <1>1, <1>2

LEMMA OverlapInvariance == Spec => []OverlapInv
BY Invariance, OverlapInit, OverlapStep, PTL DEF Spec

(* Outside race mode Client.Resolvers holds every resolver but the one a   *)
(* swap has in hand between its two stores, until a store comes into       *)
(* another lookup's swap.                                                  *)
THEOREM PoolStaysComplete == Spec => []PoolCompleteUnlessCollision
<1>1. OverlapInv => PoolCompleteUnlessCollision
  BY DEF OverlapInv, ArrayInv, PoolCompleteUnlessCollision, Full
<1> QED
  BY <1>1, OverlapInvariance, PTL

(* The rule of race mode, from the decision to the list that is asked, for *)
(* each lookup beside which no other is about to store.                    *)
THEOREM RaceRuleHolds == Spec => []RaceRuleUnlessDisturbed
<1>1. OverlapInv => RaceRuleUnlessDisturbed
  BY DEF OverlapInv, QuietInv, RaceRuleUnlessDisturbed, RaceRule, RaceInv, Raced
<1> QED
  BY <1>1, OverlapInvariance, PTL

(* ResolverMapping sends every lookup of a domain to the same resolvers,   *)
(* unless two of that domain draw at once.                                 *)
THEOREM ResolversStaySame == Spec => []SameResolversUnlessContended
<1>1. IInv /\ OverlapInv => SameResolversUnlessContended
  <2> SUFFICES ASSUME IInv, OverlapInv, NEW d \in Domains \ contended,
                      NEW l1 \in used[d], NEW l2 \in used[d]
               PROVE  /\ \A k \in DOMAIN l1 \cap DOMAIN l2 : l1[k] = l2[k]
                      /\ (l1 = <<>>) <=> (l2 = <<>>)
    BY DEF SameResolversUnlessContended, SameResolvers
  <2>1. l1 \in Seq(Resolvers) /\ l2 \in Seq(Resolvers)
    BY DEF IInv, TypeOK, NameLists
  <2>2. Extends(mapping[d], l1) /\ Extends(mapping[d], l2)
    BY DEF OverlapInv, DomainInv, UsedInv
  <2>3. mapping[d] \in Seq(Resolvers)
    BY DEF OverlapInv, DomainInv, UsedInv, Known, IInv, TypeOK, NameLists
  <2> QED
    BY <2>1, <2>2, <2>3 DEF Extends
<1> QED
  BY <1>1, Invariance, OverlapInvariance, PTL

(* A scan that nobody disturbs finds every name that is in the array, and  *)
(* with privacy every name of the array's until swaps have collided.       *)
THEOREM NamesAreFound == Spec => []FoundUnlessDisturbed
<1>1. IInv /\ OverlapInv => FoundUnlessDisturbed
  <2> SUFFICES ASSUME IInv, OverlapInv, NEW t \in Threads \ disturbed, AboutToMiss(t)
               PROVE  Private /\ (collided \/ name[t] \notin Resolvers)
    BY DEF FoundUnlessDisturbed
  <2>1. /\ pc[t] \in {"seek", "doh"} /\ at[t] = Size /\ pool[Size] # name[t]
        /\ Alone(t) /\ SoughtInv(t) /\ pool \in [Positions -> Resolvers]
    BY DEF AboutToMiss, OverlapInv, QuietInv, IInv, TypeOK
  <2>2. ASSUME NEW k \in Positions PROVE pool[k] # name[t]
    <3>1. k < Size \/ k = Size
      BY SizeAssumption DEF Positions
    <3> QED
      BY <2>1, <3>1 DEF SoughtInv
  <2>3. name[t] \notin Names(pool)
    BY <2>1, <2>2 DEF Names
  <2>4. Private
    BY <2>1, <2>3 DEF SoughtInv
  <2>5. ASSUME ~collided, name[t] \in Resolvers PROVE FALSE
    <3>1. Full
      BY <2>4, <2>5 DEF OverlapInv, ArrayInv, Private
    <3>2. InHand = {}
      BY <2>1 DEF Alone, Storing, InHand
    <3> QED
      BY <2>3, <2>5, <3>1, <3>2 DEF Full
  <2> QED
    BY <2>4, <2>5
<1> QED
  BY <1>1, Invariance, OverlapInvariance, PTL
=============================================================================
