---------------------------- MODULE ResolverPool ----------------------------
(***************************************************************************)
(* How concurrent lookups choose the resolvers they ask: the first half of *)
(* Resolver.LookupAtNameservers and Resolver.Shard (resolver.go).          *)
(*                                                                         *)
(* Client.Resolvers is one array shared by every lookup.  Shard shuffles   *)
(* it in place, without a lock, and returns the array itself, so a lookup  *)
(* reads its choice out of an array that others are shuffling; race mode   *)
(* even appends to a slice of it.  ResolverMapping is locked for each read *)
(* and each write, but not between them.                                   *)
(*                                                                         *)
(* Each load and each store of one element of the array is a step of its   *)
(* own, in the shuffle as in the scans.  An element is loaded and stored   *)
(* whole: that one half written could be read is left out, but every       *)
(* lookup that might read one counts as disturbed.                         *)
(***************************************************************************)
EXTENDS Naturals, Sequences, FiniteSets

CONSTANTS
    Threads,      \* the goroutines that serve queries, or are launched to ask
    Domains,      \* second-level domains asked for
    Resolvers,    \* names in Client.Resolvers
    Size,         \* their number
    Others,       \* other names, that the files below may hold
    BestLists,    \* the lists handler.BestResolvers may hold (bestResolvers.json)
    HighSpread,   \* "high_spread" of the resolver config file
    BestOfConfig  \* "best_resolvers" of the resolver config file

AllNames == Resolvers \cup Others

ASSUME SizeAssumption == Size \in Nat \ {0}
ASSUME NameAssumption == "none" \notin AllNames
ASSUME BestAssumption == BestLists \subseteq Seq(AllNames)
ASSUME ConfigAssumption == HighSpread \subseteq AllNames /\ BestOfConfig \subseteq AllNames

VARIABLES
    mode,      \* the handler's flags; never changes
    best,      \* handler.BestResolvers; never changes
    pool,      \* Client.Resolvers
    mapping,   \* ResolverMapping: domain -> list, or NoList
    pc,        \* control state of each goroutine
    domain,    \* the domain it looks up
    swap,      \* its shuffle: positions and loaded values
    at,        \* how far its scan of the array has got
    name,      \* the name it scans for, or has found to race with
    pick,      \* its local variable resolvers
    used,      \* the lists the lookups of each domain were sent to
    contended, \* the domains two of whose lists were drawn at the same time
    collided,  \* has a store ever come between two steps of another's swap?
    disturbed  \* the lookups under way beside which another one has stored

flags == <<mode, best>>
history == <<contended, collided, disturbed>>
vars == <<flags, pool, mapping, pc, domain, swap, at, name, pick, used, history>>

(* race          no privacy, racing                                        *)
(* single        no privacy, and either the DoH proxy or no racing         *)
(* private       privacy, Onoma                                            *)
(* privateProxy  privacy, DoH proxy                                        *)
Modes == {"race", "single", "private", "privateProxy"}
Private == mode \in {"private", "privateProxy"}

Positions == 1 .. Size
NoList == <<"none">>
NameLists == {list \in Seq(Resolvers) : Len(list) <= 2}
Names(list) == {list[k] : k \in DOMAIN list}
Known(d) == mapping[d] # NoList

(* A shuffle that has got down to position i and has nothing loaded.       *)
NoSwap(i) == [i |-> i, j |-> i, atI |-> "none", atJ |-> "none"]
Swaps == [i : Positions, j : Positions,
          atI : Resolvers \cup {"none"}, atJ : Resolvers \cup {"none"}]

TypeOK ==
    /\ mode \in Modes
    /\ best \in BestLists
    /\ pool \in [Positions -> Resolvers]
    /\ mapping \in [Domains -> NameLists \cup {NoList}]
    /\ pc \in [Threads -> {"idle", "shuffle", "loadI", "storeI", "storeJ",
                           "draw", "extend", "choose", "map",
                           "search", "append", "collect", "ask", "seek", "doh"}]
    /\ domain \in [Threads -> Domains]
    /\ swap \in [Threads -> Swaps]
    /\ at \in [Threads -> Positions]
    /\ name \in [Threads -> AllNames \cup {"none"}]
    /\ pick \in [Threads -> NameLists]
    /\ used \in [Domains -> SUBSET NameLists]
    /\ contended \subseteq Domains
    /\ collided \in BOOLEAN
    /\ disturbed \subseteq Threads

Init ==
    /\ mode \in Modes
    /\ best \in BestLists
    /\ pool \in {f \in [Positions -> Resolvers] : \A r \in Resolvers : \E k \in Positions : f[k] = r}
    /\ mapping = [d \in Domains |-> NoList]
    /\ pc = [t \in Threads |-> "idle"]
    /\ \E d \in Domains : domain = [t \in Threads |-> d]
    /\ swap = [t \in Threads |-> NoSwap(Size)]
    /\ at = [t \in Threads |-> 1]
    /\ name = [t \in Threads |-> "none"]
    /\ pick = [t \in Threads |-> <<>>]
    /\ used = [d \in Domains |-> {}]
    /\ contended = {} /\ collided = FALSE /\ disturbed = {}

-----------------------------------------------------------------------------
Goto(t, label) == pc' = [pc EXCEPT ![t] = label]
SetPick(t, list) == pick' = [pick EXCEPT ![t] = list]
SetName(t, n) == name' = [name EXCEPT ![t] = n]
SetAt(t, k) == at' = [at EXCEPT ![t] = k]

(* A lookup in a mode without privacy: every list is drawn afresh.         *)
BeginOpen(t, d) ==
    /\ pc[t] = "idle"
    /\ ~Private
    /\ domain' = [domain EXCEPT ![t] = d]
    /\ swap' = [swap EXCEPT ![t] = NoSwap(Size)]
    /\ SetPick(t, <<>>)
    /\ Goto(t, "shuffle")
    /\ UNCHANGED <<flags, pool, mapping, at, name, used>>

(* Mutant of the next definition: a list is extended whatever its length.  *)
ExtendsAnyList(d) == Known(d) /\ mode = "private"

(* A list of one resolver is extended unless the DoH proxy is under test.  *)
MustExtend(d) == Known(d) /\ mode = "private" /\ Len(mapping[d]) = 1

(* A lookup with privacy: the domain's list is read first, under the       *)
(* mutex.                                                                  *)
BeginPrivate(t, d) ==
    /\ pc[t] = "idle"
    /\ Private
    /\ domain' = [domain EXCEPT ![t] = d]
    /\ swap' = [swap EXCEPT ![t] = NoSwap(Size)]
    /\ SetPick(t, IF Known(d) THEN mapping[d] ELSE <<>>)
    /\ Goto(t, IF Known(d) /\ ~MustExtend(d) THEN "ask" ELSE "shuffle")
    /\ UNCHANGED <<flags, pool, mapping, at, name, used>>

(* rand.Shuffle, from the last position down.  A swap loads two elements   *)
(* and then stores them.                                                   *)
LoadAtJ(t) ==
    LET i == swap[t].i IN
    /\ pc[t] = "shuffle"
    /\ i > 1
    /\ \E j \in 1 .. i :
          swap' = [swap EXCEPT ![t] = [i |-> i, j |-> j, atI |-> "none", atJ |-> pool[j]]]
    /\ Goto(t, "loadI")
    /\ UNCHANGED <<flags, pool, mapping, domain, at, name, pick, used>>

LoadAtI(t) ==
    /\ pc[t] = "loadI"
    /\ swap' = [swap EXCEPT ![t].atI = pool[swap[t].i]]
    /\ Goto(t, "storeI")
    /\ UNCHANGED <<flags, pool, mapping, domain, at, name, pick, used>>

StoreAtI(t) ==
    /\ pc[t] = "storeI"
    /\ pool' = [pool EXCEPT ![swap[t].i] = swap[t].atJ]
    /\ Goto(t, "storeJ")
    /\ UNCHANGED <<flags, mapping, domain, swap, at, name, pick, used>>

(* Mutant of the next definition: the second element is not stored.        *)
LosesOneStore(t) ==
    /\ pc[t] = "storeJ"
    /\ swap' = [swap EXCEPT ![t] = NoSwap(swap[t].i - 1)]
    /\ Goto(t, "shuffle")
    /\ UNCHANGED <<flags, pool, mapping, domain, at, name, pick, used>>

StoreAtJ(t) ==
    /\ pc[t] = "storeJ"
    /\ pool' = [pool EXCEPT ![swap[t].j] = swap[t].atI]
    /\ swap' = [swap EXCEPT ![t] = NoSwap(swap[t].i - 1)]
    /\ Goto(t, "shuffle")
    /\ UNCHANGED <<flags, mapping, domain, at, name, pick, used>>

ShuffleEnds(t) ==
    /\ pc[t] = "shuffle"
    /\ swap[t].i = 1
    /\ Goto(t, IF mode # "private" THEN "choose"
               ELSE IF pick[t] = <<>> THEN "draw" ELSE "extend")
    /\ UNCHANGED <<flags, pool, mapping, domain, swap, at, name, pick, used>>

-----------------------------------------------------------------------------
(* One element of the scan that draws a list, two resolvers that are not   *)
(* best ones, or extends the domain's list of one, by another one.         *)
Excluded(t) == IF pc[t] = "draw" THEN Names(best) ELSE {pick[t][1]}

DrawOne(t) ==
    LET r == pool[at[t]]
        drawn == IF r \in Excluded(t) THEN pick[t] ELSE Append(pick[t], r)
        over == Len(drawn) = 2 \/ at[t] = Size
    IN  /\ pc[t] \in {"draw", "extend"}
        /\ SetPick(t, drawn)
        /\ SetAt(t, IF over THEN 1 ELSE at[t] + 1)
        /\ Goto(t, IF over THEN "map" ELSE pc[t])
        /\ UNCHANGED <<flags, pool, mapping, domain, swap, name, used>>

ChooseFirst(t) ==
    /\ pc[t] = "choose"
    /\ mode \in {"single", "privateProxy"}
    /\ SetPick(t, <<pool[1]>>)
    /\ Goto(t, IF mode = "single" THEN "ask" ELSE "map")
    /\ UNCHANGED <<flags, pool, mapping, domain, swap, at, name, used>>

(* Mutant of the next definition: the list that was drawn is not           *)
(* remembered.                                                             *)
NeverStores(t) ==
    /\ pc[t] = "map"
    /\ Goto(t, "ask")
    /\ UNCHANGED <<flags, pool, mapping, domain, swap, at, name, pick, used>>

(* The list is stored for the domain, under the mutex.                     *)
WriteMapping(t) ==
    /\ pc[t] = "map"
    /\ mapping' = [mapping EXCEPT ![domain[t]] = pick[t]]
    /\ Goto(t, "ask")
    /\ UNCHANGED <<flags, pool, domain, swap, at, name, pick, used>>

(* One element of a scan for a name.                                       *)
Scan(t, found, missing) ==
    LET hit == pool[at[t]] = name[t]
        over == hit \/ at[t] = Size
    IN  /\ Goto(t, IF hit THEN found ELSE IF over THEN missing ELSE pc[t])
        /\ SetAt(t, IF over THEN 1 ELSE at[t] + 1)

(* Mutant of the next definition: the high-spread list is not consulted.   *)
RacesAlways(t) ==
    /\ pc[t] = "choose"
    /\ mode = "race"
    /\ \E b \in BestOfConfig : SetName(t, b)
    /\ Goto(t, "search")
    /\ UNCHANGED <<flags, pool, mapping, domain, swap, at, pick, used>>

(* Race mode: a second resolver only if there is a config for this host    *)
(* and the first one is in its high-spread list.                           *)
DecideToRace(t) ==
    /\ pc[t] = "choose"
    /\ mode = "race"
    /\ pool[1] \in HighSpread
    /\ \E b \in BestOfConfig : SetName(t, b)
    /\ Goto(t, "search")
    /\ UNCHANGED <<flags, pool, mapping, domain, swap, at, pick, used>>

DecideNotToRace(t) ==    \* no config, or not a high-spread resolver
    /\ pc[t] = "choose"
    /\ mode = "race"
    /\ Goto(t, "collect")
    /\ UNCHANGED <<flags, pool, mapping, domain, swap, at, name, pick, used>>

(* The best resolver is sought in the array.                               *)
SearchBest(t) ==
    /\ pc[t] = "search"
    /\ Scan(t, "append", "collect")
    /\ SetName(t, IF pc'[t] = "collect" THEN "none" ELSE name[t])
    /\ UNCHANGED <<flags, pool, mapping, domain, swap, pick, used>>

(* append(dohResolvers, dohRes), where dohResolvers is Client.Resolvers[:1]*)
(* and so has room: the element goes into the shared array.                *)
AppendBest(t) ==
    /\ pc[t] = "append"
    /\ pool' = IF Size > 1 THEN [pool EXCEPT ![2] = name[t]] ELSE pool
    /\ Goto(t, "collect")
    /\ UNCHANGED <<flags, mapping, domain, swap, at, name, pick, used>>

(* The one or two names are read out of the shared array once more.        *)
Collect(t) ==
    LET first == pick[t] = <<>>
        r == IF first THEN pool[1] ELSE IF Size > 1 THEN pool[2] ELSE name[t]
        over == ~first \/ name[t] = "none"
    IN  /\ pc[t] = "collect"
        /\ SetPick(t, Append(pick[t], r))
        /\ SetName(t, IF over THEN "none" ELSE name[t])
        /\ Goto(t, IF over THEN "ask" ELSE "collect")
        /\ UNCHANGED <<flags, pool, mapping, domain, swap, at, used>>

-----------------------------------------------------------------------------
(* The names the launch loop goes through.                                 *)
AskList(t) == IF Private THEN pick[t] \o best ELSE pick[t]

(* It looks each one up in the array to find address and protocol.  A name *)
(* that is not found is asked at the empty address.  The order of the      *)
(* names is left open, and how many there are time for.                    *)
AskFor(t) ==
    /\ pc[t] = "ask"
    /\ \E n \in Names(AskList(t)) : SetName(t, n)
    /\ Goto(t, "seek")
    /\ UNCHANGED <<flags, pool, mapping, domain, swap, at, pick, used>>

Seek(t) ==
    /\ pc[t] = "seek"
    /\ Scan(t, "ask", "ask")
    /\ SetName(t, IF pc'[t] = "ask" THEN "none" ELSE name[t])
    /\ UNCHANGED <<flags, pool, mapping, domain, swap, pick, used>>

(* A goroutine that asks over DoH looks the name up again, while the       *)
(* lookup that has launched it goes on, returns, or begins anew.           *)
Launch(t, s) ==
    /\ pc[s] = "ask"
    /\ pc[t] = "idle"
    /\ \E n \in Names(AskList(s)) : SetName(t, n)
    /\ Goto(t, "doh")
    /\ UNCHANGED <<flags, pool, mapping, domain, swap, at, pick, used>>

SeekDoH(t) ==
    /\ pc[t] = "doh"
    /\ Scan(t, "idle", "idle")
    /\ SetName(t, IF pc'[t] = "idle" THEN "none" ELSE name[t])
    /\ UNCHANGED <<flags, pool, mapping, domain, swap, pick, used>>

Return(t) ==    \* the local variables end with the call
    /\ pc[t] = "ask"
    /\ SetPick(t, <<>>)
    /\ used' = [used EXCEPT ![domain[t]] = IF Private THEN @ \cup {pick[t]} ELSE @]
    /\ Goto(t, "idle")
    /\ UNCHANGED <<flags, pool, mapping, domain, swap, at, name>>

-----------------------------------------------------------------------------
(* A lookup is undecided from its read of the mapping to its write.        *)
Undecided(t) == pc[t] \in {"shuffle", "loadI", "storeI", "storeJ",
                           "draw", "extend", "choose", "map"}

(* Its next step writes to the array; it is between the steps of a swap.   *)
Storing(t) == pc[t] \in {"storeI", "storeJ", "append"}
MidSwap(t) == pc[t] \in {"loadI", "storeI", "storeJ"}

(* What of that concerns two lookups is remembered: that both draw for one *)
(* domain, that one stores while the other swaps, that one stores while    *)
(* the other does anything at all (which is over once that lookup is).     *)
Remember(before) ==
    /\ contended' = contended \cup
          {d \in Domains : \E s, t \in Threads :
              s # t /\ Undecided(s)' /\ Undecided(t)' /\ domain'[s] = d /\ domain'[t] = d}
    /\ collided' = (collided \/ \E s, t \in Threads : s # t /\ Storing(s)' /\ MidSwap(t)')
    /\ disturbed' = {t \in Threads : pc'[t] # "idle" /\
                        (t \in before \/ \E s \in Threads \ {t} : Storing(s)')}

Lookup(t) ==
    \/ \E d \in Domains : BeginOpen(t, d) \/ BeginPrivate(t, d)
    \/ LoadAtJ(t) \/ LoadAtI(t) \/ StoreAtI(t) \/ StoreAtJ(t) \/ ShuffleEnds(t)
    \/ DrawOne(t) \/ ChooseFirst(t) \/ WriteMapping(t)
    \/ DecideToRace(t) \/ DecideNotToRace(t) \/ SearchBest(t) \/ AppendBest(t) \/ Collect(t)
    \/ AskFor(t) \/ Seek(t) \/ SeekDoH(t) \/ Return(t)

(* A launched goroutine has the name of a lookup that may be disturbed.    *)
Next ==
    \/ \E t \in Threads : Lookup(t) /\ Remember(disturbed)
    \/ \E s, t \in Threads :
          Launch(t, s) /\ Remember(IF s \in disturbed THEN disturbed \cup {t} ELSE disturbed)

Spec == Init /\ [][Next]_vars

-----------------------------------------------------------------------------
(* Properties.                                                             *)

Quiet == \A t \in Threads : pc[t] = "idle"

(* "All same 2lds go to the same resolver": any two lists that lookups of  *)
(* one domain were sent to agree as far as they go (a list of one may have *)
(* been extended in between; one without any stays empty).                 *)
SameResolvers(d) ==
    \A l1, l2 \in used[d] :
        /\ \A k \in DOMAIN l1 \cap DOMAIN l2 : l1[k] = l2[k]
        /\ (l1 = <<>>) <=> (l2 = <<>>)
SameDomainSameResolvers == \A d \in Domains : SameResolvers(d)

(* That holds for every domain two of whose lookups have never drawn a     *)
(* list at the same time, whatever the lookups of other domains do, to the *)
(* shared array as well.                                                   *)
SameResolversUnlessContended == \A d \in Domains \ contended : SameResolvers(d)

(* Once a domain's list has two resolvers and no lookup of that domain is  *)
(* between its read and its write of ResolverMapping, the list is final,   *)
(* however many lookups follow, in whatever order.                         *)
Settled(d) ==
    /\ mode = "private"
    /\ Known(d)
    /\ Len(mapping[d]) = 2
    /\ \A t \in Threads : Undecided(t) => domain[t] # d
SettledForGood(d) == Settled(d) => Settled(d)' /\ mapping'[d] = mapping[d]
MappingSettles == [][\A d \in Domains : SettledForGood(d)]_vars

(* "To randomize the list of resolvers each time": between lookups the     *)
(* shared array still holds every resolver.                                *)
PoolComplete == Quiet => Names(pool) = Resolvers

(* Without the append of race mode, and until a store of one unlocked      *)
(* shuffle has come into a swap of another, a resolver is missing from the *)
(* array only between the two stores of a swap, and is in the hands of the *)
(* lookup that swaps.                                                      *)
InHand == {swap[t].atI : t \in {s \in Threads : pc[s] = "storeJ"}}
PoolCompleteUnlessCollision == mode # "race" /\ ~collided => Names(pool) \cup InHand = Resolvers

(* "Only race when shard resolver is in high spread resolver list": of two *)
(* resolvers that are raced the first is a high-spread one, the second one *)
(* of the best.                                                            *)
RaceRule(t) ==
    mode = "race" /\ pc[t] = "ask" /\ Len(pick[t]) = 2 =>
        pick[t][1] \in HighSpread /\ pick[t][2] \in BestOfConfig

(* The array is read again after the decision, unlocked.  Every lookup     *)
(* keeps to the rule beside which no other has been about to store.        *)
RaceRuleUnlessDisturbed == \A t \in Threads \ disturbed : RaceRule(t)

(* A name that is not found in the array would be asked at the empty       *)
(* address, port 53, which is this very program.  A lookup, or a goroutine *)
(* it has launched, finds every name unless another one has stored during  *)
(* it; with privacy, where the name was chosen earlier, unless swaps have  *)
(* collided before, or the best list names a resolver that is not there.   *)
AboutToMiss(t) == pc[t] \in {"seek", "doh"} /\ at[t] = Size /\ pool[Size] # name[t]
FoundUnlessDisturbed ==
    \A t \in Threads \ disturbed :
        AboutToMiss(t) => Private /\ (collided \/ name[t] \notin Resolvers)
=============================================================================
