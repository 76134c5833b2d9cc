# Onoma / Namehelp: formal models

This directory models Namehelp, the local DNS proxy of this repository
(`src/src/namehelp`, Go), in TLA+. The modules are model-checked with TLC on small
instances and the main safety properties are proved with TLAPS for every value of the
constants. Line numbers below are those of the repository's files.

## 1. Inventory of the system

Namehelp points the operating system at itself (127.0.0.1:53), answers from a
hosts file or a cache, and otherwise asks public resolvers over plain DNS, DoH
or oDoH: one at random, several in a race, or, for privacy, a fixed pair per
second-level domain mixed with cover queries.

| component | source | state | operations | what is hard | what makes it correct |
|---|---|---|---|---|---|
| racing lookup | `resolver.go` 60-336, 436-765 | result channel (capacity 1), WaitGroup, one goroutine per resolver and per cover query, waiter, reaper | launch, poll, select, wait, collect, exchange, try-send, Done, close | answers, refusals and hangs in any order; close after return | returns as soon as there is an answer; the error only if nobody answered; no send on the closed channel; nothing leaks |
| resolver choice | `resolver.go` 414-430, 465-627 | `Client.Resolvers` (shared, unlocked), `ResolverMapping` (locked per access) | Shard, read/extend/write a domain's list, decide to race | concurrent shuffles; check-then-act on the mapping; `append` into a shared array | the same resolvers for a domain; no resolver lost; race only as configured |
| direct lookup | `resolver.go` 43-58, 338-412 | channel, WaitGroup, helper goroutine | exchange, tick, 300 ms timeout | timeout against late answer; leaked helper | returns in bounded time; an answer in time is not lost |
| message cache | `cache.go` | `Backend`, RWMutex | Get, Set, Remove, Exists, Length, Full | check-then-act in Set; expiry | bounded; refuses only when full; serves nothing expired |
| query handler | `handler.go` 351-1123 | positive and negative cache, `doID`, flags | PerformDNSQuery, direct CNAME resolution, cacheAnswer, checkCache | messages shared by pointer between cache and replies; several upstream calls, each of which may fail | a reply answers its own question; a cached entry stays what it was |
| lifecycle | `namehelp.go` 152-428, 1133-1266, `utils.go` 303-364 | signal and stop channels, `ipInfo.json`, goroutines for servers, monitor, config test, heartbeat | run, Stop, monitor, launch, config test | blocking sends, goroutines that return early, start order | a signal ends the program with the configuration restored; no query meets a handler without its maps, unless a crash has left the system pointing here |
| system DNS configuration | `namehelp.go` 853-1131 | resolver lists of the interfaces, saved copy, `resolv.conf` | save, set, restore | several interfaces, one failing; crash between set and restore | restore gives back what save saw |
| hosts file | `hosts.go` | table, RWMutex | Get, Refresh | unreadable file; refresh under queries | the last complete table is used |
| priority queue | `priorityqueue.go` | heap array and index fields | Push, Pop, Update, TrimLowestItems | indices after a trim | heap order; highest priorities survive a trim |
| server selection | `parsepublicdns.py` | candidate and best lists, config file | select, measure, configure | random choice until enough; partial measurements | terminates; only measured resolvers are best ones |
| experiments | `namehelp.go` 605-851, `handler.go` 1125-1290 | mode flags, statistics | doMeasurement, latency tests | flags change under running queries | - |
| reporter, fetcher, RPC operator, network, settings, updater | own files | none to speak of | uploads, queries, enumeration | network I/O | - |

How they interact: a DNS server goroutine calls `handler.do`, which calls
`PerformDNSQuery` (cache, hosts, then `Resolver.Lookup`) in a goroutine per
query. All queries share one handler, one `MemoryCache`, one
`Client.Resolvers` and one `ResolverMapping`; `LookupAtNameservers` first
chooses resolvers out of the last two (ResolverPool) and then races them
(LookupRace). `main` starts the servers and the monitor; the monitor and the
signal handler end them through channels. The Python script writes the file
from which race mode reads `high_spread` and `best_resolvers`.

## 2. Modules

| module | what it is |
|---|---|
| `RaceContract` | abstract: what a lookup promises its caller (comment at `resolver.go` 432-435) |
| `LookupRace` | one call of `LookupAtNameservers` after the choice of resolvers, with all its goroutines; implements `RaceContract` |
| `LookupRaceProofs` | TLAPS proofs for `LookupRace` |
| `ResolverPool` | the choice of resolvers by concurrent lookups |
| `ResolverPoolProofs` | TLAPS proofs for `ResolverPool` |
| `MemoryCache` | the cache under concurrent Set, Get, Remove |
| `MemoryCacheProofs` | TLAPS proofs for `MemoryCache` |
| `QueryHandler` | queries served concurrently from hosts file, cache, upstream and direct resolution, with messages shared by pointer |
| `QueryHandlerProofs` | TLAPS proofs for `QueryHandler` |
| `OverlapProofs` | TLAPS proofs of what a lookup of `ResolverPool` may rely on while no other one stores |
| `TimedLookup` | abstract: what a lookup at one nameserver promises its caller |
| `DirectLookup` | `LookupAtNameserver` and `waitTimeout`, several calls in sequence; each implements `TimedLookup` |
| `DirectLookupProofs` | TLAPS proofs for `DirectLookup` |
| `DnsConfig` | the system's DNS configuration and what save, set and restore do to it, on three platforms |
| `Lifecycle` | the program from start to end, over crashes and restarts; composed with `DnsConfig` |
| `LifecycleProofs` | TLAPS proofs for `Lifecycle` and `DnsConfig` |
| `HostsTable` | the hosts file, its table, the goroutine that refreshes it and the goroutines that ask it |
| `HostsTableProofs` | TLAPS proofs for `HostsTable` |
| `MC*` | instances for TLC |

Definitions named as mutants in their comments (for example `AllButOneDone`
beside `AllDone`) are not part of the models. Each is a plausible bug of the
code; putting it in the place of the definition it stands beside makes one of
the properties fail, which shows that the property depends on that line.

### LookupRace

State: `main` is the program counter of the calling goroutine (loop, poll,
select, wait, collect, or returned), `launched` the loop index, `waitGroup` the
counter, `resultChannel` the buffered message (a message is the position of the
resolver that sent it), `worker[r]` the goroutine of resolver r, `reply[r]` what
its exchange ended with, `inserted[r]` its cover queries under way, `waiter` and
`reaper` the two helper goroutines. `call` is the input: number of resolvers,
which of them is this host, whether the question is a user-defined unique
website (oDoH), `Racing`, and whether there are cover queries.

Actions: `Launch` and `SkipSelf` are an iteration of the loop (637-701;
656-658), `PollAnswer`/`PollEmpty` its select (704-713), `EndLoop` the branch on
Racing (717/741), `SelectAnswer`/`SelectFinished` 730-740, `WaitAll` 745,
`CollectAnswer`/`CollectNothing` 751-764. `Exchange`, `Send`, `Finish` are the
three routines, which differ in what they forward (`Forwarded`) and in where
they defer Done (`AfterExchange`): the oDoH routine returns on an error before
the defer, and such a worker is "lost". `WaiterSignals` is 722-725,
`ReaperCloses` 458-459. A send on the closed channel is a state ("panicked"),
so that its absence is a property and not an omission.

Abstracted: message contents (a reply is a success, another failure code, SERVFAIL
or an error), logging, the ticker (created at 463 but never received from: the
comment "Starts a new request on every interval tick" describes nothing the
code does). A nil reply without an error is not modelled.

### ResolverPool

State: `pool` is `Client.Resolvers`, `mapping` is `ResolverMapping`, and per
goroutine its control state, its domain, the swap its shuffle is in (`swap`: the
positions and what was loaded from them), how far its scan of the array has got (`at`),
the name it scans for (`name`) and its local `resolvers` (`pick`). `mode` is the
combination of handler flags, `best` is `BestResolvers`, which comes from a file and may
name resolvers that are not in the array (`Others`).

Every load and every store of one element of the array is a step. A swap of
`rand.Shuffle` (421) is four of them, `LoadAtJ`, `LoadAtI`, `StoreAtI`, `StoreAtJ`; the
scans for a list (`DrawOne`, 553-569 and 522-527), for the best resolver (`SearchBest`,
609-614), for an address (`Seek`, 641-646; `SeekDoH`, 262-267, in the goroutine that
`Launch` starts and that may outlive the lookup) read one element each; `Collect` is one
turn of the loop at 618. `AppendBest` is the `append` at 611, which writes into the
shared array because its first argument is a slice `[:1]` of it. An access to the
mapping under the mutex is one step. An element has several words; that half of one
could be read is not modelled, but a lookup that might do so counts as disturbed.

Four variables are history: `used`, the lists that lookups of a domain were sent to;
`contended`, the domains two of whose lists were drawn at the same time; `collided`,
whether a store of one goroutine was ever due while another was within a swap;
`disturbed`, the lookups under way beside which another one was about to store (a
goroutine launched by a disturbed lookup is disturbed). The properties
`...UnlessContended`, `...UnlessCollision` and `...UnlessDisturbed` say what holds
of the others. `disturbed` is about one lookup, not about the whole past: whatever
lookups did before or do to each other, the next one that nobody stores beside
keeps the race rule.

### MemoryCache

`Set` is the sequence of its critical sections: `CheckFull`, then `Refuse` or
`Exists`, then `Stamp` (the expiry is computed outside the lock), then `Write`.
`Get` and `Remove` are one step each. An entry is its expiry time; what message
it carries is the business of the query handler. `removed` is a history
variable. `Remove` is part of the `Cache` interface and is modelled, though the
program calls it nowhere.

### QueryHandler

A `*dns.Msg` is an id and a body. A shallow copy has an id of its own and the body of
the original: question slice and records. `bodies` is the heap of those, `cache` maps
names to messages, and each goroutine has the `query` it serves, its `answer` and the
`reply` it has just packed. The control states follow `do` (810-843), `PerformDNSQuery`
(357-571) and `doSimpleDirectResolutionOfCname` (573-808): hosts file or not, hit or
miss, the lookup with its three outcomes, direct resolution at a given server or by way
of an NS query (the look into the cache, `CNameHit` or `CNameMiss`, the lookup,
`DirectAnswers`, and the entry into the cache, `KeepDirectAnswer`, are steps of their
own), the two steps of renaming, the packing of the reply, and `cacheAnswer`.
`DirectFails` is the error of any lookup on the way. A direct lookup that comes back
with an NXDOMAIN, a REFUSED or nothing is no error (`DirectReplies`). `LookupIds` is the
id a reply comes with: that of the query, but any id for a `Unique` name, for which
oblivious DoH is given a name and a type only (`resolver.go` 68, 150). Direct resolution
consults the cache even when caching is disabled (611, 753), as the code does.

Three abstractions. A name stands for a question of one type, so IP versions are
left out. Of a message only the name in the question, the owner of the records
and the name whose addresses they hold are kept. The result of a lookup is any of
those `LookupRace` allows, an error, nothing, or an answer for the name; an
upstream server that lies is not modelled. Bodies nobody can reach are blanked,
which stands for garbage collection.

### DirectLookup

State, per call: `main` is the caller's control state (select, wait, collect,
returned), `timedOut` the result of `waitTimeout`, `resultChannel` whether the
channel of capacity one is full, `waitGroup` the counter, `worker` and `reply` the
goroutine `routine_DoLookup` and what its exchange ended with, `helper` the
goroutine of `waitTimeout` (46-50).

Actions: `RefuseSelf` is 341-347, `Begin` 356-385, `EarlyAnswer` and `Tick` are the
select at 376-385, `Signalled` and `Timeout` the one at 52-57, `CollectAnswer` and
`CollectNothing` the one at 398-411. `Exchange`, `Send`, `Finish` are the worker,
`HelperWakes` the return of `Wait`. The helper's channel has no buffer, so its send and
the caller's receive are one step; a helper whose call has timed out stays in "sending",
or in "waiting" if the exchange hangs, for ever. `Over` says that this, and nothing
else, may be left.

The calls of one goroutine come in sequence, as direct resolution makes them
(`handler.go` 521, 788), while leftovers of earlier calls run on.

### DnsConfig and Lifecycle

`DnsConfig` holds the operating system's state: `servers` for each interface and
IP version (darwin, windows) and `resolvConf`, the lines of the file (linux), and the
program's copy `saved`. `os` is fixed at the start. `Save` is
`saveCurrentDNSConfiguration`: of the three platforms only darwin really asks,
the others "save" the constant 127.0.0.1 (971-977), which the loop at 991 skips.
`SetCommand` is one iteration of `setDNSServer` by a command (darwin, or half of one on
windows), `PrependFile` one on linux; `RestoreCommand` and `RestoreFails` are one
iteration of `restoreOldDNSServers`, `BeheadFile` is its linux branch. A write of
`resolv.conf` is two steps: `OpenFile` reads it and empties it (`O_TRUNC` of
`ioutil.WriteFile`), `WriteFile` writes, all of it or, on an error, the lines it got to;
`OpenFails` changes nothing. In between the lines are in `newData` only. `todo` is what
the loop under way has left, in any order, because Go's maps have none.
`saved`, `newData` and `todo` are memory of the process and end with it (`Forget`).

`Lifecycle` says when these happen. `main` is the goroutine of `main` (inside
`service.Run`, then at `<-shutdownChan`, then cleaning up), `stopper` the goroutine of
`Stop` (155-160), `run` the control state of `run`, `launchNamehelpDNSServer` and
`runOnoma`, `monitor` the goroutine at 207-227; `polling` and `running` count the
goroutines `runConfigTest` before and after their select. `ipFile` and `serversFile` are
files that outlive the process, `orphans` counts the scripts of config tests that do.
`serving` is "launched" from the go statements at 408-409 and "listening" once
`ListenAndServe` has its socket (`Listen`), in a goroutine that nothing else waits for.
`asking` and `writers` are the queries in race mode that find no `ipInfo.json`
(`resolver.go` 595) and ask for the address or write it; `NewHandler` does the same
(`handler.go` 165), but `run` has just made sure of the file then. Once `main` has
removed the file (1248) any of them and the monitor may write at the same time
(`FileWritten`).

An unbuffered send and its receive are one action: `StopperSends` (159 with 229),
`Report` (238 with 247), `TestIsStopped` (221 with 243). `signal.Notify` on an
unbuffered channel delivers only to a goroutine that is receiving at that moment, hence
the choice in `Signal`; the service library, which waits for the same signals in `Run`,
calls `Stop` as well. `Crash` is any end of the process without a restore: a kill, a
panic, `log.Fatal` in `setDNSServer`, in the restore on windows or in `startDNSServer`.
`EarlyQuery` is the write to a nil map at `handler.go` 485; it needs a server that
listens, a system that points here and maps that `InitHandler` has yet to make. `Start`
after a crash finds the system as the crash has left it: `before` is a history variable
for what a start has found.

Abstracted: server lists are sets; `iwconfig` and the like yield any set of interfaces,
of those `Listings` has for the platform; the maps that are made one after the other at
410-428 are made in one step; a write of `ipInfo.json` after its removal may be left
incomplete even if it was the only one.

### HostsTable

`table` is the map of `FileHosts`, `writer` the control state of the refreshing
goroutine, `reading` and `read` the open file and how far it was scanned; `pc`, `asked`
and `found` belong to the handler's goroutines. `OpenFails`, `Open`, `CallLock` (readers
still come until then), `LockAndClear`, `ScanLine` (one line), `Unlock`, `Tick` are
`Refresh` and its loop; `Ask`, `Read`, `RUnlock` are `Get` and then the choice of the
address family (50-60). `ScanFails` is the end of a scan by an error, which the code
does not look at. The user's `Replace` and `Overwrite` are external: the first leaves an
open reading what it was, the second may change it under way. `torn`, `loaded` and
`whole` are history variables: whether a reading has missed or mixed anything, and the
file of the last reading that ended.

Go's RWMutex lets a waiting writer go before new readers, which is the guard of
`Ask`; without it `TableSettles` would not hold. A line is the address and the domain it
ends in, with `NoDomain` or `NoAddress` for what the two checks refuse.

## 3. Runs

| run | instance | shows |
|---|---|---|
| `race_safety` | up to 3 resolvers, one of them possibly this host, one cover query each, both question kinds, Racing on and off; exchanges may hang | types, exact WaitGroup, no send on the closed channel, honest error, no overwritten answer, early return, refinement of `RaceContract`; nothing blocks but what a missing Done holds up, and every step brings the call nearer its end |
| `race_liveness` | up to 3 remote resolvers, plain DNS or DoH; exchanges end | every call returns, no goroutine is left; no deadlock |
| `race_odoh` | 2 resolvers, oDoH | VIOLATED: the call need not return |
| `pool` | 2 goroutines, 3 resolvers and a name that is none of them, 1 domain, all modes | what one lookup may rely on: the same resolvers for a domain unless two drew at once, a pool in which only what a swap has in hand is missing, the race rule and every name found unless another lookup stores meanwhile; any interleaving: settled lists are final |
| `pool_mapping` | 2 goroutines | VIOLATED: one domain, two different lists |
| `pool_append` | 1 goroutine | VIOLATED: race mode loses a resolver from the pool |
| `cache` | 2 goroutines, 3 keys, limit 0 or 1, one clock tick | types, bounded overshoot, refusals justified |
| `handler` | 2 goroutines, 2 client ids, a site, its CNAME (a unique website) and a name in the hosts file, all asked for; default settings and everything off | ids of replies except to oblivious lookups, addresses, names except behind a shared CNAME |
| `handler_shared` | 1 goroutine, 2 sites behind one CNAME | VIOLATED: a reply bears the other site's name |
| `direct` | 2 calls in sequence, each of which may go to this host, hang, or end in any way | every call returns, by its timeout if need be; an error in time is honest; helpers leak only by timeouts; each call implements `TimedLookup`; nothing deadlocks |
| `lifecycle` | 3 platforms, 2 interfaces, 2 servers, 2 starts, 2 signals, 1 network switch and 1 query for the address per start; on linux at most one interface | a clean stop gives the configuration back; a query kills a program whose maps are missing only if an earlier process has left the system pointing here; one config test at a time; what the program has overwritten it can put back as long as it lives, and what a crash takes with it; who writes `ipInfo.json` and when it can be torn; no signal is lost and each ends the program |
| `hosts` | 2 readers, 2 domains, addresses of both families, 3 files, 2 edits | lookups see the whole of one file; the table settles to the file that stays; nothing deadlocks |

Bounds. Three resolvers give a winner, a loser that finds the channel full, and a third
still under way when the call returns and the reaper waits; the code's lists have at
most two entries besides the stored best ones. Two goroutines are enough for each race
between a read and a write of the pool or the mapping, and one of them can be launched
by the other, which returns; three resolvers are the fewest from which two can be drawn
in different ways. Domains meet only in the shared array, which a second lookup of the
same domain shuffles as well, so TLC takes one (two with three resolvers are too many
states); the theorems are for any number. `gone` is in the best lists and not in the
array. The run uses the symmetry of goroutines and of the two high-spread resolvers; its
one temporal property is a property of steps, for which that is sound. Two goroutines
and a limit of one are the smallest cache with an overshoot. For the handler, two
goroutines with two ids meet in each read and rename of a cached body; a site and the
CNAME behind it share bodies, the third name tells addresses apart. Six bodies are one
for each cached name, one for each goroutine and one being made. The run uses the
symmetry of goroutines and ids; it checks invariants only. `InsertionFactor` is 1 for
TLC (3 in the code): cover queries touch nothing, which `WaitGroupExact` would notice.

Two direct calls suffice to have the leftovers of one under another; calls share no
channel. Two starts are a crash and what the next start makes of it; a third would begin
in the states the second one did. Two interfaces are one that fails beside one that does
not, and on windows halves of two. One network switch is enough for the monitor to send
while the first config test polls, runs or is over, and to start a second. Two signals
are one for the library and one for `signalChannel`, in either order. One query and the
monitor are two that write `ipInfo.json` at once. On linux one interface or none is
listed (`Listings`): each one only puts two more lines into the same file. Three hosts
files (with a line overruled, with lines to skip, and with an IPv6 address) and two
edits let one edit fall into a reading and the other after it. The theorems are for any
number of all of these.

Fairness. `LookupRace!Spec`: weak fairness of every goroutine, which is what Go's
scheduler gives a goroutine that can run, and of `Exchange`, since `dns.Client` has
dial, read and write timeouts (446-450). `SlowNetworkSpec` leaves the fairness of
`Exchange` out; `EarlyReturn` is checked under it, because an answer must end the race
without help from the other exchanges. The violation of `LookupReturns` is found under
the fair `Spec`. `CHECK_DEADLOCK FALSE` is set where a lost worker stops the call
(`race_safety`, `race_odoh`); `race_liveness` checks deadlock, with `Over` as the only
state a call may rest in. `DirectLookup!Spec` assumes that goroutines run and timers
fire, and nothing of the exchange. `Lifecycle!Spec` assumes that what `run`, `Stop` and
`main` can do they do, which includes that the commands they start end; nothing of the
http query for the public address (`http.Get` has no timeout), of the monitor, or of the
user. `Stop` waits in a loop for the channel that `run` makes (156) and reads it without
synchronisation; that the loop ever sees the write is assumed with the fairness of
`StopperSpins`, which the language does not promise. Its run does not check deadlock,
since the program may wait for ever for the server list or that query. `HostsTable!Spec`
assumes that the refreshing goroutine, its ticker, and readers inside `Get` go on;
nothing makes readers come or users edit.

## 4. Disagreements between code and comments

1. `race_odoh`: `routine_DoLookup_oDoH` returns at 71 before its
   `defer waitGroup.Done()` at 74. The lookup, or its reaper, waits for ever.
   A resolver at 127.0.0.1 (656-658, `continue` after `Add(1)`) has the same effect.
2. `pool_mapping`: "all same 2lds go to the same resolver" (477) does not hold
   for concurrent first lookups of a domain.
3. `pool_append`: race mode overwrites the second entry of `Client.Resolvers`.
4. `handler_shared`: the renaming at 559-562 writes through a message that is in
   the cache under the CNAME (799), so the next name behind that CNAME renames the
   cached reply of the first; "make sure the question and node names match the
   original query" (557) fails for hits of the first name.

Met while modelling, and without a run, because no comment or test says otherwise
or because a property above leaves the case out and says so:

- `resolver.go` 68, 150: for a unique website the reply has the id of the oblivious
  response, and `do` writes it as it is (`handler.go` 826). Elsewhere the handler copies
  messages to "maintain same ID so requestor can match replies to queries" (582).
  `IdsMatchUnlessOblivious` leaves these replies out.
- `handler.go` 553-564: `no error, so use "better" answer` (554) puts an NXDOMAIN, a
  REFUSED or an empty reply in the place of an answer with addresses.
- `resolver.go` 605, 618: "only race when shard resolver is in high spread resolver list"
  (606): the first element is judged at 605 and read again at 618, while other lookups
  may shuffle. `RaceRuleUnlessDisturbed` leaves those lookups out.
- `cache.go` 73-91: `Get` never compares the expiry time that `Set` computes; entries are
  served until the program ends, and the `Expire` setting has no effect.
- `namehelp.go` 1094-1116: on linux restore drops the first line, once. `set` puts two
  lines in front for each interface, so a "#" stays; with two interfaces 127.0.0.1
  stays; with none, or after a failed write, the user's own first line is lost. After a
  crash and a clean run the crash's 127.0.0.1 is still there. A crash while the file is
  open loses its lines.
- `namehelp.go` 200: on darwin the user's servers are saved in memory only. After a
  crash the next start finds 127.0.0.1 alone and "restores" an empty list.
- `namehelp.go` 1117-1126: on windows the IPv4 list goes back to DHCP, whatever it was,
  and ::1 is never removed from the IPv6 list.
- `namehelp.go` 221: a config test polls `stopConfigSignalChan` once, before it starts the
  script. A monitor that sends after that blocks for good.
- `utils.go` 357 and `namehelp.go` 179-182: a crash during the write of `ipInfo.json`
  (a write that fails is one: nil is returned without an error and dereferenced) leaves
  a file that does not parse; the next `run` returns, after which `Stop`'s goroutine
  blocks in its send and signals no longer end the program.
- `hosts.go` 54: an IPv4 entry asked for by AAAA yields its IPv4-mapped address.
- `hosts.go` 112: a line over 64 KiB, or a read error, silently ends the table there.

## 5. Proofs

All theorems are of the form `Safe => []P` or `Spec => []P` (or an action
property), from the assumptions named `...Assumption` in the modules.

- `LookupRaceProofs`. The invariant of the proof adds to the types: the exact
  counter; `LaunchOrder` (resolvers are launched in order, so workers beyond
  `launched` are idle) and `LaunchOver` (once the loop is left all are launched);
  `Settled` (a finished waiter or a closed channel means that the counter is zero,
  for good, because nothing is launched any more); `MessagesReal` and
  `FirstAnswerKept` (a message in the channel or result is a forwarded reply, and
  if any worker has passed its send then the channel or the result holds one).
  The last one is why the error is honest: `ErrorMeansNoAnswer` alone is not
  inductive. Refinement: `Send` with a forwarded reply is `Answer`, an exchange
  that leads straight to Done is `Refuse`, the three ways of `ReturnAnswer` are
  `Return`, `CollectNothing` is `Fail`, everything else stutters.
  Termination itself is TLC's, but its two safety halves are theorems.
  `OnlyTheNeverDone`: when no goroutine of the call can take a step, the call has
  returned and its channel is closed, exactly if none of its workers is one that
  never calls Done (`EndInv` ties the waiter and the reaper to the counter and the
  channel). `StepsUsedUp`: each part goes through numbered stages, a step advances
  one and turns none back, so no call goes on for ever; nor does a step overwrite
  the answer in the channel (`AnswerStays`).
- `ResolverPoolProofs`. Types need `SwapBounded` and `PickBounded` (a list that is
  about to be drawn or extended has room), `NameFound` (a name that goes into the array
  was read there) and `ModeFits`. A step of one goroutine leaves the others'
  variables alone (`StepLeaves`, `OthersKeep`). `MappingIsFinal` then goes action
  by action: only `WriteMapping` touches the mapping, and a writer of a settled
  domain would have to be undecided.
- `MemoryCacheProofs`. Counting the goroutines between check and write is not
  inductive, because one that was let in since its key exists adds to the count
  of a full cache. The invariant `Room` bounds the *set* of keys that are stored or
  about to be written, which only a successful check of `Full` can enlarge.
- `QueryHandlerProofs`. Types, `IdsMatchUnlessOblivious`, `RightAddresses` and
  `RepliesMatchUnlessShared`. That a goroutine's answer holds the right addresses is
  not inductive by itself, since other goroutines write to the same body and the
  answer may come from the cache. The invariant `Addressed` says it of every
  message that is cached under a name or held for one. A new message takes only
  a body nobody can reach (`NewMessageDisturbsNobody`), a hit on the CNAME is
  right for the query because `Target` is idempotent, and renaming leaves `data`
  alone. `Control` ties what a goroutine holds to its control state.
  `RepliesMatchUnlessShared` needs to know who may rename a body: bodies are shared
  only between names with one target (`SharedWithin`) and renamed only by
  goroutines whose query is redirected (`Redirecting`), so whoever renames what is
  cached or held for a name with a target of its own asks for that name. `Matched`
  is then inductive.

- `OverlapProofs`. For any number of goroutines. What `Remember` keeps is put to use
  first: until a collision nobody stores while another is within a swap (`Apart`), and
  nobody stores beside a lookup that is not disturbed (`Alone`). So a swap stores what
  is still in place (`FreshSwap`), and outside race mode the array and what one swap has
  in hand are all the resolvers (`Full`). `RaceInv` follows the two names of a race from
  the decision to the question: `append` puts the best one in the second place of the
  array, where it is collected. `SoughtInv` says that the names to ask are in the array
  and that a scan has not passed the one it looks for; both hold of a lookup from its
  own beginning, as `disturbed` forgets it when it returns. For a domain that is not
  contended at most one lookup draws (`OneDrawing`), whatever the others do to the
  array. `MapInv` relates what a lookup has in hand to what is stored: the domain's
  first list, or one that goes on from the one stored (`Extends`, which is transitive);
  `UsedInv` says that what is stored goes on from all that the domain's lookups were
  sent to.
- `DirectLookupProofs`. The counter is tied to the worker (`waitGroup[c] = 1` exactly
  while it is under way), the channel to the worker and the caller (a forwarded reply
  that was sent and not taken is in the channel), the helper to the caller. With that an
  error without a timeout is honest, and each action maps to a step of `TimedLookup` or
  to a stutter.
- `LifecycleProofs`. `CleanStopGivesBack` needs, for each control state of `run`, what
  has become of each interface: still as found, set to this host, or given back
  (darwin); how many lines were put in front (linux); all of it relative to `before`.
  `AtMostOneConfigTest` needs that a resting monitor, which will start a test, has none
  beside it. `NilMapOnlyAfterCrash` needs that nothing was set before `run` has passed
  `init` (`Untouched`, `ReadyBeforeSave`), whenever the servers begin to listen, and
  that the user's own configuration does not point here (`FirstStart`).
  `NothingLostBeforeRestore` joins what was saved (`Kept`) with what `set` has done
  (`OnlyThisHostAdded`), both as long as the process lives; on linux the lines in front
  are seen to leave the end of the file, or of what it is to hold, alone
  (`PrependedEndsIn`), for any number of interfaces. `TornFileIsBeingWritten` needs that
  run and the monitor never write at the same time, that queries find the file until
  main removes it, and that the first start finds no torn file (`WriterInv`);
  `NoLostSignal` that Stop is under way from the first signal until run has received
  (`SignalInv`).
- `HostsTableProofs`. While the lock is free the table is that of `loaded`; while
  it is held it is that of the first `read` lines of `reading`, from which one more line
  makes the table of one line more (`StoreLine`). Readers inside `Get` exclude
  the writer.

Model-checked only: liveness (`LookupReturns`, `NothingLeaks`, `EarlyReturn`,
`ReturnsInTime`, `SignalEndsProgram`, `TableSettles`), which is out of the prover's
reach. Every other property the passing runs check is also a theorem.

## 6. Not modelled

- The reporter, the database fetcher, the RPC stub, network enumeration, settings,
  updater, build script and plots: I/O without state of their own.
- The measurement experiments (timed sequences of queries that write files) and
  experiment mode of the lookup, where the caller gives the list.
- The priority queue: no package of the program imports it.
- The server selection script: a sequential program that downloads, measures and
  draws at random. `Lifecycle` models its start and end, `ResolverPool` its output.
- The heartbeat, installing and removing the service, `--cleanup`.
- Of the DNS configuration: the order of servers, the tools' output formats, and other
  programs that write it while this one runs.
- Elements of `Client.Resolvers` that are read while another goroutine has stored half
  of them.
- `ObliviousDnsRequest`, which is vendored: its reply has some id.

Worth doing next: the composition of the handler with `HostsTable`, whose answers
are an input of `QueryHandler` now.
