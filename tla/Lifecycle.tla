------------------------------ MODULE Lifecycle ------------------------------
(***************************************************************************)
(* The program from start to end, over several starts: main, the service   *)
(* library that calls Start and Stop, run and what it starts, and what all *)
(* that leaves behind in the system (DnsConfig) and on the disk.           *)
(*                                                                         *)
(*   main     "service" inside service.Run, "waiting" for shutdownChan     *)
(*   stopper  the goroutine of Stop, which sends on signalChannel          *)
(*   run      program.run, launchNamehelpDNSServer and runOnoma            *)
(*   monitor  the goroutine of runOnoma that watches the public address    *)
(*   polling, running  the goroutines runConfigTest                        *)
(*   asking, writers   the goroutines of queries that want the address     *)
(***************************************************************************)
EXTENDS DnsConfig

CONSTANTS
    MaxStarts,     \* bound on the starts of the program
    MaxSignals,    \* bound on the signals per start
    MaxQueries,    \* bound on the queries that want the address at a time
    MaxSwitches,   \* bound on the changes of the public address per start
    UserConfigs,   \* the configurations a user may begin with
    UserPlatforms, \* the platforms they are for
    Listings       \* the interfaces that listing them may find on each

ASSUME BoundsAssumption ==
    /\ MaxStarts \in Nat /\ MaxSignals \in Nat
    /\ MaxQueries \in Nat /\ MaxSwitches \in Nat
ASSUME UserAssumption ==
    /\ UserPlatforms \subseteq Platforms
    /\ Listings \in [Platforms -> SUBSET (SUBSET Interfaces)]
    /\ UserConfigs \subseteq
          [servers : [Interfaces \X {"v4", "v6"} -> SUBSET Servers],
           resolvConf : Seq(Servers)]

VARIABLES
    main, stopper, run,
    monitor,
    polling,       \* config tests that are about to poll
    running,       \* config tests that run the script
    orphans,       \* scripts that earlier processes have left running
    serving,       \* the DNS servers: "off", "launched" or "listening"
    asking,        \* queries that ask for the public address
    writers,       \* queries that write it to ipInfo.json
    initialised,   \* have the handler's maps been made?
    ipFile,        \* ipInfo.json: "absent", "partial" or "good"
    serversFile,   \* is publicDNSServers.json there?
    before,        \* the configuration this start has found
    starts, signals, switches

processVars == <<main, stopper, run>>
helperVars == <<monitor, polling, running, orphans>>
queryVars == <<asking, writers>>
serverVars == <<serving, initialised, queryVars>>
fileVars == <<ipFile, serversFile>>
historyVars == <<before, starts, signals, switches>>
vars == <<configVars, processVars, helperVars, serverVars, fileVars, historyVars>>

Alive == main \in {"service", "waiting", "cleanup", "leaving"}
CurrentConfig == [servers |-> servers, resolvConf |-> resolvConf]

TypeOK ==
    /\ ConfigTypeOK
    /\ main \in {"off", "service", "waiting", "cleanup", "leaving", "exited", "dead"}
    /\ stopper \in {"off", "spinning", "sending", "done"}
    /\ run \in {"begin", "ipinfo", "writing", "returned", "launch", "init", "save",
                "set", "await", "restore", "report", "done"}
    /\ monitor \in {"off", "sleeping", "writing", "sending", "resting"}
    /\ polling \in Nat /\ running \in Nat /\ orphans \in Nat
    /\ serving \in {"off", "launched", "listening"}
    /\ initialised \in BOOLEAN
    /\ asking \in Nat /\ writers \in Nat /\ asking + writers <= MaxQueries
    /\ ipFile \in {"absent", "partial", "good"}
    /\ serversFile \in BOOLEAN
    /\ before \in [servers : [Interfaces \X {"v4", "v6"} -> SUBSET (Servers \cup {Here})],
                   resolvConf : Seq(Lines)]
    /\ starts \in 0 .. MaxStarts
    /\ signals \in 0 .. MaxSignals
    /\ switches \in 0 .. MaxSwitches

Init ==
    /\ os \in UserPlatforms
    /\ before \in UserConfigs
    /\ servers = before.servers /\ resolvConf = before.resolvConf
    /\ truncated = FALSE /\ newData = <<>>
    /\ saved = Nothing /\ todo = {} /\ failed = {} /\ fileFault = FALSE
    /\ main = "off" /\ stopper = "off" /\ run = "begin"
    /\ monitor = "off" /\ polling = 0 /\ running = 0 /\ orphans = 0
    /\ serving = "off" /\ initialised = FALSE
    /\ asking = 0 /\ writers = 0
    /\ ipFile \in {"absent", "good"} /\ serversFile \in BOOLEAN
    /\ starts = 0 /\ signals = 0 /\ switches = 0

-----------------------------------------------------------------------------
(* Starting and ending.                                                    *)

(* What there is of a process that begins, or that is gone: the scripts of *)
(* config tests may outlive it.                                            *)
NoProcess ==
    /\ stopper' = "off"
    /\ monitor' = "off" /\ polling' = 0
    /\ serving' = "off" /\ initialised' = FALSE /\ asking' = 0 /\ writers' = 0
    /\ signals' = 0 /\ switches' = 0

(* main, as far as service.Run, and Start, whose goroutine is run.         *)
Start ==
    /\ ~Alive
    /\ starts < MaxStarts
    /\ starts' = starts + 1
    /\ main' = "service" /\ run' = "begin"
    /\ NoProcess /\ Forget
    /\ running' = 0 /\ orphans' = orphans + running
    /\ before' = CurrentConfig
    /\ failed' = {} /\ fileFault' = FALSE /\ truncated' = FALSE
    /\ UNCHANGED <<os, servers, resolvConf, fileVars>>

(* The process is gone, and with it what it kept in memory; the system and *)
(* the disk stay as they are.  run says how far it has got.                *)
Die ==
    /\ main' = "dead"
    /\ NoProcess /\ Forget
    /\ UNCHANGED <<os, systemVars, failed, fileFault, run, running, orphans, fileVars,
                   before, starts>>

(* A kill, a panic, or a fatal error: of listing a server list (darwin),   *)
(* of a set command (darwin, windows), of a restore command (windows), or  *)
(* of a DNS server that cannot listen.  Nothing is restored.               *)
Crash == Alive /\ Die

(* A query that arrives when a server listens and the maps have not been   *)
(* made writes to a nil map.  The system sends some when its configuration *)
(* points here.                                                            *)
NilMapInReach == Alive /\ serving = "listening" /\ ~initialised /\ PointsHere
EarlyQuery == NilMapInReach /\ Die

(* The loop of restoreOldDNSServers; on linux there is none.               *)
ToRestore == IF os = "linux" THEN {} ELSE (DOMAIN saved) \X {"v4"}

(* runOnoma receives from signalChannel and begins to restore.             *)
Receive ==
    /\ run = "await"
    /\ run' = "restore"
    /\ todo' = ToRestore
    /\ UNCHANGED <<os, systemVars, saved, newData, failed, fileFault>>

(* SIGINT or SIGTERM.  The library, waiting in service.Run, calls Stop.    *)
(* signalChannel has no buffer: the signal itself gets there only if run   *)
(* is blocked in its receive at that moment, and is dropped otherwise.     *)
Signal ==
    /\ main \in {"service", "waiting"}
    /\ signals < MaxSignals
    /\ signals' = signals + 1
    /\ main' = "waiting"
    /\ stopper' = IF main = "service" THEN "spinning" ELSE stopper
    /\ Receive \/ UNCHANGED <<run, configVars>>
    /\ UNCHANGED <<helperVars, serverVars, fileVars, before, starts, switches>>

(* Stop's loop ends once run has made signalChannel.                       *)
StopperSpins ==
    /\ Alive
    /\ stopper = "spinning"
    /\ run # "begin"
    /\ stopper' = "sending"
    /\ UNCHANGED <<configVars, main, run, helperVars, serverVars, fileVars, historyVars>>

(* Mutant of the next definition: Stop, too, drops its signal when nobody  *)
(* is receiving.                                                           *)
StopperDrops ==
    /\ Alive
    /\ stopper = "sending"
    /\ stopper' = "done"
    /\ IF run = "await" THEN Receive ELSE UNCHANGED <<run, configVars>>
    /\ UNCHANGED <<main, helperVars, serverVars, fileVars, historyVars>>

(* The blocking send of Stop meets the receive of runOnoma.                *)
StopperSends ==
    /\ Alive
    /\ stopper = "sending"
    /\ stopper' = "done"
    /\ Receive
    /\ UNCHANGED <<main, helperVars, serverVars, fileVars, historyVars>>

(* The send on shutdownChan meets the receive of main.                     *)
Report ==
    /\ run = "report"
    /\ main = "waiting"
    /\ run' = "done"
    /\ main' = "cleanup"
    /\ UNCHANGED <<configVars, stopper, helperVars, serverVars, fileVars, historyVars>>

(* main removes ipInfo.json, which the monitor and queries may write       *)
(* again, and returns.                                                     *)
CleanUp ==
    \/ /\ main = "cleanup"
       /\ main' = "leaving"
       /\ ipFile' = "absent"
       /\ UNCHANGED <<configVars, stopper, run, helperVars, serverVars, serversFile,
                      historyVars>>
    \/ /\ main = "leaving"
       /\ main' = "exited"
       /\ NoProcess
       /\ UNCHANGED <<configVars, run, running, orphans, fileVars, before, starts>>

-----------------------------------------------------------------------------
(* run.                                                                    *)

RunGoes(from, to) == Alive /\ run = from /\ run' = to

(* signalChannel is made and registered.                                   *)
RunBegin ==
    /\ RunGoes("begin", "ipinfo")
    /\ UNCHANGED <<configVars, main, stopper, helperVars, serverVars, fileVars, historyVars>>

(* go program.runConfigTest, then runOnoma.                                *)
Launch(from) ==
    /\ RunGoes(from, "launch")
    /\ polling' = polling + 1
    /\ UNCHANGED <<monitor, running, orphans>>

(* GetPublicIPInfo finds the file of an earlier run.                       *)
ReadIpFile ==
    /\ ipFile = "good"
    /\ Launch("ipinfo")
    /\ UNCHANGED <<configVars, main, stopper, serverVars, fileVars, historyVars>>

(* A file that does not parse is an error, on which run returns: from here *)
(* on nobody receives from signalChannel.                                  *)
RunReturns ==
    /\ ipFile = "partial"
    /\ RunGoes("ipinfo", "returned")
    /\ UNCHANGED <<configVars, main, stopper, helperVars, serverVars, fileVars, historyVars>>

(* Without a file the address is asked for and written; WriteFile empties  *)
(* the file first.                                                         *)
QueryIp ==
    /\ ipFile = "absent"
    /\ RunGoes("ipinfo", "writing")
    /\ ipFile' = "partial"
    /\ UNCHANGED <<configVars, main, stopper, helperVars, serverVars, serversFile,
                   historyVars>>

IpWritten ==
    /\ Launch("writing")
    /\ ipFile' = "good"
    /\ UNCHANGED <<configVars, main, stopper, serverVars, serversFile, historyVars>>

(* If asking or writing fails, the error is dropped and ipinfo is nil.     *)
IpFails == Alive /\ run \in {"ipinfo", "writing"} /\ ipFile # "good" /\ Die

(* Until publicDNSServers.json is there, launch sleeps and polls           *)
(* signalChannel: a poll meets the blocked send of Stop only.  os.Exit(0). *)
PollSignal ==
    /\ Alive
    /\ run = "launch" /\ ~serversFile
    /\ stopper = "sending"
    /\ Die

(* From outside: the list of servers is put in place.                      *)
ServersFileAppears ==
    /\ ~serversFile
    /\ serversFile' = TRUE
    /\ UNCHANGED <<configVars, processVars, helperVars, serverVars, ipFile, historyVars>>

(* Mutant of the next definition: the maps are left to the first query.    *)
StartWithoutMaps ==
    /\ serversFile
    /\ RunGoes("launch", "save")
    /\ serving' = "launched"
    /\ UNCHANGED <<configVars, main, stopper, helperVars, initialised, queryVars, fileVars,
                   historyVars>>

(* go startDNSServer, for UDP and TCP.                                     *)
StartServers ==
    /\ serversFile
    /\ RunGoes("launch", "init")
    /\ serving' = "launched"
    /\ UNCHANGED <<configVars, main, stopper, helperVars, initialised, queryVars, fileVars,
                   historyVars>>

(* ListenAndServe of the first of them, in a goroutine of its own: at any  *)
(* time from then on, even after the configuration was set.                *)
Listen ==
    /\ Alive
    /\ serving = "launched"
    /\ serving' = "listening"
    /\ UNCHANGED <<configVars, processVars, helperVars, initialised, queryVars, fileVars,
                   historyVars>>

(* The handler's maps and flags are set after the servers were launched.   *)
InitHandler ==
    /\ RunGoes("init", "save")
    /\ initialised' = TRUE
    /\ UNCHANGED <<configVars, main, stopper, helperVars, serving, queryVars, fileVars,
                   historyVars>>

(* The interfaces found depend on the machine; none, when listing fails.   *)
SaveConfig ==
    /\ RunGoes("save", "set")
    /\ \E interfaces \in Listings[os] :
          /\ Save(interfaces)
          /\ todo' = interfaces \X Versions
    /\ UNCHANGED <<main, stopper, helperVars, serverVars, fileVars, historyVars>>

SetConfig(c) ==
    /\ RunGoes("set", "set")
    /\ SetCommand(c) \/ PrependFile(c)
    /\ UNCHANGED <<main, stopper, helperVars, serverVars, fileVars, historyVars>>

WriteConfig ==
    /\ RunGoes("set", "set")
    /\ WriteFile
    /\ UNCHANGED <<main, stopper, helperVars, serverVars, fileVars, historyVars>>

(* The loop is over: the monitor starts, and run waits for a signal.       *)
AwaitSignal ==
    /\ todo = {} /\ ~truncated
    /\ RunGoes("set", "await")
    /\ monitor' = "sleeping"
    /\ UNCHANGED <<configVars, main, stopper, polling, running, orphans, serverVars, fileVars,
                   historyVars>>

RestoreConfig(c) ==
    /\ RunGoes("restore", "restore")
    /\ RestoreCommand(c) \/ RestoreFails(c)
    /\ UNCHANGED <<main, stopper, helperVars, serverVars, fileVars, historyVars>>

RestoreOpens ==
    /\ RunGoes("restore", "restore")
    /\ BeheadFile
    /\ UNCHANGED <<main, stopper, helperVars, serverVars, fileVars, historyVars>>

RestoreDone ==
    /\ todo = {}
    /\ RunGoes("restore", "report")
    /\ \/ os # "linux" /\ UNCHANGED configVars
       \/ WriteFile
       \/ OpenFails /\ UNCHANGED todo
    /\ UNCHANGED <<main, stopper, helperVars, serverVars, fileVars, historyVars>>

-----------------------------------------------------------------------------
(* The monitor and the config tests.                                       *)

(* Every five minutes the address is asked for and written to the file.  A *)
(* query that fails changes nothing.                                       *)
MonitorQueries ==
    /\ Alive
    /\ monitor = "sleeping"
    /\ monitor' = "writing"
    /\ ipFile' = "partial"
    /\ UNCHANGED <<configVars, processVars, polling, running, orphans, serverVars,
                   serversFile, historyVars>>

(* A write of the public address ends.  A file that main has removed       *)
(* meanwhile stays away.  After the removal writes may overlap, and a      *)
(* longer answer may stick out from under a shorter one: which have        *)
(* overlapped is not kept.                                                 *)
FileWritten ==
    ipFile' \in IF ipFile = "absent" THEN {"absent"}
                ELSE IF main = "leaving" THEN {"partial", "good"}
                ELSE {"good"}

(* Mutant of the next definition: a write that fails is given up and the   *)
(* file left as it is (the code dereferences nil and ends in Crash).       *)
MonitorGivesUp ==
    /\ Alive
    /\ monitor = "writing"
    /\ monitor' = "sleeping"
    /\ UNCHANGED <<configVars, processVars, polling, running, orphans, serverVars, fileVars,
                   historyVars>>

(* A new address: a config test that may be running is to be stopped.      *)
MonitorWritten ==
    /\ Alive
    /\ monitor = "writing"
    /\ FileWritten
    /\ \/ monitor' = "sleeping" /\ UNCHANGED switches
       \/ /\ switches < MaxSwitches
          /\ switches' = switches + 1
          /\ monitor' = "sending"
    /\ UNCHANGED <<configVars, processVars, polling, running, orphans, serverVars,
                   serversFile, before, starts, signals>>

(* Mutant of the next definition: the stop message is not waited for.      *)
MonitorDoesNotWait ==
    /\ Alive
    /\ monitor = "sending"
    /\ monitor' = "resting"
    /\ UNCHANGED <<configVars, processVars, polling, running, orphans, serverVars, fileVars,
                   historyVars>>

(* The unbuffered send meets the poll with which a config test begins.     *)
TestIsStopped ==
    /\ Alive
    /\ monitor = "sending"
    /\ polling > 0
    /\ monitor' = "resting"
    /\ polling' = polling - 1
    /\ UNCHANGED <<configVars, processVars, running, orphans, serverVars, fileVars,
                   historyVars>>

(* Five minutes later a new config test is started.                        *)
MonitorRestarts ==
    /\ Alive
    /\ monitor = "resting"
    /\ monitor' = "sleeping"
    /\ polling' = polling + 1
    /\ UNCHANGED <<configVars, processVars, running, orphans, serverVars, fileVars,
                   historyVars>>

(* The default branch: the script is run, whatever is sent from now on.    *)
TestBegins ==
    /\ Alive
    /\ polling > 0
    /\ monitor # "sending"
    /\ polling' = polling - 1
    /\ running' = running + 1
    /\ UNCHANGED <<configVars, processVars, monitor, orphans, serverVars, fileVars,
                   historyVars>>

(* The script comes to its end, whether anybody waits for it or not.       *)
TestEnds ==
    /\ running > 0
    /\ running' = running - 1
    /\ UNCHANGED <<configVars, processVars, monitor, polling, orphans, serverVars, fileVars,
                   historyVars>>

OrphanEnds ==
    /\ orphans > 0
    /\ orphans' = orphans - 1
    /\ UNCHANGED <<configVars, processVars, monitor, polling, running, serverVars, fileVars,
                   historyVars>>

-----------------------------------------------------------------------------
(* The queries that race resolvers look the public address up in the file  *)
(* (what they do with it is ResolverPool's matter).  Without a file they   *)
(* ask for the address and write it: they find none once main has removed  *)
(* it.  One that gets no answer, or cannot write it, ends in Crash.        *)

QueryAsks ==
    /\ Alive
    /\ serving = "listening" /\ initialised
    /\ ipFile = "absent"
    /\ asking + writers < MaxQueries
    /\ asking' = asking + 1
    /\ UNCHANGED <<configVars, processVars, helperVars, serving, initialised, writers,
                   fileVars, historyVars>>

QueryWrites ==
    /\ Alive
    /\ asking > 0
    /\ asking' = asking - 1
    /\ writers' = writers + 1
    /\ ipFile' = "partial"
    /\ UNCHANGED <<configVars, processVars, helperVars, serving, initialised, serversFile,
                   historyVars>>

QueryWritten ==
    /\ Alive
    /\ writers > 0
    /\ writers' = writers - 1
    /\ FileWritten
    /\ UNCHANGED <<configVars, processVars, helperVars, serving, initialised, asking,
                   serversFile, historyVars>>

-----------------------------------------------------------------------------
(* Everything run does by itself once it has the public address.           *)
RunGoesOn ==
    \/ PollSignal \/ StartServers \/ InitHandler \/ SaveConfig
    \/ \E i \in Interfaces, v \in {"v4", "v6"} :
          SetConfig(<<i, v>>) \/ RestoreConfig(<<i, v>>)
    \/ WriteConfig \/ AwaitSignal \/ RestoreOpens \/ RestoreDone \/ Report

Run ==
    \/ RunBegin \/ ReadIpFile \/ RunReturns \/ QueryIp \/ IpWritten \/ IpFails
    \/ RunGoesOn

Monitor == MonitorQueries \/ MonitorWritten \/ TestIsStopped \/ MonitorRestarts

Queries == QueryAsks \/ QueryWrites \/ QueryWritten

Next ==
    \/ Start \/ Crash \/ EarlyQuery \/ Listen \/ Signal \/ ServersFileAppears
    \/ StopperSpins \/ StopperSends \/ CleanUp
    \/ Run
    \/ Monitor \/ TestBegins \/ TestEnds \/ OrphanEnds \/ Queries

Safe == Init /\ [][Next]_vars

(* The scheduler runs goroutines that can run, and the commands run starts *)
(* come to an end.  Nothing is assumed of the query for the public         *)
(* address, which has no timeout, nor of the user.                         *)
Spec ==
    /\ Safe
    /\ WF_vars(RunGoesOn)
    /\ WF_vars(StopperSpins) /\ WF_vars(StopperSends)
    /\ WF_vars(CleanUp)

-----------------------------------------------------------------------------
(* Properties.                                                             *)

(* "save the old configuration for restoration at stopping": when main has *)
(* returned, the configuration is the one this start has found.  darwin:   *)
(* for every interface whose own restore command worked, whichever others  *)
(* failed, without this host if an earlier crash had left it there.        *)
(* linux: for a single interface, with a comment line on top.              *)
CleanStopGivesBack ==
    main = "exited" =>
        /\ os = "darwin" =>
              \A i \in Interfaces \ failed :
                  servers[<<i, "v4">>] =
                      IF i \in DOMAIN saved THEN before.servers[<<i, "v4">>] \ {Here}
                      ELSE before.servers[<<i, "v4">>]
        /\ os = "linux" /\ ~fileFault /\ (\E i \in Interfaces : DOMAIN saved = {i}) =>
              resolvConf = <<Comment>> \o before.resolvConf

(* A query finds the handler without its maps, and kills the program, only *)
(* where an earlier process has left the system pointing here: this one    *)
(* has not touched the configuration yet.  However late its servers begin  *)
(* to listen, its own setDNSServer comes after the maps.                   *)
NilMapOnlyAfterCrash == NilMapInReach => starts > 1 /\ CurrentConfig = before

(* Config tests write the same files: a process has one at a time, however *)
(* often the network switches.  Only the scripts of processes that are     *)
(* gone, one each, may run beside it.                                      *)
AtMostOneConfigTest ==
    /\ polling + running <= 1
    /\ polling + running + orphans <= starts

(* Until it begins to restore, the process can put right whatever it has   *)
(* changed.  darwin: a list is untouched, or this host stands in its place *)
(* and what it held is in saved, for as long as the process lives: a crash *)
(* takes the only copy with it.  windows: this host was added and nothing  *)
(* taken away, crash or no crash.  linux: the file ends in the lines it    *)
(* had; while it is open they are in memory, and a crash then loses them.  *)
EndsIn(lines, end) ==
    /\ Len(end) <= Len(lines)
    /\ \A k \in 1 .. Len(end) : lines[Len(lines) - Len(end) + k] = end[k]
Overwritten(i) == servers[<<i, "v4">>] # before.servers[<<i, "v4">>]
NothingLostBeforeRestore ==
    run \notin {"restore", "report", "done"} =>
        /\ os = "darwin" =>
              \A i \in Interfaces : Overwritten(i) =>
                  /\ servers[<<i, "v4">>] = {Here}
                  /\ Alive => /\ i \in DOMAIN saved
                              /\ saved[i] = before.servers[<<i, "v4">>] \ {Here}
        /\ os = "windows" =>
              \A c \in Interfaces \X {"v4", "v6"} :
                  servers[c] \in {before.servers[c], before.servers[c] \cup {Here}}
        /\ os = "linux" /\ ~fileFault =>
              IF truncated THEN Alive => EndsIn(newData, before.resolvConf)
              ELSE EndsIn(resolvConf, before.resolvConf)

(* Up to the removal of ipInfo.json by main it is written by run and by    *)
(* the monitor, never by both at a time, and by no query; it is incomplete *)
(* only while they write it, or because an earlier process ended in a      *)
(* write.  So a run that finds the file torn, and after that can no longer *)
(* be stopped by a signal, comes after such a process.                     *)
TornFileIsBeingWritten ==
    /\ Alive /\ main # "leaving" =>
          /\ ~(run = "writing" /\ monitor = "writing")
          /\ asking = 0 /\ writers = 0
          /\ ipFile = "partial" =>
                run \in {"begin", "ipinfo", "returned", "writing"} \/ monitor = "writing"
    /\ run = "returned" => starts > 1

(* No signal gets lost between the library, Stop and runOnoma: once there  *)
(* has been one, run is not left waiting for it with nobody to send it,    *)
(* and it reports its end to a main that waits for that.                   *)
NoLostSignal ==
    Alive =>
        /\ main # "service" /\ run = "await" => stopper \in {"spinning", "sending"}
        /\ run \in {"restore", "report"} => main = "waiting"

(* A signal ends the program, with nothing left to wait for, at whatever   *)
(* point of its start it arrives: unless run waits for its query or has    *)
(* returned without one.                                                   *)
SignalEndsProgram ==
    (stopper # "off" /\ Alive /\ run \notin {"begin", "ipinfo", "writing", "returned"})
        ~> ~Alive
=============================================================================
