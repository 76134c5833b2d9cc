--------------------------- MODULE LifecycleProofs ---------------------------
(***************************************************************************)
(* Safety of Lifecycle for any interfaces, servers, configurations and     *)
(* number of starts, signals and network switches.                         *)
(*                                                                         *)
(* That a clean stop gives the configuration back needs to be known all    *)
(* the way from the save to the end: save keeps what was found (Kept), set *)
(* touches the saved interfaces only, restore has put back all that is no  *)
(* longer in todo (GivenBack), and main returns after run alone (Ended).   *)
(* It is relative to what this start has found, so crashes of earlier      *)
(* starts need no argument.  What is claimed of the process's memory holds *)
(* as long as the process has not died.                                    *)
(***************************************************************************)
EXTENDS Lifecycle, TLAPS

NotYetSet == {"begin", "ipinfo", "writing", "returned", "launch", "init", "save"}
NotYetReady == {"begin", "ipinfo", "writing", "returned", "launch", "init"}
AfterSave == {"set", "await", "restore", "report", "done"}

(* Nothing is changed before setDNSServer.                                 *)
Untouched ==
    run \in NotYetSet =>
        servers = before.servers /\ resolvConf = before.resolvConf

ReadyBeforeSave ==
    /\ initialised => run \notin NotYetReady
    /\ Alive /\ run \notin NotYetReady => initialised

(* The configuration of the user does not point here.                      *)
FirstStart ==
    /\ starts = 0 => main = "off" /\ run = "begin"
    /\ starts <= 1 =>
          /\ \A c \in Interfaces \X {"v4", "v6"} : Here \notin before.servers[c]
          /\ \A k \in DOMAIN before.resolvConf : before.resolvConf[k] # Here

(* main gets past its receive only after run's send.                       *)
Ended == main \in {"cleanup", "leaving", "exited"} => run = "done"

(* What the loops of set and restore still have to do.                     *)
TodoInv ==
    /\ run = "set" => todo \subseteq (DOMAIN saved) \X Versions
    /\ run = "restore" => todo \subseteq (DOMAIN saved) \X {"v4"}
    /\ run = "restore" /\ os = "linux" => todo = {}
    /\ run \in NotYetSet => fileFault = FALSE
    /\ truncated => os = "linux" /\ run \in {"set", "restore"}

(* darwin: the saved lists are those found, without this host; interfaces  *)
(* that were not saved are as they were.                                   *)
Kept ==
    os = "darwin" /\ main # "dead" /\ run \in AfterSave =>
        \A i \in Interfaces :
            IF i \in DOMAIN saved
              THEN saved[i] = before.servers[<<i, "v4">>] \ {Here}
              ELSE servers[<<i, "v4">>] = before.servers[<<i, "v4">>]

(* darwin: what restore has dealt with is back, or has failed.             *)
GivenBack ==
    os = "darwin" /\ run \in {"restore", "report", "done"} =>
        \A i \in DOMAIN saved :
            \/ run = "restore" /\ <<i, "v4">> \in todo
            \/ i \in failed
            \/ servers[<<i, "v4">>] = saved[i]

(* linux, one interface: the file, or what it is to hold while it is open, *)
(* between set and restore, and after it.                                  *)
OneInterface == \E i \in Interfaces : DOMAIN saved = {i}
FileInv ==
    os = "linux" /\ ~fileFault /\ OneInterface =>
        /\ run = "set" =>
              IF truncated THEN todo = {} /\ newData = <<Here, Comment>> \o before.resolvConf
              ELSE resolvConf = IF todo = {} THEN <<Here, Comment>> \o before.resolvConf
                                ELSE before.resolvConf
        /\ run = "await" => resolvConf = <<Here, Comment>> \o before.resolvConf
        /\ run = "restore" =>
              IF truncated THEN newData = <<Comment>> \o before.resolvConf
              ELSE resolvConf = <<Here, Comment>> \o before.resolvConf
        /\ run \in {"report", "done"} => resolvConf = <<Comment>> \o before.resolvConf

(* The first config test starts when there is neither another nor a        *)
(* monitor; later ones only after one was stopped.                         *)
TestsInv ==
    /\ run \in {"begin", "ipinfo", "writing"} => polling = 0 /\ running = 0 /\ monitor = "off"
    /\ monitor = "resting" => polling = 0 /\ running = 0
    /\ polling + running <= 1
    /\ IF starts = 0 THEN main = "off" /\ polling + running + orphans = 0
       ELSE orphans < starts

(* Between save and restore what was there is replaced by this host alone  *)
(* (darwin), has this host added (windows), or is what the file ends in.   *)
OnlyThisHostAdded ==
    run \in {"set", "await"} =>
        /\ os = "darwin" =>
              \A i \in Interfaces : Overwritten(i) => servers[<<i, "v4">>] = {Here}
        /\ os = "windows" =>
              \A c \in Interfaces \X {"v4", "v6"} :
                  servers[c] \in {before.servers[c], before.servers[c] \cup {Here}}
        /\ os = "linux" /\ ~fileFault =>
              IF truncated THEN main # "dead" => EndsIn(newData, before.resolvConf)
              ELSE EndsIn(resolvConf, before.resolvConf)

(* Who may have left ipInfo.json torn: run and the monitor write it one    *)
(* after the other, queries find it there until main removes it, and the   *)
(* first start finds no torn file.                                         *)
WriterInv ==
    /\ run \in NotYetSet \cup {"set"} => monitor = "off"
    /\ Alive /\ main # "leaving" /\ ipFile = "partial" =>
          run \in {"begin", "ipinfo", "returned", "writing"} \/ monitor = "writing"
    /\ Alive /\ main # "leaving" /\ ipFile = "absent" => run \in {"begin", "ipinfo"}
    /\ main = "leaving" \/ (asking = 0 /\ writers = 0)
    /\ run = "returned" => starts > 1
    /\ starts = 0 => main = "off" /\ ipFile # "partial"
    /\ starts = 1 /\ Alive /\ run \in {"begin", "ipinfo"} => ipFile # "partial"

(* Stop is called when the library leaves its wait, and is not done before *)
(* run has received.                                                       *)
SignalInv ==
    /\ main = "service" => stopper = "off"
    /\ main = "waiting" /\ run \notin {"restore", "report", "done"} =>
          stopper \in {"spinning", "sending"}
    /\ Alive /\ run \in {"restore", "report"} => main = "waiting"

IInv ==
    /\ TypeOK /\ Untouched /\ ReadyBeforeSave /\ FirstStart /\ Ended /\ TodoInv
    /\ Kept /\ GivenBack /\ FileInv /\ TestsInv
    /\ OnlyThisHostAdded /\ WriterInv /\ SignalInv
-----------------------------------------------------------------------------
(* The steps by what they do to the configuration.                         *)

(* The end of the process.                                                 *)
Death == Crash \/ EarlyQuery \/ IpFails \/ PollSignal

(* Steps that touch neither the configuration nor run.                     *)
Quiet ==
    \/ Listen \/ ServersFileAppears \/ StopperSpins \/ CleanUp
    \/ Monitor \/ TestBegins \/ TestEnds \/ OrphanEnds \/ Queries
    \/ UNCHANGED vars

(* Steps of run before it saves the configuration.                         *)
Early ==
    \/ RunBegin \/ ReadIpFile \/ RunReturns \/ QueryIp \/ IpWritten
    \/ StartServers \/ InitHandler

SetStep == \E i \in Interfaces, v \in {"v4", "v6"} : SetConfig(<<i, v>>)
RestoreStep == \E i \in Interfaces, v \in {"v4", "v6"} : RestoreConfig(<<i, v>>)

LEMMA StepKinds ==
  ASSUME [Next]_vars
  PROVE  \/ Death \/ Quiet \/ Early \/ Start \/ Signal \/ StopperSends \/ SaveConfig
         \/ SetStep \/ WriteConfig \/ AwaitSignal \/ RestoreStep \/ RestoreOpens
         \/ RestoreDone \/ Report
BY DEF Next, Run, RunGoesOn, Death, Quiet, Early, SetStep, RestoreStep

LEMMA DeathLeaves ==
  ASSUME Death
  PROVE  Alive /\ Die
BY DEF Death, Crash, EarlyQuery, NilMapInReach, IpFails, PollSignal

LEMMA QuietLeaves ==
  ASSUME Quiet
  PROVE  /\ UNCHANGED <<os, servers, resolvConf, truncated, saved, newData, todo, failed,
                        fileFault, run, before, starts>>
         /\ main' = main \/ CleanUp
<1> USE DEF configVars, systemVars, memoryVars, processVars, historyVars
<1>1. CASE Listen \/ ServersFileAppears \/ StopperSpins
  BY <1>1 DEF Listen, ServersFileAppears, StopperSpins
<1>2. CASE CleanUp
  BY <1>2 DEF CleanUp
<1>3. CASE Monitor
  BY <1>3 DEF Monitor, MonitorQueries, MonitorWritten, TestIsStopped, MonitorRestarts
<1>4. CASE TestBegins \/ TestEnds \/ OrphanEnds
  BY <1>4 DEF TestBegins, TestEnds, OrphanEnds
<1>5. CASE Queries
  BY <1>5 DEF Queries, QueryAsks, QueryWrites, QueryWritten
<1>6. CASE UNCHANGED vars
  BY <1>6 DEF vars
<1> QED
  BY <1>1, <1>2, <1>3, <1>4, <1>5, <1>6 DEF Quiet

LEMMA EarlyLeaves ==
  ASSUME Early
  PROVE  /\ UNCHANGED <<os, servers, resolvConf, truncated, saved, newData, todo, failed,
                        fileFault, before, starts, main>>
         /\ run \in NotYetReady /\ run' \in NotYetSet
<1> USE DEF configVars, systemVars, memoryVars, historyVars, RunGoes, NotYetReady, NotYetSet
<1>1. CASE RunBegin \/ ReadIpFile \/ RunReturns
  BY <1>1 DEF RunBegin, ReadIpFile, RunReturns, Launch
<1>2. CASE QueryIp \/ IpWritten
  BY <1>2 DEF QueryIp, IpWritten, Launch
<1>3. CASE StartServers \/ InitHandler
  BY <1>3 DEF StartServers, InitHandler
<1> QED
  BY <1>1, <1>2, <1>3 DEF Early

(* run's receive, by the signal itself or by Stop.                         *)
LEMMA ReceiveLeaves ==
  ASSUME Signal \/ StopperSends
  PROVE  /\ UNCHANGED <<os, servers, resolvConf, truncated, saved, newData, failed,
                        fileFault, before, starts, initialised>>
         /\ Receive \/ UNCHANGED <<run, todo>>
         /\ Alive /\ (main' = main \/ main' = "waiting")
BY DEF Signal, StopperSends, Receive, Alive, configVars, systemVars, memoryVars,
       serverVars, historyVars

(* Writing resolv.conf.                                                    *)
LEMMA WriteLeaves ==
  ASSUME WriteFile
  PROVE  /\ truncated /\ ~truncated'
         /\ UNCHANGED <<os, servers, saved, todo, failed>>
         /\ fileFault' \/ (resolvConf' = newData /\ UNCHANGED fileFault)
BY DEF WriteFile

-----------------------------------------------------------------------------
(* The parts of the invariant, one by one.                                 *)

LEMMA TypeInit == ASSUME Init PROVE TypeOK
<1> USE DEF Init, TypeOK, ConfigTypeOK, Lines, Nothing, Platforms
<1>1. \A u \in UserConfigs :
          /\ u.servers \in [Interfaces \X {"v4", "v6"} -> SUBSET Servers]
          /\ u.resolvConf \in Seq(Servers)
          /\ u = [servers |-> u.servers, resolvConf |-> u.resolvConf]
  <2> SUFFICES ASSUME NEW u \in UserConfigs
               PROVE  /\ u.servers \in [Interfaces \X {"v4", "v6"} -> SUBSET Servers]
                      /\ u.resolvConf \in Seq(Servers)
                      /\ u = [servers |-> u.servers, resolvConf |-> u.resolvConf]
    OBVIOUS
  <2>1. u \in [servers : [Interfaces \X {"v4", "v6"} -> SUBSET Servers],
               resolvConf : Seq(Servers)]
    BY UserAssumption
  <2> QED
    BY <2>1
<1>2. \A f \in [Interfaces \X {"v4", "v6"} -> SUBSET Servers] :
          f \in [Interfaces \X {"v4", "v6"} -> SUBSET (Servers \cup {Here})]
  OBVIOUS
<1>3. \A s \in Seq(Servers) : s \in Seq(Servers \cup {Here, Comment})
  OBVIOUS
<1>4. servers \in [Interfaces \X {"v4", "v6"} -> SUBSET (Servers \cup {Here})]
  BY <1>1, <1>2
<1>5. resolvConf \in Seq(Lines)
  BY <1>1, <1>3
<1>6. before \in [servers : [Interfaces \X {"v4", "v6"} -> SUBSET (Servers \cup {Here})],
                  resolvConf : Seq(Lines)]
  BY <1>1, <1>4, <1>5
<1>7. /\ starts \in 0 .. MaxStarts /\ signals \in 0 .. MaxSignals
      /\ switches \in 0 .. MaxSwitches
      /\ asking \in Nat /\ writers \in Nat /\ asking + writers <= MaxQueries
  BY BoundsAssumption
<1>8. ConfigTypeOK
  <2>1. newData \in Seq(Lines) /\ DOMAIN saved = {}
    OBVIOUS
  <2> QED
    BY <1>4, <1>5, <2>1, UserAssumption
<1> QED
  BY <1>6, <1>7, <1>8

(* A beginning of a sequence is one of the same elements.                  *)
LEMMA Beginning ==
  ASSUME NEW S, NEW s \in Seq(S), NEW n \in 0 .. Len(s)
  PROVE  SubSeq(s, 1, n) \in Seq(S)
OBVIOUS

(* SaveConfig saves some of the system's interfaces.                       *)
LEMMA SaveLists ==
  ASSUME TypeOK, SaveConfig
  PROVE  \E interfaces \in SUBSET Interfaces :
             Save(interfaces) /\ todo' = interfaces \X Versions
<1>1. PICK interfaces \in Listings[os] : Save(interfaces) /\ todo' = interfaces \X Versions
  BY DEF SaveConfig
<1>2. interfaces \in SUBSET Interfaces
  BY UserAssumption DEF TypeOK, ConfigTypeOK
<1> QED
  BY <1>1, <1>2

(* The types of the variables of DnsConfig.                                *)
LEMMA ConfigTypeStep ==
  ASSUME TypeOK, TodoInv, [Next]_vars
  PROVE  ConfigTypeOK'
<1> USE DEF TypeOK, ConfigTypeOK, Platforms, Lines
<1>0. CASE Death
  BY <1>0, DeathLeaves DEF Die, Forget, Nothing, systemVars
<1>1. CASE Quiet
  BY <1>1, QuietLeaves
<1>2. CASE Early
  BY <1>2, EarlyLeaves
<1>3. CASE Start
  <2>1. saved' = Nothing /\ newData' = <<>> /\ todo' = {}
    BY <1>3 DEF Start, Forget
  <2>2. /\ DOMAIN saved' \subseteq Interfaces /\ newData' \in Seq(Lines)
        /\ \A i \in DOMAIN saved' : saved'[i] \subseteq Servers
    BY <2>1 DEF Nothing
  <2> QED
    BY <1>3, <2>1, <2>2 DEF Start
<1>4. CASE Signal \/ StopperSends
  <2>1. todo' \subseteq Interfaces \X {"v4", "v6"}
    BY <1>4, ReceiveLeaves DEF Receive, ToRestore
  <2> QED
    BY <1>4, <2>1, ReceiveLeaves
<1>5. CASE SaveConfig
  <2>1. PICK interfaces \in SUBSET Interfaces :
            Save(interfaces) /\ todo' = interfaces \X Versions
    BY <1>5, SaveLists
  <2>2. \A i \in interfaces : OldServers(i) \subseteq Servers
    BY DEF OldServers, Empty
  <2>3. DOMAIN saved' = interfaces /\ \A i \in interfaces : saved'[i] \subseteq Servers
    BY <2>1, <2>2 DEF Save
  <2> QED
    BY <2>1, <2>3 DEF Save, systemVars, Versions
<1>6. CASE SetStep
  <2>1. PICK i \in Interfaces, v \in {"v4", "v6"} : SetCommand(<<i, v>>) \/ PrependFile(<<i, v>>)
    BY <1>6 DEF SetStep, SetConfig
  <2>2. Prepended \in Seq(Lines) /\ <<Here, Comment>> \in Seq(Lines)
    BY DEF Prepended
  <2> QED
    <3>1. CASE PrependFile(<<i, v>>)
      <4>1. todo' = todo \ {<<i, v>>}
        BY <3>1 DEF PrependFile
      <4>2. CASE OpenFails
        BY <4>1, <4>2 DEF OpenFails, systemVars
      <4>3. CASE OpenFile(Prepended, <<Here, Comment>>)
        <5>1. newData' \in Seq(Lines) /\ resolvConf' \in Seq(Lines)
          <6>1. resolvConf' = <<>> /\ (newData' = Prepended \/ newData' = <<Here, Comment>>)
            BY <4>3 DEF OpenFile
          <6>2. CASE newData' = Prepended
            BY <2>2, <6>1, <6>2
          <6>3. CASE newData' = <<Here, Comment>>
            BY <2>2, <6>1, <6>3
          <6> QED
            BY <6>1, <6>2, <6>3
        <5> QED
          BY <4>1, <4>3, <5>1 DEF OpenFile
      <4> QED
        BY <3>1, <4>2, <4>3 DEF PrependFile
    <3>2. CASE SetCommand(<<i, v>>)
      <4>1. <<i, v>> \in Interfaces \X {"v4", "v6"}
        OBVIOUS
      <4>2. /\ {Here} \subseteq Servers \cup {Here}
            /\ servers[<<i, v>>] \cup {Here} \subseteq Servers \cup {Here}
        BY <4>1
      <4>3. CASE os = "darwin"
        BY <3>2, <4>2, <4>3 DEF SetCommand
      <4>4. CASE os # "darwin"
        BY <3>2, <4>2, <4>4 DEF SetCommand
      <4> QED
        BY <4>3, <4>4
    <3> QED
      BY <2>1, <3>1, <3>2
<1>7. CASE AwaitSignal \/ Report
  BY <1>7 DEF AwaitSignal, Report, configVars, systemVars, memoryVars
<1>8. CASE RestoreStep
  <2>1. PICK i \in Interfaces, v \in {"v4", "v6"} :
            RunGoes("restore", "restore") /\ (RestoreCommand(<<i, v>>) \/ RestoreFails(<<i, v>>))
    BY <1>8 DEF RestoreStep, RestoreConfig
  <2>2. CASE RestoreFails(<<i, v>>)
    BY <2>2 DEF RestoreFails, systemVars
  <2>3. CASE RestoreCommand(<<i, v>>)
    <3>1. i \in DOMAIN saved \/ os # "darwin"
      BY <2>1, <2>3 DEF RestoreCommand, RunGoes, TodoInv
    <3>2. (IF os = "darwin" THEN saved[i] ELSE Empty) \subseteq Servers
      BY <3>1 DEF Empty
    <3> QED
      BY <2>3, <3>2 DEF RestoreCommand
  <2> QED
    BY <2>1, <2>2, <2>3
<1>10. ASSUME WriteFile PROVE ConfigTypeOK'
  <2>1. resolvConf' \in Seq(Lines)
    <3> HIDE DEF Lines
    <3>1. newData \in Seq(Lines)
      OBVIOUS
    <3>2. \A n \in 0 .. Len(newData) : SubSeq(newData, 1, n) \in Seq(Lines)
      BY <3>1, Beginning
    <3>3. \/ resolvConf' = newData
          \/ \E n \in 0 .. Len(newData) : resolvConf' = SubSeq(newData, 1, n)
      BY <1>10 DEF WriteFile
    <3> HIDE DEF TypeOK
    <3> QED
      BY <3>1, <3>2, <3>3
  <2>2. newData' \in Seq(Lines)
    BY <1>10 DEF WriteFile
  <2> QED
    BY <1>10, <2>1, <2>2 DEF WriteFile
<1>9. CASE RestoreDone
  <2>1. CASE UNCHANGED configVars
    BY <2>1 DEF configVars, systemVars, memoryVars
  <2>2. CASE WriteFile
    BY <1>10, <2>2
  <2>3. CASE OpenFails /\ UNCHANGED todo
    BY <2>3 DEF OpenFails, systemVars
  <2> QED
    BY <1>9, <2>1, <2>2, <2>3 DEF RestoreDone
<1>11. CASE RestoreOpens
  <2>1. AllButFirstLine \in Seq(Lines) /\ <<>> \in Seq(Lines)
    BY DEF AllButFirstLine
  <2> QED
    BY <1>11, <2>1 DEF RestoreOpens, BeheadFile, OpenFile
<1>12. CASE WriteConfig
  BY <1>10, <1>12 DEF WriteConfig
<1> QED
  BY <1>0, <1>1, <1>2, <1>3, <1>4, <1>5, <1>6, <1>7, <1>8, <1>9, <1>10, <1>11, <1>12, StepKinds

LEMMA TypeStep ==
  ASSUME TypeOK, TodoInv, [Next]_vars
  PROVE  TypeOK'
<1> USE DEF TypeOK, processVars, helperVars, queryVars, serverVars, fileVars, historyVars
<1>1. ConfigTypeOK'
  BY ConfigTypeStep
<1>2. CASE Death
  BY <1>1, <1>2, DeathLeaves, BoundsAssumption DEF Die, NoProcess
<1>3. CASE Listen \/ ServersFileAppears \/ StopperSpins \/ CleanUp
  <2>1. CASE Listen
    BY <1>1, <2>1 DEF Listen
  <2>4. CASE ServersFileAppears
    BY <1>1, <2>4 DEF ServersFileAppears
  <2>2. CASE StopperSpins
    BY <1>1, <2>2 DEF StopperSpins
  <2>3. CASE CleanUp
    <3>1. CASE main = "cleanup"
      BY <1>1, <2>3, <3>1 DEF CleanUp
    <3>2. CASE main = "leaving"
      <4>1. /\ signals' \in 0 .. MaxSignals /\ switches' \in 0 .. MaxSwitches
            /\ asking' \in Nat /\ writers' \in Nat /\ asking' + writers' <= MaxQueries
            /\ polling' \in Nat
        BY <2>3, <3>2, BoundsAssumption DEF CleanUp, NoProcess
      <4> QED
        BY <1>1, <2>3, <3>2, <4>1 DEF CleanUp, NoProcess
    <3> QED
      BY <2>3, <3>1, <3>2 DEF CleanUp
  <2> QED
    BY <1>3, <2>1, <2>2, <2>3, <2>4
<1>4. CASE Monitor
  <2>1. CASE MonitorQueries
    BY <1>1, <2>1 DEF MonitorQueries
  <2>2. CASE MonitorWritten
    <3>1. /\ monitor' \in {"sleeping", "sending"}
          /\ ipFile' \in {"absent", "partial", "good"}
          /\ switches' \in 0 .. MaxSwitches
      BY <2>2, BoundsAssumption DEF MonitorWritten, FileWritten
    <3> QED
      BY <1>1, <2>2, <3>1 DEF MonitorWritten
  <2>3. CASE TestIsStopped
    BY <1>1, <2>3 DEF TestIsStopped
  <2>4. CASE MonitorRestarts
    BY <1>1, <2>4 DEF MonitorRestarts
  <2> QED
    BY <1>4, <2>1, <2>2, <2>3, <2>4 DEF Monitor
<1>5. CASE TestBegins \/ TestEnds \/ OrphanEnds
  <2>1. polling' \in Nat /\ running' \in Nat /\ orphans' \in Nat
    BY SMTT(30), <1>5 DEF TestBegins, TestEnds, OrphanEnds
  <2>2. /\ UNCHANGED <<main, stopper, run, monitor, serving, initialised, asking, writers>>
        /\ UNCHANGED <<ipFile, serversFile, before, starts, signals, switches>>
    BY <1>5 DEF TestBegins, TestEnds, OrphanEnds
  <2> QED
    BY <1>1, <2>1, <2>2
<1>12. CASE Queries
  <2>1. CASE QueryAsks
    <3>1. asking' \in Nat /\ asking' + writers' <= MaxQueries
      BY <2>1, BoundsAssumption DEF QueryAsks
    <3> QED
      BY <1>1, <2>1, <3>1 DEF QueryAsks
  <2>3. CASE QueryWrites
    <3>1. asking' \in Nat
      BY <2>3 DEF QueryWrites
    <3>2. writers' \in Nat /\ asking' + writers' <= MaxQueries
      BY <2>3, BoundsAssumption DEF QueryWrites
    <3> QED
      BY SMTT(30), <1>1, <2>3, <3>1, <3>2 DEF QueryWrites
  <2>2. CASE QueryWritten
    <3>1. ipFile' \in {"absent", "partial", "good"}
      BY <2>2 DEF QueryWritten, FileWritten
    <3>2. writers' \in Nat /\ asking + writers' <= MaxQueries
      BY <2>2, BoundsAssumption DEF QueryWritten
    <3> QED
      BY <1>1, <2>2, <3>1, <3>2 DEF QueryWritten
  <2> QED
    BY <1>12, <2>1, <2>2, <2>3 DEF Queries
<1>6. CASE Early
  <2>1. CASE RunBegin \/ RunReturns
    BY SMTT(30), <1>1, <2>1 DEF RunBegin, RunReturns, RunGoes
  <2>2. CASE QueryIp
    BY <1>1, <2>2 DEF QueryIp, RunGoes
  <2>3. CASE ReadIpFile \/ IpWritten
    BY <1>1, <2>3 DEF ReadIpFile, IpWritten, Launch, RunGoes
  <2>4. CASE StartServers
    BY <1>1, <2>4 DEF StartServers, RunGoes
  <2>5. CASE InitHandler
    BY <1>1, <2>5 DEF InitHandler, RunGoes
  <2> QED
    BY <1>6, <2>1, <2>2, <2>3, <2>4, <2>5 DEF Early
<1>7. CASE Start
  <2>1. before' \in [servers : [Interfaces \X {"v4", "v6"} -> SUBSET (Servers \cup {Here})],
                     resolvConf : Seq(Lines)]
    BY <1>7 DEF Start, CurrentConfig, ConfigTypeOK
  <2>2. starts' \in 0 .. MaxStarts /\ signals' \in 0 .. MaxSignals
        /\ switches' \in 0 .. MaxSwitches
    BY <1>7, BoundsAssumption DEF Start, NoProcess
  <2>3. asking' \in Nat /\ writers' \in Nat /\ asking' + writers' <= MaxQueries
    BY <1>7, BoundsAssumption DEF Start, NoProcess
  <2>4. polling' \in Nat /\ running' \in Nat /\ orphans' \in Nat
    BY <1>7 DEF Start, NoProcess
  <2> QED
    BY <1>1, <1>7, <2>1, <2>2, <2>3, <2>4 DEF Start, NoProcess
<1>8. CASE Signal \/ StopperSends
  <2>1. run' \in {run, "restore"}
    BY <1>8 DEF Signal, StopperSends, Receive
  <2>2. signals' \in 0 .. MaxSignals /\ UNCHANGED <<before, starts, switches>>
    BY <1>8, BoundsAssumption DEF Signal, StopperSends
  <2>3. main' \in {main, "waiting"} /\ stopper' \in {stopper, "spinning", "done"}
    BY <1>8 DEF Signal, StopperSends
  <2> QED
    BY SMTT(30), <1>1, <1>8, <2>1, <2>2, <2>3 DEF Signal, StopperSends
<1>9. CASE SaveConfig \/ AwaitSignal \/ RestoreDone \/ Report
  BY SMTT(30), <1>1, <1>9 DEF SaveConfig, AwaitSignal, RestoreDone, Report, RunGoes
<1>10. CASE SetStep \/ WriteConfig \/ RestoreStep \/ RestoreOpens
  <2>1. UNCHANGED <<run, main, stopper, helperVars, serverVars, fileVars, historyVars>>
    BY <1>10 DEF SetStep, SetConfig, WriteConfig, RestoreStep, RestoreConfig, RestoreOpens,
         RunGoes
  <2> QED
    BY <1>1, <2>1
<1>11. CASE UNCHANGED vars
  BY <1>1, <1>11 DEF vars
<1> QED
  BY <1>2, <1>3, <1>4, <1>5, <1>6, <1>7, <1>8, <1>9, <1>10, <1>11, <1>12, StepKinds DEF Quiet

LEMMA UntouchedStep ==
  ASSUME TypeOK, Untouched, [Next]_vars
  PROVE  Untouched'
<1> USE DEF Untouched, NotYetSet
<1>0. CASE Death
  BY <1>0, DeathLeaves DEF Die, Forget, Nothing, systemVars
<1>1. CASE Quiet
  BY <1>1, QuietLeaves
<1>2. CASE Early
  BY <1>2, EarlyLeaves DEF NotYetReady
<1>3. CASE Start
  BY <1>3 DEF Start, CurrentConfig
<1>4. CASE Signal \/ StopperSends
  BY <1>4, ReceiveLeaves DEF Receive
<1>5. CASE SaveConfig \/ SetStep \/ WriteConfig \/ AwaitSignal \/ RestoreStep \/ RestoreOpens
         \/ RestoreDone \/ Report
  BY <1>5 DEF SaveConfig, SetStep, SetConfig, WriteConfig, AwaitSignal, RestoreStep, RestoreConfig,
       RestoreOpens, RestoreDone, Report, RunGoes
<1> QED
  BY <1>0, <1>1, <1>2, <1>3, <1>4, <1>5, StepKinds

LEMMA ReadyStep ==
  ASSUME TypeOK, ReadyBeforeSave, [Next]_vars
  PROVE  ReadyBeforeSave'
<1> USE DEF ReadyBeforeSave, NotYetReady, Alive, processVars, serverVars
<1>0. CASE Death
  BY <1>0, DeathLeaves DEF Die, NoProcess
<1>1. CASE Quiet
  <2>1. CASE CleanUp
    BY <2>1 DEF CleanUp, NoProcess
  <2>2. CASE ~CleanUp
    <3>1. UNCHANGED <<main, run>>
      BY <1>1, <2>2, QuietLeaves
    <3>2. initialised' = initialised
      BY <1>1, <2>2 DEF Quiet, Listen, ServersFileAppears, StopperSpins, Monitor,
         MonitorQueries, MonitorWritten, TestIsStopped, MonitorRestarts, TestBegins,
         TestEnds, OrphanEnds, Queries, QueryAsks, QueryWrites, QueryWritten, vars
    <3> QED
      BY <3>1, <3>2
  <2> QED
    BY <2>1, <2>2
<1>2. CASE Early
  BY <1>2 DEF Early, RunGoes, RunBegin, ReadIpFile, RunReturns, QueryIp, IpWritten,
       Launch, StartServers, InitHandler
<1>3. CASE Start
  BY <1>3 DEF Start, NoProcess
<1>4. CASE Signal \/ StopperSends
  BY <1>4, ReceiveLeaves DEF Receive
<1>5. CASE SaveConfig \/ SetStep \/ WriteConfig \/ AwaitSignal \/ RestoreStep \/ RestoreOpens
         \/ RestoreDone \/ Report
  BY <1>5 DEF SaveConfig, SetStep, SetConfig, WriteConfig, AwaitSignal, RestoreStep, RestoreConfig,
       RestoreOpens, RestoreDone, Report, RunGoes
<1> QED
  BY <1>0, <1>1, <1>2, <1>3, <1>4, <1>5, StepKinds

LEMMA FirstStep ==
  ASSUME TypeOK, Untouched, FirstStart, [Next]_vars
  PROVE  FirstStart'
<1> USE DEF FirstStart, Alive
<1>0. CASE Death
  BY <1>0, DeathLeaves DEF Die
<1>1. CASE Quiet
  BY <1>1, QuietLeaves DEF CleanUp
<1>2. CASE Early
  <2>1. main # "off"
    BY <1>2 DEF Early, RunGoes, RunBegin, ReadIpFile, RunReturns, QueryIp, IpWritten,
         Launch, StartServers, InitHandler
  <2> QED
    BY <1>2, <2>1, EarlyLeaves
<1>3. CASE Start
  <2>1. starts \in Nat /\ starts' = starts + 1 /\ before' = CurrentConfig
    BY <1>3, BoundsAssumption DEF Start, TypeOK
  <2>2. starts = 0 => servers = before.servers /\ resolvConf = before.resolvConf
    BY DEF Untouched, NotYetSet
  <2> QED
    BY <2>1, <2>2 DEF CurrentConfig
<1>4. CASE Signal \/ StopperSends
  BY <1>4, ReceiveLeaves
<1>5. CASE SaveConfig \/ SetStep \/ WriteConfig \/ AwaitSignal \/ RestoreStep \/ RestoreOpens
         \/ RestoreDone \/ Report
  BY <1>5 DEF SaveConfig, SetStep, SetConfig, WriteConfig, AwaitSignal, RestoreStep,
       RestoreConfig, RestoreOpens, RestoreDone, Report, RunGoes, historyVars
<1> QED
  BY <1>0, <1>1, <1>2, <1>3, <1>4, <1>5, StepKinds

LEMMA EndedStep ==
  ASSUME TypeOK, Ended, [Next]_vars
  PROVE  Ended'
<1> USE DEF Ended, processVars, NotYetReady
<1>0. CASE Death
  BY <1>0, DeathLeaves DEF Die
<1>1. CASE Quiet
  BY <1>1, QuietLeaves DEF CleanUp
<1>2. CASE Early
  BY <1>2, EarlyLeaves
<1>3. CASE Start
  BY <1>3 DEF Start
<1>4. CASE Signal \/ StopperSends
  BY <1>4, ReceiveLeaves DEF Receive
<1>5. CASE SaveConfig \/ SetStep \/ WriteConfig \/ AwaitSignal \/ RestoreStep \/ RestoreOpens
         \/ RestoreDone \/ Report
  BY <1>5 DEF SaveConfig, SetStep, SetConfig, WriteConfig, AwaitSignal, RestoreStep, RestoreConfig,
       RestoreOpens, RestoreDone, Report, RunGoes
<1> QED
  BY <1>0, <1>1, <1>2, <1>3, <1>4, <1>5, StepKinds

LEMMA TodoStep ==
  ASSUME TypeOK, TodoInv, [Next]_vars
  PROVE  TodoInv'
<1> USE DEF TodoInv, NotYetSet, NotYetReady
<1>0. CASE Death
  BY <1>0, DeathLeaves DEF Die, Forget, Nothing, systemVars
<1>1. CASE Quiet
  BY <1>1, QuietLeaves DEF Versions
<1>2. CASE Early
  BY <1>2, EarlyLeaves
<1>3. CASE Start
  BY <1>3 DEF Start, Forget
<1>4. CASE Signal \/ StopperSends
  BY <1>4, ReceiveLeaves DEF Receive, ToRestore, Versions
<1>5. CASE SaveConfig
  <2>1. PICK interfaces \in SUBSET Interfaces :
            Save(interfaces) /\ todo' = interfaces \X Versions
    BY <1>5, SaveLists
  <2>2. DOMAIN saved' = interfaces /\ os' = os
    BY <2>1 DEF Save
  <2> QED
    BY <1>5, <2>1, <2>2 DEF SaveConfig, Save, systemVars, RunGoes, Versions
<1>6. CASE SetStep
  BY <1>6 DEF SetStep, SetConfig, SetCommand, PrependFile, OpenFile, OpenFails, RunGoes,
       Versions, systemVars
<1>7. CASE RestoreStep
  BY <1>7 DEF RestoreStep, RestoreConfig, RestoreCommand, RestoreFails, RunGoes,
       systemVars
<1>8. CASE AwaitSignal \/ Report
  BY <1>8 DEF AwaitSignal, Report, RunGoes, configVars, systemVars
<1>9. CASE RestoreDone
  BY <1>9 DEF RestoreDone, RunGoes, WriteFile, OpenFails, configVars, systemVars
<1>10. CASE WriteConfig
  BY <1>10, WriteLeaves DEF WriteConfig, RunGoes, Versions
<1>11. CASE RestoreOpens
  BY <1>11 DEF RestoreOpens, BeheadFile, OpenFile, RunGoes
<1> QED
  BY <1>0, <1>1, <1>2, <1>3, <1>4, <1>5, <1>6, <1>7, <1>8, <1>9, <1>10, <1>11, StepKinds

LEMMA TestsStep ==
  ASSUME TypeOK, TestsInv, [Next]_vars
  PROVE  TestsInv'
<1> USE DEF TypeOK, TestsInv, processVars, helperVars, historyVars
<1>1. CASE Death
  BY <1>1, DeathLeaves DEF Die, NoProcess, Alive
<1>2. CASE Listen \/ ServersFileAppears \/ StopperSpins \/ CleanUp \/ Queries
  BY <1>2 DEF Listen, ServersFileAppears, StopperSpins, CleanUp, NoProcess, Queries,
       QueryAsks, QueryWrites, QueryWritten, Alive
<1>3. CASE Monitor
  BY <1>3 DEF Alive, Monitor, MonitorQueries, MonitorWritten, TestIsStopped, MonitorRestarts
<1>4. CASE TestBegins \/ TestEnds \/ OrphanEnds
  BY <1>4 DEF TestBegins, TestEnds, OrphanEnds
<1>5. CASE Early
  BY <1>5 DEF Alive, Early, RunGoes, RunBegin, ReadIpFile, RunReturns, QueryIp, IpWritten,
       Launch, StartServers, InitHandler
<1>6. CASE Start
  BY <1>6 DEF Start, NoProcess
<1>7. CASE Signal \/ StopperSends
  BY <1>7 DEF Signal, StopperSends, Receive, Alive
<1>8. CASE SaveConfig \/ SetStep \/ WriteConfig \/ AwaitSignal \/ RestoreStep \/ RestoreOpens
         \/ RestoreDone \/ Report
  BY <1>8 DEF Alive, SaveConfig, SetStep, SetConfig, WriteConfig, AwaitSignal, RestoreStep, RestoreConfig,
       RestoreOpens, RestoreDone, Report, RunGoes
<1>9. CASE UNCHANGED vars
  BY <1>9 DEF vars
<1> QED
  BY <1>1, <1>2, <1>3, <1>4, <1>5, <1>6, <1>7, <1>8, <1>9, StepKinds DEF Quiet

(* set changes the lists of saved interfaces only, restore none but those  *)
(* it deals with.                                                          *)
LEMMA SetChanges ==
  ASSUME TypeOK, TodoInv, SetStep
  PROVE  /\ UNCHANGED <<os, saved, failed, before>>
         /\ \A i \in Interfaces \ DOMAIN saved :
               servers'[<<i, "v4">>] = servers[<<i, "v4">>]
<1>1. PICK i \in Interfaces, v \in {"v4", "v6"} :
          RunGoes("set", "set") /\ (SetCommand(<<i, v>>) \/ PrependFile(<<i, v>>))
  BY DEF SetStep, SetConfig
<1>2. i \in DOMAIN saved
  BY <1>1 DEF SetCommand, PrependFile, Ready, RunGoes, TodoInv
<1>3. UNCHANGED <<os, saved, failed, before>>
  BY <1>1 DEF SetStep, SetConfig, SetCommand, PrependFile, OpenFile, OpenFails,
       historyVars
<1>4. \A j \in Interfaces : j # i => servers'[<<j, "v4">>] = servers[<<j, "v4">>]
  BY <1>1 DEF SetCommand, PrependFile, OpenFile, OpenFails, systemVars, TypeOK, ConfigTypeOK
<1> QED
  BY <1>2, <1>3, <1>4

LEMMA RestoreChanges ==
  ASSUME TypeOK, TodoInv, RestoreStep, os = "darwin"
  PROVE  \E i \in DOMAIN saved :
            /\ todo' = todo \ {<<i, "v4">>}
            /\ UNCHANGED <<os, saved, before>> /\ failed \subseteq failed'
            /\ i \in failed' \/ servers'[<<i, "v4">>] = saved[i]
            /\ \A j \in Interfaces : j # i => servers'[<<j, "v4">>] = servers[<<j, "v4">>]
<1>1. PICK i \in Interfaces, v \in {"v4", "v6"} :
          /\ RunGoes("restore", "restore")
          /\ RestoreCommand(<<i, v>>) \/ RestoreFails(<<i, v>>)
  BY DEF RestoreStep, RestoreConfig
<1>2. <<i, v>> \in todo
  BY <1>1 DEF RestoreCommand, RestoreFails
<1>3. i \in DOMAIN saved /\ v = "v4"
  BY <1>1, <1>2 DEF RunGoes, TodoInv
<1>4. before' = before
  BY DEF RestoreStep, RestoreConfig, historyVars
<1>5. CASE RestoreFails(<<i, v>>)
  BY <1>3, <1>4, <1>5 DEF RestoreFails, systemVars
<1>6. CASE RestoreCommand(<<i, v>>)
  <2>1. servers' = [servers EXCEPT ![<<i, "v4">>] = saved[i]]
    BY <1>3, <1>6 DEF RestoreCommand
  <2>2. /\ servers'[<<i, "v4">>] = saved[i]
        /\ \A j \in Interfaces : j # i => servers'[<<j, "v4">>] = servers[<<j, "v4">>]
    BY <2>1 DEF TypeOK, ConfigTypeOK
  <2> QED
    BY <1>3, <1>4, <1>6, <2>2 DEF RestoreCommand
<1> QED
  BY <1>1, <1>5, <1>6

LEMMA KeptStep ==
  ASSUME TypeOK, Untouched, TodoInv, Kept, [Next]_vars
  PROVE  Kept'
<1> USE DEF Kept, AfterSave
<1>0. CASE Death
  BY <1>0, DeathLeaves DEF Die
<1>1. CASE Quiet
  BY <1>1, QuietLeaves DEF CleanUp
<1>2. CASE Early
  BY <1>2, EarlyLeaves DEF NotYetSet
<1>3. CASE Start
  BY <1>3 DEF Start
<1>4. CASE Signal \/ StopperSends
  BY <1>4, ReceiveLeaves DEF Receive, Alive
<1>5. CASE SaveConfig
  <2>1. PICK interfaces \in SUBSET Interfaces : Save(interfaces)
    BY <1>5, SaveLists
  <2>2. /\ servers = before.servers /\ before' = before
        /\ os' = os /\ servers' = servers
    BY <1>5, <2>1 DEF SaveConfig, RunGoes, Untouched, NotYetSet, Save, systemVars, historyVars
  <2> QED
    BY <2>1, <2>2 DEF Save, OldServers
<1>6. CASE SetStep
  BY <1>6, SetChanges DEF SetStep, SetConfig, RunGoes, Alive
<1>7. CASE RestoreStep
  <2> SUFFICES ASSUME os = "darwin", os' = os PROVE Kept'
    BY <1>7 DEF RestoreStep, RestoreConfig, RestoreCommand, RestoreFails
  <2>1. run = "restore" /\ Alive
    BY <1>7 DEF RestoreStep, RestoreConfig, RunGoes
  <2> QED
    BY <1>7, <2>1, RestoreChanges DEF Alive
<1>8. CASE AwaitSignal \/ Report
  BY <1>8 DEF AwaitSignal, Report, RunGoes, Alive, configVars, systemVars, memoryVars,
       historyVars
<1>9. CASE RestoreDone
  BY <1>9 DEF RestoreDone, WriteFile, OpenFails, RunGoes, Alive, configVars, systemVars,
       memoryVars, historyVars
<1>10. CASE WriteConfig
  BY <1>10 DEF WriteConfig, WriteFile, RunGoes, Alive, historyVars
<1>11. CASE RestoreOpens
  BY <1>11 DEF RestoreOpens, BeheadFile, OpenFile, RunGoes, Alive, historyVars
<1> QED
  BY <1>0, <1>1, <1>2, <1>3, <1>4, <1>5, <1>6, <1>7, <1>8, <1>9, <1>10, <1>11, StepKinds

LEMMA GivenBackStep ==
  ASSUME TypeOK, TodoInv, GivenBack, [Next]_vars
  PROVE  GivenBack'
<1> USE DEF GivenBack
<1>0. CASE Death
  BY <1>0, DeathLeaves DEF Die, Forget, Nothing, systemVars
<1>1. CASE Quiet
  BY <1>1, QuietLeaves
<1>2. CASE Early
  BY <1>2, EarlyLeaves DEF NotYetSet
<1>3. CASE Start
  BY <1>3 DEF Start
<1>4. CASE Signal \/ StopperSends
  BY <1>4, ReceiveLeaves DEF Receive, ToRestore
<1>5. CASE SaveConfig \/ SetStep \/ WriteConfig \/ AwaitSignal
  BY <1>5 DEF SaveConfig, SetStep, SetConfig, WriteConfig, AwaitSignal, RunGoes
<1>6. CASE RestoreStep
  <2> SUFFICES ASSUME os = "darwin" PROVE GivenBack'
    BY <1>6 DEF RestoreStep, RestoreConfig, RestoreCommand, RestoreFails
  <2>1. run = "restore" /\ run' = "restore"
    BY <1>6 DEF RestoreStep, RestoreConfig, RunGoes
  <2>2. DOMAIN saved \subseteq Interfaces
    BY DEF TypeOK, ConfigTypeOK
  <2>3. PICK i \in DOMAIN saved :
            /\ todo' = todo \ {<<i, "v4">>}
            /\ UNCHANGED <<os, saved, before>> /\ failed \subseteq failed'
            /\ i \in failed' \/ servers'[<<i, "v4">>] = saved[i]
            /\ \A j \in Interfaces : j # i => servers'[<<j, "v4">>] = servers[<<j, "v4">>]
    BY <1>6, RestoreChanges
  <2> QED
    BY <2>1, <2>2, <2>3
<1>7. CASE RestoreDone
  BY <1>7 DEF RestoreDone, WriteFile, OpenFails, RunGoes, configVars, systemVars, memoryVars
<1>8. CASE Report
  BY <1>8 DEF Report, configVars, systemVars, memoryVars
<1>9. CASE RestoreOpens
  BY <1>9 DEF RestoreOpens, BeheadFile, OpenFile, RunGoes
<1> QED
  BY <1>0, <1>1, <1>2, <1>3, <1>4, <1>5, <1>6, <1>7, <1>8, <1>9, StepKinds

LEMMA FileStep ==
  ASSUME TypeOK, Untouched, TodoInv, FileInv, [Next]_vars
  PROVE  FileInv'
<1> USE DEF FileInv, OneInterface
<1>0. CASE Death
  BY <1>0, DeathLeaves DEF Die, Forget, Nothing
<1>1. CASE Quiet
  BY <1>1, QuietLeaves
<1>2. CASE Early
  BY <1>2, EarlyLeaves DEF NotYetSet
<1>3. CASE Start
  BY <1>3 DEF Start
<1>4. CASE Signal \/ StopperSends
  <2>3. UNCHANGED <<os, resolvConf, truncated, saved, newData, fileFault, before>>
    BY <1>4, ReceiveLeaves
  <2>1. CASE UNCHANGED <<run, todo>>
    BY <2>1, <2>3
  <2>2. CASE Receive
    <3>1. run = "await" /\ run' = "restore" /\ ~truncated
      BY <2>2 DEF Receive, TodoInv
    <3> QED
      BY <2>3, <3>1
  <2> QED
    BY <1>4, <2>1, <2>2, ReceiveLeaves
<1>5. CASE SaveConfig
  <2>1. PICK interfaces \in SUBSET Interfaces :
            Save(interfaces) /\ todo' = interfaces \X Versions
    BY <1>5, SaveLists
  <2>2. resolvConf' = before'.resolvConf /\ ~truncated'
    BY <1>5, <2>1 DEF SaveConfig, Save, RunGoes, Untouched, TodoInv, NotYetSet, systemVars,
       historyVars
  <2>3. DOMAIN saved' = interfaces
    BY <2>1 DEF Save
  <2>4. \A i \in interfaces : <<i, "v4">> \in todo'
    BY <2>1 DEF Versions
  <2> QED
    BY <1>5, <2>2, <2>3, <2>4 DEF SaveConfig, RunGoes
<1>6. CASE SetStep
  <2>1. PICK i \in Interfaces, v \in {"v4", "v6"} :
            RunGoes("set", "set") /\ (SetCommand(<<i, v>>) \/ PrependFile(<<i, v>>))
    BY <1>6 DEF SetStep, SetConfig
  <2>2. before' = before
    BY <1>6 DEF SetStep, SetConfig, historyVars
  <2>3. CASE SetCommand(<<i, v>>)
    BY <2>3 DEF SetCommand
  <2>4. CASE PrependFile(<<i, v>>)
    <3> SUFFICES ASSUME ~fileFault', OneInterface' PROVE FileInv'
      OBVIOUS
    <3>1. OpenFile(Prepended, <<Here, Comment>>) /\ todo' = todo \ {<<i, v>>}
      BY <2>4 DEF PrependFile, OpenFails
    <3>2. /\ os = "linux" /\ ~truncated /\ truncated' /\ saved' = saved
          /\ newData' = Prepended /\ ~fileFault
      BY <3>1 DEF OpenFile
    <3>3. <<i, v>> \in todo /\ run = "set" /\ run' = "set"
      BY <2>1, <2>4 DEF PrependFile, Ready, RunGoes
    <3>4. \A c, d \in todo : c = d
      BY <3>2, <3>3 DEF TodoInv, Versions
    <3>5. todo' = {} /\ resolvConf = before.resolvConf
      BY <3>1, <3>2, <3>3, <3>4
    <3> QED
      BY <2>2, <3>2, <3>3, <3>5 DEF Prepended
  <2> QED
    BY <2>1, <2>3, <2>4
<1>7. CASE WriteConfig
  BY <1>7, WriteLeaves DEF WriteConfig, RunGoes, historyVars
<1>8. CASE AwaitSignal
  BY <1>8 DEF AwaitSignal, RunGoes, configVars, systemVars, memoryVars, historyVars
<1>9. CASE RestoreStep
  BY <1>9 DEF RestoreStep, RestoreConfig, RestoreCommand, RestoreFails, RunGoes, TodoInv
<1>10. CASE RestoreOpens
  <2> SUFFICES ASSUME ~fileFault', OneInterface' PROVE FileInv'
    OBVIOUS
  <2>1. /\ os = "linux" /\ ~truncated /\ truncated' /\ ~fileFault
        /\ newData' = AllButFirstLine /\ UNCHANGED <<saved, before>>
        /\ run = "restore" /\ run' = "restore"
    BY <1>10 DEF RestoreOpens, BeheadFile, OpenFile, RunGoes, historyVars
  <2>2. resolvConf = <<Here, Comment>> \o before.resolvConf
    BY <2>1
  <2>3. before.resolvConf \in Seq(Lines) /\ Comment \in Lines /\ Here \in Lines
    BY DEF TypeOK, Lines
  <2>4. newData' = <<Comment>> \o before.resolvConf
    BY <2>1, <2>2, <2>3 DEF AllButFirstLine
  <2> QED
    BY <2>1, <2>4
<1>11. CASE RestoreDone
  <2> SUFFICES ASSUME os = "linux", ~fileFault', OneInterface' PROVE FileInv'
    BY <1>11 DEF RestoreDone, WriteFile, OpenFails, configVars
  <2>1. WriteFile /\ before' = before /\ run = "restore" /\ run' = "report"
    BY <1>11 DEF RestoreDone, OpenFails, RunGoes, historyVars
  <2> QED
    BY <2>1, WriteLeaves
<1>12. CASE Report
  BY <1>12 DEF Report, configVars, systemVars, memoryVars, historyVars
<1> QED
  BY <1>0, <1>1, <1>2, <1>3, <1>4, <1>5, <1>6, <1>7, <1>8, <1>9, <1>10, <1>11, <1>12,
     StepKinds

(* The prepended lines leave the end of resolv.conf as it was.             *)
LEMMA PrependedEndsIn ==
  ASSUME NEW file \in Seq(Lines), NEW end \in Seq(Lines), EndsIn(file, end)
  PROVE  EndsIn(<<Here, Comment>> \o file, end)
<1> DEFINE longer == <<Here, Comment>> \o file
<1>1. <<Here, Comment>> \in Seq(Lines)
  BY DEF Lines
<1>2. /\ Len(longer) = Len(file) + 2
      /\ \A k \in 1 .. Len(file) : longer[k + 2] = file[k]
  BY <1>1
<1>3. Len(end) \in Nat /\ Len(file) \in Nat /\ Len(end) <= Len(file)
  BY DEF EndsIn
<1>4. ASSUME NEW k \in 1 .. Len(end)
      PROVE  longer[Len(longer) - Len(end) + k] = end[k]
  <2> DEFINE j == Len(file) - Len(end) + k
  <2>1. j \in 1 .. Len(file) /\ Len(longer) - Len(end) + k = j + 2
    BY <1>2, <1>3
  <2>2. longer[j + 2] = file[j]
    BY <1>2, <2>1
  <2>3. file[j] = end[k]
    BY DEF EndsIn
  <2> QED
    BY <2>1, <2>2, <2>3
<1>5. Len(end) <= Len(longer)
  BY <1>2, <1>3
<1> QED
  BY <1>4, <1>5 DEF EndsIn

LEMMA OnlyAddedStep ==
  ASSUME TypeOK, Untouched, TodoInv, OnlyThisHostAdded, [Next]_vars
  PROVE  OnlyThisHostAdded'
<1> USE DEF OnlyThisHostAdded, Overwritten, EndsIn
<1>0. CASE Death
  <2>1. /\ UNCHANGED <<os, servers, resolvConf, truncated, fileFault, run, before>>
        /\ main' = "dead"
    BY <1>0, DeathLeaves DEF Die, systemVars
  <2> QED
    BY <2>1
<1>1. CASE Quiet
  <2>1. main = "dead" => main' = "dead"
    BY <1>1, QuietLeaves DEF CleanUp
  <2>2. /\ UNCHANGED <<os, servers, resolvConf, truncated, newData, fileFault, before>>
        /\ run' = run
    BY <1>1, QuietLeaves
  <2>3. CASE main' = "dead"
    BY <2>1, <2>2, <2>3
  <2> QED
    BY <2>1, <2>2, <2>3
<1>2. CASE Early
  BY <1>2, EarlyLeaves DEF NotYetSet
<1>3. CASE Start
  BY <1>3 DEF Start
<1>4. CASE Signal \/ StopperSends
  <2>1. /\ UNCHANGED <<os, servers, resolvConf, truncated, newData, fileFault, before>>
        /\ run' = run \/ run' = "restore"
        /\ main # "dead"
    BY <1>4, ReceiveLeaves DEF Receive, Alive
  <2> QED
    BY <2>1
<1>5. CASE SaveConfig
  <2>1. PICK interfaces \in SUBSET Interfaces : Save(interfaces)
    BY <1>5, SaveLists
  <2>2. servers' = before'.servers /\ resolvConf' = before'.resolvConf /\ ~truncated'
    BY <1>5, <2>1 DEF SaveConfig, RunGoes, Untouched, TodoInv, NotYetSet, Save, systemVars,
       historyVars
  <2>3. Len(resolvConf') \in Nat
    BY <1>5, <2>1 DEF Save, systemVars, TypeOK, ConfigTypeOK
  <2> QED
    BY <2>2, <2>3
<1>6. CASE SetStep
  <2>1. PICK i \in Interfaces, v \in {"v4", "v6"} :
            RunGoes("set", "set") /\ (SetCommand(<<i, v>>) \/ PrependFile(<<i, v>>))
    BY <1>6 DEF SetStep, SetConfig
  <2>2. before' = before /\ run = "set" /\ run' = "set" /\ os' = os
        /\ Alive
    BY <1>6, <2>1 DEF SetStep, SetConfig, historyVars, RunGoes, SetCommand, PrependFile,
       OpenFile, OpenFails
  <2>3. CASE OpenFails
    BY <2>2, <2>3 DEF OpenFails, systemVars
  <2>4. CASE OpenFile(Prepended, <<Here, Comment>>)
    <3>1. /\ ~truncated /\ truncated' /\ os = "linux"
          /\ fileFault' \/ (newData' = <<Here, Comment>> \o resolvConf /\ ~fileFault)
      BY <2>4 DEF OpenFile, Prepended, TypeOK, ConfigTypeOK
    <3>2. resolvConf \in Seq(Lines) /\ before.resolvConf \in Seq(Lines)
      BY DEF TypeOK, ConfigTypeOK
    <3>3. ASSUME ~fileFault' PROVE EndsIn(newData', before.resolvConf)
      <4>1. EndsIn(resolvConf, before.resolvConf)
        BY <2>2, <3>1, <3>3
      <4>2. EndsIn(<<Here, Comment>> \o resolvConf, before.resolvConf)
        BY <3>2, <4>1, PrependedEndsIn
      <4> QED
        BY <3>1, <3>3, <4>2
    <3> QED
      BY <2>2, <3>1, <3>3
  <2>5. CASE SetCommand(<<i, v>>)
    <3>1. /\ servers \in [Interfaces \X {"v4", "v6"} -> SUBSET (Servers \cup {Here})]
          /\ servers' = [servers EXCEPT ![<<i, v>>] = IF os = "darwin" THEN {Here}
                                                      ELSE @ \cup {Here}]
      BY <2>5 DEF SetCommand, TypeOK, ConfigTypeOK
    <3>2. CASE os = "darwin"
      BY <2>2, <3>1, <3>2
    <3>3. CASE os = "windows"
      BY <2>2, <3>1, <3>3
    <3> QED
      BY <2>2, <2>5, <3>2, <3>3 DEF SetCommand, TypeOK, ConfigTypeOK, Platforms
  <2> QED
    BY <2>1, <2>3, <2>4, <2>5 DEF PrependFile
<1>7. CASE AwaitSignal
  BY <1>7 DEF AwaitSignal, RunGoes, Alive, configVars, systemVars, memoryVars, historyVars
<1>8. CASE RestoreStep \/ RestoreOpens \/ RestoreDone \/ Report
  BY <1>8 DEF RestoreStep, RestoreConfig, RestoreOpens, RestoreDone, Report, RunGoes
<1>9. CASE WriteConfig
  <2>1. /\ os' = os /\ os = "linux" /\ before' = before /\ run = "set" /\ Alive
        /\ servers' = servers
    BY <1>9 DEF WriteConfig, WriteFile, RunGoes, TodoInv, historyVars
  <2> QED
    BY <1>9, <2>1, WriteLeaves DEF WriteConfig, Alive
<1> QED
  BY <1>0, <1>1, <1>2, <1>3, <1>4, <1>5, <1>6, <1>7, <1>8, <1>9, StepKinds

LEMMA WriterStep ==
  ASSUME TypeOK, ReadyBeforeSave, Ended, WriterInv, [Next]_vars
  PROVE  WriterInv'
<1> USE DEF TypeOK, WriterInv, NotYetSet, Alive, processVars, helperVars, fileVars,
            serverVars, queryVars, historyVars
<1>1. CASE Death
  BY <1>1, DeathLeaves DEF Die, NoProcess
<1>2. CASE Listen \/ ServersFileAppears \/ StopperSpins \/ CleanUp
  BY <1>2 DEF Listen, ServersFileAppears, StopperSpins, CleanUp, NoProcess, Ended
<1>3. CASE Monitor
  BY <1>3 DEF Monitor, MonitorQueries, MonitorWritten, FileWritten, TestIsStopped, MonitorRestarts
<1>4. CASE TestBegins \/ TestEnds \/ OrphanEnds
  BY <1>4 DEF TestBegins, TestEnds, OrphanEnds
<1>13. CASE Queries
  <2>1. CASE QueryAsks
    BY <2>1 DEF QueryAsks, ReadyBeforeSave, NotYetReady
  <2>2. CASE QueryWrites \/ QueryWritten
    BY <2>2 DEF QueryWrites, QueryWritten, FileWritten, Ended
  <2> QED
    BY <1>13, <2>1, <2>2 DEF Queries
<1>5. CASE RunBegin \/ ReadIpFile \/ QueryIp \/ IpWritten
  BY <1>5 DEF RunGoes, RunBegin, ReadIpFile, QueryIp, IpWritten, Launch
<1>6. CASE RunReturns
  BY <1>6 DEF RunGoes, RunReturns
<1>7. CASE StartServers \/ InitHandler
  BY <1>7 DEF RunGoes, StartServers, InitHandler
<1>8. CASE Start
  BY <1>8 DEF Start, NoProcess
<1>9. CASE Signal \/ StopperSends
  BY <1>9 DEF Signal, StopperSends, Receive
<1>10. CASE SaveConfig \/ SetStep \/ WriteConfig \/ AwaitSignal
  BY <1>10 DEF SaveConfig, SetStep, SetConfig, WriteConfig, AwaitSignal, RunGoes
<1>11. CASE RestoreStep \/ RestoreOpens \/ RestoreDone \/ Report
  BY <1>11 DEF RestoreStep, RestoreConfig, RestoreOpens, RestoreDone, Report, RunGoes
<1>12. CASE UNCHANGED vars
  BY <1>12 DEF vars
<1> QED
  BY <1>1, <1>2, <1>3, <1>4, <1>5, <1>6, <1>7, <1>8, <1>9, <1>10, <1>11, <1>12,
     <1>13, StepKinds
     DEF Quiet, Early

LEMMA SignalStep ==
  ASSUME TypeOK, Ended, SignalInv, [Next]_vars
  PROVE  SignalInv'
<1> USE DEF Ended, SignalInv, Alive, processVars
<1>1. CASE Death
  BY <1>1, DeathLeaves DEF Die, NoProcess
<1>2. CASE Listen \/ ServersFileAppears \/ StopperSpins \/ CleanUp \/ Queries
  BY <1>2 DEF Listen, ServersFileAppears, StopperSpins, CleanUp, NoProcess, Queries,
       QueryAsks, QueryWrites, QueryWritten
<1>3. CASE Monitor \/ TestBegins \/ TestEnds \/ OrphanEnds
  BY <1>3 DEF Monitor, MonitorQueries, MonitorWritten, TestIsStopped, MonitorRestarts,
       TestBegins, TestEnds, OrphanEnds
<1>4. CASE Early
  BY <1>4 DEF Early, RunGoes, RunBegin, ReadIpFile, RunReturns, QueryIp, IpWritten,
       Launch, StartServers, InitHandler
<1>5. CASE Start
  BY <1>5 DEF Start, NoProcess
<1>6. CASE Signal \/ StopperSends
  BY <1>6 DEF Signal, StopperSends, Receive
<1>7. CASE SaveConfig \/ SetStep \/ WriteConfig \/ AwaitSignal
  BY <1>7 DEF SaveConfig, SetStep, SetConfig, WriteConfig, AwaitSignal, RunGoes
<1>8. CASE RestoreStep \/ RestoreOpens \/ RestoreDone \/ Report
  BY <1>8 DEF RestoreStep, RestoreConfig, RestoreOpens, RestoreDone, Report, RunGoes
<1>9. CASE UNCHANGED vars
  BY <1>9 DEF vars
<1> QED
  BY <1>1, <1>2, <1>3, <1>4, <1>5, <1>6, <1>7, <1>8, <1>9, StepKinds DEF Quiet

-----------------------------------------------------------------------------
(* The theorems.                                                           *)

LEMMA InvariantInit == Init => IInv
<1> SUFFICES ASSUME Init PROVE IInv
  OBVIOUS
<1> USE DEF Init
<1>1. TypeOK
  BY TypeInit
<1>2. Untouched /\ ReadyBeforeSave /\ Ended /\ TodoInv
  BY DEF Untouched, ReadyBeforeSave, Ended, TodoInv, NotYetReady
<1>3. Kept /\ GivenBack /\ FileInv
  BY DEF Kept, AfterSave, GivenBack, FileInv
<1>4. TestsInv
  BY DEF TestsInv
<1>5. OnlyThisHostAdded /\ WriterInv /\ SignalInv
  BY DEF OnlyThisHostAdded, WriterInv, SignalInv, Alive
<1>6. FirstStart
  <2>1. /\ before.servers \in [Interfaces \X {"v4", "v6"} -> SUBSET Servers]
        /\ before.resolvConf \in Seq(Servers)
    BY UserAssumption
  <2> QED
    BY <2>1, HereAssumption DEF FirstStart
<1> QED
  BY <1>1, <1>2, <1>3, <1>4, <1>5, <1>6 DEF IInv

LEMMA InvariantStep == IInv /\ [Next]_vars => IInv'
BY TypeStep, UntouchedStep, ReadyStep, FirstStep, EndedStep, TodoStep, KeptStep, GivenBackStep,
   FileStep, TestsStep, OnlyAddedStep, WriterStep, SignalStep DEF IInv

THEOREM Invariance == Spec => []IInv
BY InvariantInit, InvariantStep, PTL DEF Spec, Safe

(* The system's lists and files, and all of the program's state, are what  *)
(* the code takes them for, through every start and crash.                 *)
THEOREM TypeCorrect == Spec => []TypeOK
<1>1. IInv => TypeOK
  BY DEF IInv
<1> QED
  BY <1>1, Invariance, PTL

(* restoreOldDNSServers gives back what saveCurrentDNSConfiguration found, *)
(* for any number of interfaces and servers.                               *)
THEOREM ConfigGivenBack == Spec => []CleanStopGivesBack
<1>1. IInv => CleanStopGivesBack
  <2> SUFFICES ASSUME IInv, main = "exited" PROVE CleanStopGivesBack
    BY DEF CleanStopGivesBack
  <2>1. run = "done"
    BY DEF IInv, Ended
  <2>2. ASSUME os = "darwin", NEW i \in Interfaces \ failed
        PROVE  servers[<<i, "v4">>] = IF i \in DOMAIN saved
                                      THEN before.servers[<<i, "v4">>] \ {Here}
                                      ELSE before.servers[<<i, "v4">>]
    BY <2>1, <2>2 DEF IInv, Kept, GivenBack, AfterSave
  <2>3. ASSUME os = "linux", ~fileFault, OneInterface
        PROVE  resolvConf = <<Comment>> \o before.resolvConf
    BY <2>1, <2>3 DEF IInv, FileInv
  <2> QED
    BY <2>2, <2>3 DEF CleanStopGivesBack, OneInterface
<1> QED
  BY <1>1, Invariance, PTL

(* A query meets a handler without maps only at a system that an earlier   *)
(* process has left pointing here.                                         *)
THEOREM EarlyQueryAfterCrash == Spec => []NilMapOnlyAfterCrash
<1>1. IInv => NilMapOnlyAfterCrash
  <2> SUFFICES ASSUME IInv, NilMapInReach PROVE starts > 1 /\ CurrentConfig = before
    BY DEF NilMapOnlyAfterCrash
  <2>1. run \in NotYetReady
    BY DEF IInv, ReadyBeforeSave, NilMapInReach
  <2>2. servers = before.servers /\ resolvConf = before.resolvConf
    BY <2>1 DEF IInv, Untouched, NotYetReady, NotYetSet
  <2>3. before = [servers |-> before.servers, resolvConf |-> before.resolvConf]
    BY DEF IInv, TypeOK
  <2>4. ~(starts <= 1)
    BY <2>2 DEF IInv, FirstStart, NilMapInReach, PointsHere
  <2>5. starts \in Nat
    BY BoundsAssumption DEF IInv, TypeOK
  <2> QED
    BY <2>2, <2>3, <2>4, <2>5 DEF CurrentConfig
<1> QED
  BY <1>1, Invariance, PTL

(* The monitor starts a config test only after it has stopped one.         *)
THEOREM OneConfigTest == Spec => []AtMostOneConfigTest
<1>1. IInv => AtMostOneConfigTest
  BY BoundsAssumption DEF IInv, TypeOK, TestsInv, AtMostOneConfigTest
<1> QED
  BY <1>1, Invariance, PTL

(* Before restoreOldDNSServers the process holds, or has left in place,    *)
(* what is needed to put things right; on windows, and on linux but for    *)
(* the moment in which the file is open, its death takes nothing away.     *)
THEOREM NothingLost == Spec => []NothingLostBeforeRestore
<1>1. IInv => NothingLostBeforeRestore
  <2> SUFFICES ASSUME IInv, run \notin {"restore", "report", "done"}
               PROVE  NothingLostBeforeRestore
    BY DEF NothingLostBeforeRestore
  <2>1. run \in NotYetSet \/ run \in {"set", "await"}
    BY DEF IInv, TypeOK, NotYetSet
  <2>2. CASE run \in NotYetSet
    <3>1. /\ servers = before.servers /\ resolvConf = before.resolvConf
          /\ ~truncated
      BY <2>2 DEF IInv, Untouched, TodoInv, NotYetSet
    <3>2. Len(resolvConf) \in Nat
      BY DEF IInv, TypeOK, ConfigTypeOK
    <3> QED
      BY <3>1, <3>2 DEF NothingLostBeforeRestore, Overwritten, EndsIn
  <2>3. CASE run \in {"set", "await"}
    BY <2>3 DEF IInv, OnlyThisHostAdded, Kept, AfterSave, Overwritten, Alive,
         NothingLostBeforeRestore
  <2> QED
    BY <2>1, <2>2, <2>3
<1> QED
  BY <1>1, Invariance, PTL

(* Until main removes ipInfo.json it is torn only in the hands of run or   *)
(* of the monitor, which take turns, or since an earlier process.          *)
THEOREM TornFileWritten == Spec => []TornFileIsBeingWritten
<1>1. IInv => TornFileIsBeingWritten
  BY DEF IInv, WriterInv, NotYetSet, TornFileIsBeingWritten
<1> QED
  BY <1>1, Invariance, PTL

(* Between the library, Stop and runOnoma no signal is lost.               *)
THEOREM SignalNotLost == Spec => []NoLostSignal
<1>1. IInv => NoLostSignal
  BY DEF IInv, SignalInv, Ended, Alive, NoLostSignal
<1> QED
  BY <1>1, Invariance, PTL
=============================================================================
