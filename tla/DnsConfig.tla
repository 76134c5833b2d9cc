------------------------------ MODULE DnsConfig ------------------------------
(***************************************************************************)
(* The DNS configuration of the operating system and what the program does *)
(* to it: saveCurrentDNSConfiguration, setDNSServer and                    *)
(* restoreOldDNSServers, on each of the three platforms.                   *)
(*                                                                         *)
(*   darwin   a list of servers per interface, replaced and put back       *)
(*   windows  lists per interface and IP version, put on top of and reset  *)
(*   linux    the lines of /etc/resolv.conf, prepended to and beheaded     *)
(*                                                                         *)
(* The actions constrain the configuration only; Lifecycle says when they  *)
(* happen.  The lists of darwin and windows are sets: their order is kept  *)
(* by everything the program does.                                         *)
(***************************************************************************)
EXTENDS Naturals, FiniteSets, Sequences

CONSTANTS
    Interfaces,   \* the network interfaces whose names match the keywords
    Servers,      \* the servers a user may have configured
    Here,         \* this host: 127.0.0.1, or ::1 for IPv6 on windows
    Comment       \* a line "#" of resolv.conf

ASSUME HereAssumption == Here \notin Servers /\ Comment # Here /\ Comment \notin Servers

VARIABLES
    os,           \* "darwin", "windows" or "linux"
    servers,      \* the servers of each interface and IP version
    resolvConf,   \* the lines of /etc/resolv.conf
    truncated,    \* is resolv.conf open and still empty?
    saved,        \* program.oldDNSServers
    newData,      \* what resolv.conf is to hold when it is open
    todo,         \* what the loop of set or restore has left
    failed,       \* interfaces whose list could not be put back
    fileFault     \* has resolv.conf failed to be read or written?

systemVars == <<servers, resolvConf, truncated>>
memoryVars == <<saved, newData, todo>>
configVars == <<os, systemVars, memoryVars, failed, fileFault>>

Platforms == {"darwin", "windows", "linux"}
Versions == IF os = "windows" THEN {"v4", "v6"} ELSE {"v4"}
Lines == Servers \cup {Here, Comment}

(* No old configuration, and the list that resets an interface ("empty").  *)
Nothing == [i \in {} |-> {}]
Empty == {}

ConfigTypeOK ==
    /\ os \in Platforms
    /\ servers \in [Interfaces \X {"v4", "v6"} -> SUBSET (Servers \cup {Here})]
    /\ resolvConf \in Seq(Lines) /\ newData \in Seq(Lines)
    /\ truncated \in BOOLEAN
    /\ DOMAIN saved \subseteq Interfaces
    /\ \A i \in DOMAIN saved : saved[i] \subseteq Servers
    /\ todo \subseteq Interfaces \X {"v4", "v6"}
    /\ failed \subseteq Interfaces
    /\ fileFault \in BOOLEAN

(* Does the system ask this host?                                          *)
PointsHere ==
    \/ \E i \in Interfaces, v \in {"v4", "v6"} : Here \in servers[<<i, v>>]
    \/ \E k \in DOMAIN resolvConf : resolvConf[k] = Here

-----------------------------------------------------------------------------
(* Nothing of the process is left.                                         *)
Forget == saved' = Nothing /\ newData' = <<>> /\ todo' = {}

(* Mutant of the next definition: this host is saved like any other server.*)
KeepHere(i) == servers[<<i, "v4">>]

(* Mutant of the next definition: every platform has the constant.         *)
ConstantEverywhere(i) == Empty

(* What save keeps of an interface.  Only darwin asks the system; on linux *)
(* and windows the answer is the constant 127.0.0.1.  This host is left    *)
(* out of the list, and what is left of the constant is "empty".           *)
OldServers(i) == IF os = "darwin" THEN servers[<<i, "v4">>] \ {Here} ELSE Empty

(* interfaces are those that are there now; none, if listing them fails.   *)
Save(interfaces) ==
    /\ saved' = [i \in interfaces |-> OldServers(i)]
    /\ UNCHANGED <<os, newData, failed, fileFault>>
    /\ UNCHANGED systemVars

-----------------------------------------------------------------------------
(* setDNSServer: a command per interface, in any order, as Go's maps have  *)
(* none; on windows two, of which the second follows at once.  An error is *)
(* fatal.                                                                  *)

Half == {c \in todo : c[2] = "v6" /\ <<c[1], "v4">> \notin todo}
Ready(c) == c \in todo /\ IF Half = {} THEN c[2] = "v4" ELSE c \in Half

SetCommand(c) ==
    /\ os # "linux"
    /\ Ready(c)
    /\ todo' = todo \ {c}
    /\ servers' = [servers EXCEPT ![c] = IF os = "darwin" THEN {Here} ELSE @ \cup {Here}]
    /\ UNCHANGED <<os, resolvConf, truncated, saved, newData, failed, fileFault>>

-----------------------------------------------------------------------------
(* linux.  The file is read, WriteFile opens and empties it, and writes.   *)
(* Errors are logged and nothing else: what could not be read is written   *)
(* over, what could not be opened stays, and a write that fails leaves as  *)
(* many lines as it got to.                                                *)

(* "nameserver 127.0.0.1" and "#" go in front of the file once for every   *)
(* interface.                                                              *)
Prepended == <<Here, Comment>> \o resolvConf

(* Mutant of the next definition: the comment is taken out as well.        *)
AllButTwoLines == IF Len(resolvConf) < 2 THEN <<>> ELSE Tail(Tail(resolvConf))

(* Everything after the first newline.                                     *)
AllButFirstLine == IF resolvConf = <<>> THEN <<>> ELSE Tail(resolvConf)

OpenFile(lines, unread) ==
    /\ os = "linux"
    /\ ~truncated
    /\ truncated' = TRUE
    /\ resolvConf' = <<>>
    /\ \/ newData' = lines /\ UNCHANGED fileFault
       \/ newData' = unread /\ fileFault' = TRUE
    /\ UNCHANGED <<os, servers, saved, failed>>

OpenFails ==
    /\ os = "linux"
    /\ ~truncated
    /\ fileFault' = TRUE
    /\ UNCHANGED <<os, systemVars, saved, newData, failed>>

WriteFile ==
    /\ truncated
    /\ truncated' = FALSE
    /\ \/ resolvConf' = newData /\ UNCHANGED fileFault
       \/ /\ \E n \in 0 .. Len(newData) : resolvConf' = SubSeq(newData, 1, n)
          /\ fileFault' = TRUE
    /\ newData' = <<>>
    /\ UNCHANGED <<os, servers, saved, todo, failed>>

PrependFile(c) ==
    /\ Ready(c)
    /\ todo' = todo \ {c}
    /\ OpenFile(Prepended, <<Here, Comment>>) \/ OpenFails

(* Once, however many interfaces there are.                                *)
BeheadFile == OpenFile(AllButFirstLine, <<>>) /\ UNCHANGED todo

-----------------------------------------------------------------------------
(* restoreOldDNSServers of darwin and windows, where the IPv4 list goes    *)
(* back to DHCP.                                                           *)

(* Mutant of the next definition: an error ends the loop, and with it the  *)
(* restoring of the interfaces that come later.                            *)
StopAtError(c) ==
    /\ os = "darwin"
    /\ c \in todo
    /\ todo' = {}
    /\ failed' = failed \cup {c[1]}
    /\ UNCHANGED <<os, systemVars, saved, newData, fileFault>>

(* darwin: an error is logged and the loop goes on.                        *)
RestoreFails(c) ==
    /\ os = "darwin"
    /\ c \in todo
    /\ todo' = todo \ {c}
    /\ failed' = failed \cup {c[1]}
    /\ UNCHANGED <<os, systemVars, saved, newData, fileFault>>

RestoreCommand(c) ==
    /\ os # "linux"
    /\ c \in todo
    /\ todo' = todo \ {c}
    /\ servers' = [servers EXCEPT ![c] = IF os = "darwin" THEN saved[c[1]] ELSE Empty]
    /\ UNCHANGED <<os, resolvConf, truncated, saved, newData, failed, fileFault>>
=============================================================================
