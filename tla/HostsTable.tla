----------------------------- MODULE HostsTable -----------------------------
(***************************************************************************)
(* hosts.Hosts: the table of the hosts file, read again by one goroutine   *)
(* at every tick and asked by the handler's goroutines, under an RWMutex   *)
(* (hosts.go).  Meanwhile the user replaces the file, writes into it or    *)
(* removes it.                                                             *)
(*                                                                         *)
(* A line is the two fields Refresh takes from it; comments and whatever   *)
(* else is no domain or no address have NoDomain or NoAddress there.       *)
(***************************************************************************)
EXTENDS Naturals, Sequences

CONSTANTS
    Readers,      \* goroutines of the handler
    Domains,      \* domains, in lower case
    Addresses4,   \* IPv4 addresses
    Addresses6,   \* IPv6 addresses
    NoDomain, NoAddress,
    Files,        \* what the file may hold: sequences of lines
    Missing,      \* the file that cannot be opened
    MaxEdits      \* bound on the changes of the file

Addresses == Addresses4 \cup Addresses6
Lines == [domain : Domains \cup {NoDomain}, ip : Addresses \cup {NoAddress}]

ASSUME NamesAssumption == NoDomain \notin Domains /\ NoAddress \notin Addresses
ASSUME FilesAssumption == Files \subseteq Seq(Lines) /\ Missing \notin Seq(Lines)
ASSUME EditsAssumption == MaxEdits \in Nat

VARIABLES
    file,      \* the hosts file
    edits,     \* how often it was changed
    table,     \* FileHosts.hosts, NoAddress where there is no entry
    writer,    \* control state of the refreshing goroutine
    reading,   \* what the open file holds
    read,      \* how many of its lines have been read
    torn,      \* has this reading missed or mixed anything?
    loaded,    \* the file of the last reading that has ended
    whole,     \* was that reading not torn?
    pc,        \* control state of each reader
    asked,     \* the domain and the family it asks for
    found      \* the address it was given

fileVars == <<file, edits>>
writerVars == <<table, writer, reading, read, torn, loaded, whole>>
readerVars == <<pc, asked, found>>
vars == <<fileVars, writerVars, readerVars>>

NoTable == [d \in Domains |-> NoAddress]

TypeOK ==
    /\ file \in Files \cup {Missing}
    /\ edits \in 0 .. MaxEdits
    /\ table \in [Domains -> Addresses \cup {NoAddress}]
    /\ writer \in {"open", "opened", "lock", "scan", "tick"}
    /\ reading \in Seq(Lines) /\ loaded \in Seq(Lines)
    /\ read \in Nat
    /\ torn \in BOOLEAN /\ whole \in BOOLEAN
    /\ pc \in [Readers -> {"idle", "locked", "read"}]
    /\ asked \in [Readers -> Domains \X {"v4", "v6"}]
    /\ found \in [Readers -> Addresses \cup {NoAddress}]

(* NewHosts: an empty table, and the goroutine starts.                     *)
Init ==
    /\ file \in Files \cup {Missing}
    /\ edits = 0
    /\ table = NoTable
    /\ writer = "open"
    /\ reading = <<>> /\ read = 0 /\ torn = FALSE
    /\ loaded = <<>> /\ whole = TRUE
    /\ pc = [r \in Readers |-> "idle"]
    /\ asked \in [Readers -> Domains \X {"v4"}]
    /\ found = [r \in Readers |-> NoAddress]

-----------------------------------------------------------------------------
(* The user.                                                               *)

(* A new file takes the place of the old one, or none: who has the old one *)
(* open goes on reading that.                                              *)
Replace ==
    /\ edits < MaxEdits
    /\ edits' = edits + 1
    /\ file' \in Files \cup {Missing}
    /\ UNCHANGED <<writerVars, readerVars>>

(* A write into the file itself.  A reading it overtakes may go on in the  *)
(* new content or, from its buffer, in the old.                            *)
Overwrite ==
    /\ edits < MaxEdits
    /\ edits' = edits + 1
    /\ file # Missing
    /\ file' \in Files
    /\ IF writer \in {"opened", "lock", "scan"}
         THEN reading' \in {reading, file'} /\ torn' = TRUE
         ELSE UNCHANGED <<reading, torn>>
    /\ UNCHANGED <<table, writer, read, loaded, whole, readerVars>>

-----------------------------------------------------------------------------
(* Refresh.                                                                *)

(* Mutant of the next definition: the table is cleared before the file is  *)
(* opened.                                                                 *)
FailsAfterClear ==
    /\ writer = "open"
    /\ file = Missing
    /\ writer' = "tick"
    /\ table' = NoTable
    /\ UNCHANGED <<fileVars, reading, read, torn, loaded, whole, readerVars>>

(* "Update hosts records from file failed": the table stays.               *)
OpenFails ==
    /\ writer = "open"
    /\ file = Missing
    /\ writer' = "tick"
    /\ UNCHANGED <<fileVars, table, reading, read, torn, loaded, whole, readerVars>>

Open ==
    /\ writer = "open"
    /\ file # Missing
    /\ writer' = "opened"
    /\ reading' = file /\ read' = 0 /\ torn' = FALSE
    /\ UNCHANGED <<fileVars, table, loaded, whole, readerVars>>

(* mu.Lock is called: from now on it goes before new readers.              *)
CallLock ==
    /\ writer = "opened"
    /\ writer' = "lock"
    /\ UNCHANGED <<fileVars, table, reading, read, torn, loaded, whole, readerVars>>

(* Mutant of the next definition: the old entries stay.                    *)
LockOnly ==
    /\ writer = "lock"
    /\ \A r \in Readers : pc[r] = "idle"
    /\ writer' = "scan"
    /\ UNCHANGED <<fileVars, table, reading, read, torn, loaded, whole, readerVars>>

(* mu.Lock returns once the readers have gone; clear.                      *)
LockAndClear ==
    /\ writer = "lock"
    /\ \A r \in Readers : pc[r] = "idle"
    /\ writer' = "scan"
    /\ table' = NoTable
    /\ UNCHANGED <<fileVars, reading, read, torn, loaded, whole, readerVars>>

Valid(line) == line.domain # NoDomain /\ line.ip # NoAddress

(* Mutant of the next definition: the last field is taken for the address, *)
(* too.                                                                    *)
StoreLastField(line) ==
    IF Valid(line) THEN [table EXCEPT ![line.domain] = line.domain] ELSE table

(* A later line overrules an earlier one.                                  *)
Store(line) ==
    IF Valid(line) THEN [table EXCEPT ![line.domain] = line.ip] ELSE table

ScanLine ==
    /\ writer = "scan"
    /\ read < Len(reading)
    /\ read' = read + 1
    /\ table' = Store(reading[read + 1])
    /\ UNCHANGED <<fileVars, writer, reading, torn, loaded, whole, readerVars>>

EndReading(complete) ==
    /\ writer = "scan"
    /\ writer' = "tick"
    /\ loaded' = reading
    /\ whole' = complete /\ torn' = ~complete
    /\ UNCHANGED <<fileVars, table, reading, read, readerVars>>

(* The end of the file: the deferred mu.Unlock.                            *)
Unlock == read >= Len(reading) /\ EndReading(~torn)

(* An error, or a line that is too long, ends the scan as well: nothing    *)
(* asks the scanner for it.                                                *)
ScanFails == read < Len(reading) /\ EndReading(FALSE)

Tick ==
    /\ writer = "tick"
    /\ writer' = "open"
    /\ UNCHANGED <<fileVars, table, reading, read, torn, loaded, whole, readerVars>>

Refresh == OpenFails \/ Open \/ CallLock \/ LockAndClear \/ ScanLine \/ Unlock \/ Tick

-----------------------------------------------------------------------------
(* Get.                                                                    *)

(* Mutant of the next definition: the table is read without the lock.      *)
AskUnlocked(r, question) ==
    /\ pc[r] = "idle"
    /\ pc' = [pc EXCEPT ![r] = "locked"]
    /\ asked' = [asked EXCEPT ![r] = question]
    /\ UNCHANGED <<fileVars, writerVars, found>>

(* mu.RLock: a writer that holds the lock or waits for it goes first.      *)
Ask(r, question) ==
    /\ pc[r] = "idle"
    /\ writer \notin {"lock", "scan"}
    /\ pc' = [pc EXCEPT ![r] = "locked"]
    /\ asked' = [asked EXCEPT ![r] = question]
    /\ UNCHANGED <<fileVars, writerVars, found>>

(* An IPv6 address has no To4; an IPv4 address has a To16.                 *)
InFamily(ip, family) == IF family = "v4" /\ ip \notin Addresses4 THEN NoAddress ELSE ip

Read(r) ==
    /\ pc[r] = "locked"
    /\ pc' = [pc EXCEPT ![r] = "read"]
    /\ found' = [found EXCEPT ![r] = InFamily(table[asked[r][1]], asked[r][2])]
    /\ UNCHANGED <<fileVars, writerVars, asked>>

(* Mutant of the next definition: a lookup that finds nothing returns with *)
(* the lock held.                                                          *)
UnlockIfFound(r) ==
    /\ pc[r] = "read"
    /\ found[r] # NoAddress
    /\ pc' = [pc EXCEPT ![r] = "idle"]
    /\ UNCHANGED <<fileVars, writerVars, asked, found>>

RUnlock(r) ==
    /\ pc[r] = "read"
    /\ pc' = [pc EXCEPT ![r] = "idle"]
    /\ UNCHANGED <<fileVars, writerVars, asked, found>>

-----------------------------------------------------------------------------
Next ==
    \/ Replace \/ Overwrite
    \/ Refresh \/ ScanFails
    \/ \E r \in Readers : \/ \E question \in Domains \X {"v4", "v6"} : Ask(r, question)
                          \/ Read(r) \/ RUnlock(r)

Safe == Init /\ [][Next]_vars

(* The goroutines run and the ticker ticks.                                *)
Spec == Safe /\ WF_vars(Refresh) /\ \A r \in Readers : WF_vars(Read(r) \/ RUnlock(r))

-----------------------------------------------------------------------------
(* Properties.                                                             *)

(* What the first n lines say of domain d: the address in the last valid   *)
(* line for it.                                                            *)
LinesFor(lines, n, d) == {k \in 1 .. n : Valid(lines[k]) /\ lines[k].domain = d}
Says(lines, n, d, ip) ==
    IF LinesFor(lines, n, d) = {} THEN ip = NoAddress
    ELSE \E k \in LinesFor(lines, n, d) :
            /\ ip = lines[k].ip
            /\ \A j \in LinesFor(lines, n, d) : j <= k

IsTableOf(t, lines, n) == \A d \in Domains : Says(lines, n, d, t[d])

(* A lookup is answered from the whole of one file, the last that was read *)
(* to its end: never from a table that is being filled, nor with what a    *)
(* file said before that, nor from an empty table because the file is gone *)
(* for the moment.  This holds unless that reading was torn.               *)
LookupSeesOneFile ==
    [][\A r \in Readers :
          pc[r] = "locked" /\ pc'[r] = "read" /\ whole =>
             \E ip \in Addresses \cup {NoAddress} :
                /\ Says(loaded, Len(loaded), asked[r][1], ip)
                /\ found'[r] = InFamily(ip, asked[r][2])]_vars

(* Once the file is there to stay and readings are no longer torn, the     *)
(* table becomes that file's and stays so: readers cannot keep the         *)
(* refreshing goroutine out for ever.                                      *)
TableSettles ==
    <>[](file # Missing /\ ~torn) =>
        <>[](writer = "scan" \/ (file # Missing /\ IsTableOf(table, file, Len(file))))
=============================================================================
