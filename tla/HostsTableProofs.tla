-------------------------- MODULE HostsTableProofs --------------------------
(***************************************************************************)
(* Lookups in the hosts table see one whole file, for any number of        *)
(* readers, any files and any number of changes of the file.               *)
(*                                                                         *)
(* While the file is scanned the table is that of the lines read so far    *)
(* (ScanInv), so at the end it is that of the whole file; nobody else      *)
(* writes it, so it stays that until the next scan (TableInv); and nobody  *)
(* reads it during a scan (LockInv).                                       *)
(***************************************************************************)
EXTENDS HostsTable, TLAPS

LockInv == writer = "scan" => \A r \in Readers : pc[r] = "idle"

ScanInv ==
    /\ writer \in {"opened", "lock"} => read = 0
    /\ writer = "scan" /\ ~torn => read <= Len(reading) /\ IsTableOf(table, reading, read)

TableInv == writer # "scan" /\ whole => IsTableOf(table, loaded, Len(loaded))

IInv == TypeOK /\ LockInv /\ ScanInv /\ TableInv

-----------------------------------------------------------------------------
(* What the lines say.                                                     *)

LEMMA NothingRead == \A lines : IsTableOf(NoTable, lines, 0)
BY DEF IsTableOf, Says, LinesFor, NoTable

(* Storing a line makes the table that of one line more.                   *)
LEMMA StoreLine ==
  ASSUME NEW lines \in Seq(Lines), NEW n \in Nat, n < Len(lines),
         table \in [Domains -> Addresses \cup {NoAddress}],
         IsTableOf(table, lines, n)
  PROVE  /\ Store(lines[n + 1]) \in [Domains -> Addresses \cup {NoAddress}]
         /\ IsTableOf(Store(lines[n + 1]), lines, n + 1)
<1> DEFINE line == lines[n + 1]
           new == Store(line)
<1>1. line \in Lines
  OBVIOUS
<1>2. Valid(line) => line.domain \in Domains /\ line.ip \in Addresses
  BY <1>1 DEF Lines, Valid
<1>3. new \in [Domains -> Addresses \cup {NoAddress}]
  BY <1>2 DEF Store
<1>4. ASSUME NEW d \in Domains PROVE Says(lines, n + 1, d, new[d])
  <2>1. Says(lines, n, d, table[d])
    BY DEF IsTableOf
  <2>2. CASE Valid(line) /\ line.domain = d
    <3>1. new[d] = line.ip
      BY <2>2 DEF Store
    <3>2. n + 1 \in LinesFor(lines, n + 1, d)
      BY <2>2 DEF LinesFor
    <3>3. \A j \in LinesFor(lines, n + 1, d) : j <= n + 1
      BY DEF LinesFor
    <3> QED
      BY <3>1, <3>2, <3>3 DEF Says
  <2>3. CASE ~(Valid(line) /\ line.domain = d)
    <3>1. new[d] = table[d]
      BY <1>2, <2>3 DEF Store
    <3>2. LinesFor(lines, n + 1, d) = LinesFor(lines, n, d)
      BY <2>3 DEF LinesFor
    <3> QED
      BY <2>1, <3>1, <3>2 DEF Says
  <2> QED
    BY <2>2, <2>3
<1> QED
  BY <1>3, <1>4 DEF IsTableOf

-----------------------------------------------------------------------------
(* The invariant.                                                          *)

LEMMA InvariantInit == Init => IInv
<1> SUFFICES ASSUME Init PROVE IInv
  OBVIOUS
<1> USE DEF Init
<1>1. NoTable \in [Domains -> Addresses \cup {NoAddress}]
  BY DEF NoTable
<1>2. TypeOK
  <2>1. asked \in [Readers -> Domains \X {"v4", "v6"}]
    OBVIOUS
  <2>2. edits \in 0 .. MaxEdits
    BY EditsAssumption
  <2>3. /\ pc \in [Readers -> {"idle", "locked", "read"}]
        /\ found \in [Readers -> Addresses \cup {NoAddress}]
    OBVIOUS
  <2>4. reading \in Seq(Lines) /\ loaded \in Seq(Lines)
    OBVIOUS
  <2> QED
    BY <1>1, <2>1, <2>2, <2>3, <2>4 DEF TypeOK
<1>3. IsTableOf(NoTable, loaded, Len(loaded))
  BY NothingRead
<1> QED
  BY <1>2, <1>3 DEF IInv, LockInv, ScanInv, TableInv

LEMMA TypeStep ==
  ASSUME IInv, [Next]_vars
  PROVE  TypeOK'
<1> USE DEF IInv, TypeOK, fileVars, writerVars, readerVars
<1>1. CASE Replace
  BY <1>1, EditsAssumption DEF Replace
<1>2. CASE Overwrite
  <2>1. edits' \in 0 .. MaxEdits
    BY <1>2, EditsAssumption DEF Overwrite
  <2>2. file' \in Files /\ file' \in Seq(Lines)
    BY <1>2, FilesAssumption DEF Overwrite
  <2>3. reading' \in {reading, file'} /\ torn' \in BOOLEAN
    BY <1>2 DEF Overwrite
  <2> QED
    BY <1>2, <2>1, <2>2, <2>3 DEF Overwrite
<1>3. CASE OpenFails \/ CallLock \/ Tick
  BY <1>3 DEF OpenFails, CallLock, Tick
<1>4. CASE Open
  BY <1>4, FilesAssumption DEF Open
<1>5. CASE LockAndClear
  BY <1>5 DEF LockAndClear, NoTable
<1>6. CASE ScanLine
  <2>1. reading[read + 1] \in Lines
    BY <1>6 DEF ScanLine
  <2>2. Store(reading[read + 1]) \in [Domains -> Addresses \cup {NoAddress}]
    BY <2>1 DEF Store, Valid, Lines
  <2> QED
    BY <1>6, <2>2 DEF ScanLine
<1>7. CASE Unlock \/ ScanFails
  BY <1>7 DEF Unlock, ScanFails, EndReading
<1>8. ASSUME NEW r \in Readers, NEW question \in Domains \X {"v4", "v6"}, Ask(r, question)
      PROVE  TypeOK'
  BY <1>8 DEF Ask
<1>9. ASSUME NEW r \in Readers, Read(r)
      PROVE  TypeOK'
  <2>1. asked[r][1] \in Domains
    OBVIOUS
  <2>2. InFamily(table[asked[r][1]], asked[r][2]) \in Addresses \cup {NoAddress}
    BY <2>1 DEF InFamily
  <2> QED
    BY <1>9, <2>2 DEF Read
<1>10. ASSUME NEW r \in Readers, RUnlock(r)
       PROVE  TypeOK'
  BY <1>10 DEF RUnlock
<1>11. CASE UNCHANGED vars
  BY <1>11 DEF vars
<1> QED
  BY <1>1, <1>2, <1>3, <1>4, <1>5, <1>6, <1>7, <1>8, <1>9, <1>10, <1>11 DEF Next, Refresh

(* The steps of the readers leave the table and its writer alone.          *)
ReaderStep ==
    \E r \in Readers : \/ \E question \in Domains \X {"v4", "v6"} : Ask(r, question)
                       \/ Read(r) \/ RUnlock(r)

LEMMA LockStep ==
  ASSUME IInv, [Next]_vars
  PROVE  LockInv'
<1> USE DEF IInv, LockInv, TypeOK, writerVars, readerVars
<1>1. CASE Replace \/ Overwrite
  BY <1>1 DEF Replace, Overwrite
<1>2. CASE Refresh \/ ScanFails
  BY <1>2 DEF Refresh, ScanFails, OpenFails, Open, CallLock, LockAndClear, ScanLine, Unlock,
       EndReading, Tick
<1>3. CASE ReaderStep
  BY <1>3 DEF ReaderStep, Ask, Read, RUnlock
<1>4. CASE UNCHANGED vars
  BY <1>4 DEF vars
<1> QED
  BY <1>1, <1>2, <1>3, <1>4 DEF Next, ReaderStep

LEMMA TableStep ==
  ASSUME IInv, [Next]_vars
  PROVE  ScanInv' /\ TableInv'
<1> USE DEF IInv, ScanInv, TableInv, writerVars
<1>1. CASE Replace
  BY <1>1 DEF Replace
<1>2. CASE Overwrite
  BY <1>2 DEF Overwrite
<1>3. CASE OpenFails \/ Open \/ CallLock \/ Tick
  BY <1>3 DEF OpenFails, Open, CallLock, Tick
<1>4. CASE LockAndClear
  <2>1. read' = 0 /\ table' = NoTable /\ writer' = "scan"
    BY <1>4 DEF LockAndClear
  <2>2. IsTableOf(table', reading', read')
    BY <2>1, NothingRead
  <2>3. Len(reading') \in Nat
    BY <1>4 DEF LockAndClear, TypeOK
  <2> QED
    BY <2>1, <2>2, <2>3
<1>5. CASE ScanLine
  <2>1. /\ writer = "scan" /\ writer' = "scan" /\ read < Len(reading)
        /\ read' = read + 1 /\ table' = Store(reading[read + 1])
        /\ UNCHANGED <<reading, torn>>
    BY <1>5 DEF ScanLine
  <2>2. ~torn => IsTableOf(table', reading', read')
    BY <2>1, StoreLine DEF TypeOK
  <2>3. read' <= Len(reading')
    BY <2>1 DEF TypeOK
  <2> QED
    BY <2>1, <2>2, <2>3
<1>6. CASE Unlock
  <2>1. /\ writer = "scan" /\ writer' = "tick" /\ read >= Len(reading)
        /\ loaded' = reading /\ whole' = ~torn /\ UNCHANGED table
    BY <1>6 DEF Unlock, EndReading
  <2>2. ~torn => read = Len(reading)
    BY <2>1 DEF TypeOK
  <2> QED
    BY <2>1, <2>2
<1>7. CASE ScanFails
  BY <1>7 DEF ScanFails, EndReading
<1>8. CASE ReaderStep
  BY <1>8 DEF ReaderStep, Ask, Read, RUnlock
<1>9. CASE UNCHANGED vars
  BY <1>9 DEF vars
<1> QED
  BY <1>1, <1>2, <1>3, <1>4, <1>5, <1>6, <1>7, <1>8, <1>9 DEF Next, Refresh, ReaderStep

LEMMA InvariantStep == IInv /\ [Next]_vars => IInv'
BY TypeStep, LockStep, TableStep DEF IInv

THEOREM Invariance == Spec => []IInv
BY InvariantInit, InvariantStep, PTL DEF Spec, Safe

(* Refresh fills the table with addresses of the file's domains only.      *)
THEOREM TypeCorrect == Spec => []TypeOK
<1>1. IInv => TypeOK
  BY DEF IInv
<1> QED
  BY <1>1, Invariance, PTL

(* Get never sees a table that Refresh is filling, nor one it has emptied  *)
(* because the file could not be opened.                                   *)
THEOREM LookupsSeeOneFile == Spec => LookupSeesOneFile
<1> DEFINE Whole(r) ==
               pc[r] = "locked" /\ pc'[r] = "read" /\ whole =>
                  \E ip \in Addresses \cup {NoAddress} :
                     /\ Says(loaded, Len(loaded), asked[r][1], ip)
                     /\ found'[r] = InFamily(ip, asked[r][2])
<1>1. ASSUME IInv, [Next]_vars PROVE [\A r \in Readers : Whole(r)]_vars
  <2> SUFFICES ASSUME NEW r \in Readers, ~UNCHANGED vars, whole,
                      pc[r] = "locked", pc'[r] = "read"
               PROVE  \E ip \in Addresses \cup {NoAddress} :
                         /\ Says(loaded, Len(loaded), asked[r][1], ip)
                         /\ found'[r] = InFamily(ip, asked[r][2])
    OBVIOUS
  <2>1. Read(r)
    BY <1>1 DEF IInv, TypeOK, Next, Refresh, Replace, Overwrite, ScanFails, OpenFails, Open,
         CallLock, LockAndClear, ScanLine, Unlock, EndReading, Tick, Ask, Read, RUnlock,
         writerVars, readerVars
  <2>2. found'[r] = InFamily(table[asked[r][1]], asked[r][2])
    BY <1>1, <2>1 DEF Read, IInv, TypeOK
  <2>3. asked[r][1] \in Domains /\ table[asked[r][1]] \in Addresses \cup {NoAddress}
    BY <1>1 DEF IInv, TypeOK
  <2>4. writer # "scan"
    BY <1>1 DEF IInv, LockInv
  <2>5. Says(loaded, Len(loaded), asked[r][1], table[asked[r][1]])
    BY <1>1, <2>3, <2>4 DEF IInv, TableInv, IsTableOf
  <2> QED
    BY <2>2, <2>3, <2>5
<1> QED
  BY <1>1, Invariance, PTL DEF LookupSeesOneFile, Spec, Safe
=============================================================================
