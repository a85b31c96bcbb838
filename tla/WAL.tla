-------------------------------- MODULE WAL ---------------------------------
(***************************************************************************)
(* The write-ahead log of internal/storage/wal.go: a file of JSON lines,   *)
(* its repair when it is opened after a crash, and what survives a crash   *)
(* of the process, a power loss, or either of them during the repair.      *)
(*                                                                         *)
(* An encoded event is three bytes here: everything up to its '}', the '}' *)
(* and the line feed.  The file is cut at any byte by a crash; a power     *)
(* loss also may leave bytes never written where unsynced ones were.       *)
(* Events are numbered in the order of their Append.                       *)
(***************************************************************************)
EXTENDS Naturals, SequencesExt

CONSTANTS MaxEvents,   \* bound: how many events are ever appended
          MaxBatch,    \* bound: events in one Append
          MaxCrashes,  \* bound: crashes and power losses
          JunkLengths  \* how many bytes of junk a power loss may leave

ASSUME LogAssumption ==
  /\ MaxEvents \in Nat /\ MaxBatch \in Nat /\ MaxCrashes \in Nat
  /\ JunkLengths \subseteq Nat

VARIABLES
  file,      \* the bytes the OS shows to a reader
  disk,      \* the bytes known to be on stable storage
  proc,      \* "down", "truncated" (repair under way), "open", "closed"
  broken,    \* a write has failed: bufio keeps returning that error
  next,      \* number of the next event
  crashes,
  kept,      \* ghost: the events that a reader of the file is entitled to
  written    \* ghost: the events ever put into this file, kept ones first

logVars == <<file, disk, proc, broken, next, crashes, kept, written>>

Body(e)  == [part |-> "body", of |-> e]
Brace(e) == [part |-> "brace", of |-> e]
LineFeed == [part |-> "line feed", of |-> 0]
Junk     == [part |-> "junk", of |-> 0]

\* json.Encoder on a batch of consecutive events.
Encode(first, n) ==
  [k \in 1..(3 * n) |->
     LET e == first + (k - 1) \div 3
     IN CASE k % 3 = 1 -> Body(e) [] k % 3 = 2 -> Brace(e) [] OTHER -> LineFeed]

\* scan from byte i on: the events read, and the offset just after the last of them.
\* Anything that is neither blank nor a whole event ends the reading.
Scan(f) ==
  LET from[i \in 1..(Len(f) + 1)] ==
        IF i > Len(f) THEN [events |-> <<>>, good |-> 0]
        ELSE IF f[i] = LineFeed THEN from[i + 1]
        ELSE IF f[i].part = "body" /\ i < Len(f) /\ f[i + 1] = Brace(f[i].of)
          THEN LET rest == from[i + 2]
               IN [events |-> <<f[i].of>> \o rest.events,
                   good   |-> IF rest.good = 0 THEN i + 1 ELSE rest.good]
        ELSE [events |-> <<>>, good |-> 0]
  IN from[1]

\* ReadAll
ReadAll == Scan(file).events
Good == Scan(file).good

LogInit ==
  /\ file = <<>> /\ disk = <<>> /\ proc = "down" /\ broken = FALSE
  /\ next = 1 /\ crashes = 0 /\ kept = <<>> /\ written = <<>>

-----------------------------------------------------------------------------
(* NewWAL: every system call of repairTail is a step, so that a crash may    *)
(* fall between them.                                                        *)

Prefix(s, n) == SubSeq(s, 1, n)

\* Once the file is open and read, its events are the past that main replays.
Opened == proc' = "open" /\ kept' = Scan(file').events /\ written' = kept'

FaultyRepairTear ==
  /\ proc = "down"
  /\ IF Len(file) = Good + 1
       THEN UNCHANGED file
       ELSE file' = <<>>
  /\ Opened
  /\ UNCHANGED <<disk, broken, next, crashes>>

FaultyRepairTruncate ==
  /\ proc = "down"
  /\ UNCHANGED file
  /\ Opened
  /\ UNCHANGED <<disk, broken, next, crashes>>

\* The three cases of the switch that do not write the line feed first.
RepairTruncate ==
  /\ proc = "down"
  /\ IF Good = 0
       THEN file' = <<>> /\ Opened
     ELSE IF Len(file) = Good + 1
       THEN UNCHANGED file /\ Opened
     ELSE /\ file' = IF Len(file) = Good THEN file ELSE Prefix(file, Good)
          /\ proc' = "truncated"
          /\ UNCHANGED <<kept, written>>
  /\ UNCHANGED <<disk, broken, next, crashes>>

FaultyRepairLineFeed ==
  /\ proc = "truncated"
  /\ UNCHANGED file
  /\ Opened
  /\ UNCHANGED <<disk, broken, next, crashes>>

RepairLineFeed ==
  /\ proc = "truncated"
  /\ file' = Append(file, LineFeed)
  /\ Opened
  /\ UNCHANGED <<disk, broken, next, crashes>>

-----------------------------------------------------------------------------
Batches == {n \in 1..MaxBatch : next + n - 1 <= MaxEvents}
Numbers(first, n) == [i \in 1..n |-> first + i - 1]

\* Append returns nil: the whole batch has reached the OS.
AppendOk ==
  /\ proc = "open" /\ ~broken
  /\ \E n \in Batches :
       /\ file' = file \o Encode(next, n)
       /\ next' = next + n
       /\ kept' = kept \o Numbers(next, n)
       /\ written' = written \o Numbers(next, n)
  /\ UNCHANGED <<disk, proc, broken, crashes>>

\* Some bytes of the batch have reached the OS when the write fails, or when the
\* process dies in it.
PartOfBatch ==
  \E n \in Batches : \E b \in 0..(3 * n - 1) :
    /\ file' = file \o Prefix(Encode(next, n), b)
    /\ next' = next + n
    /\ written' = written \o Numbers(next, n)

AppendFails ==
  /\ proc = "open" /\ ~broken
  /\ PartOfBatch
  /\ broken' = TRUE
  /\ UNCHANGED <<disk, proc, crashes, kept>>

\* Sync, and the final one of Close (whose Flush has nothing to add: Append has
\* flushed, or the buffer is stuck on its error).
Sync ==
  /\ proc = "open"
  /\ disk' = file
  /\ UNCHANGED <<file, proc, broken, next, crashes, kept, written>>

CloseLog ==
  /\ proc = "open"
  /\ disk' \in {file, disk}
  /\ proc' = "closed"
  /\ UNCHANGED <<file, broken, next, crashes, kept, written>>

-----------------------------------------------------------------------------
(* Crashes *)

Down == proc' = "down" /\ broken' = FALSE /\ crashes' = crashes + 1

\* The process dies, or ends after Close: what the OS has, it keeps.
Crash ==
  /\ proc # "down" /\ crashes < MaxCrashes
  /\ Down
  /\ UNCHANGED <<file, disk, next, kept, written>>

CrashInAppend ==
  /\ proc = "open" /\ ~broken /\ crashes < MaxCrashes
  /\ PartOfBatch
  /\ Down
  /\ UNCHANGED <<disk, kept>>

\* Bytes up to the first difference between file and disk cannot be lost.
Settled == Len(LongestCommonPrefix({file, disk}))

\* The power fails: of what was not synced some bytes are there, and junk may
\* follow them; or the disk is as it was at the last fsync.
PowerLoss ==
  /\ crashes < MaxCrashes
  /\ Down
  /\ \/ \E n \in Settled..Len(file), j \in JunkLengths :
          /\ n + j <= Len(file)
          /\ file' = Prefix(file, n) \o [k \in 1..j |-> Junk]
     \/ file' = disk
  /\ disk' = file'
  /\ kept' = LongestCommonPrefix({kept, Scan(disk).events})
  /\ UNCHANGED <<next, written>>

LogNext ==
  \/ RepairTruncate \/ RepairLineFeed
  \/ AppendOk \/ AppendFails \/ Sync \/ CloseLog
  \/ Crash \/ CrashInAppend \/ PowerLoss

LogSpec == LogInit /\ [][LogNext]_logVars

-----------------------------------------------------------------------------
\* Every variable has its type; the writer's sticky error ends with its process.
LogTypeOK ==
  /\ proc \in {"down", "truncated", "open", "closed"}
  /\ broken \in BOOLEAN /\ (broken => proc \in {"open", "closed"})
  /\ next \in 1..(MaxEvents + 1) /\ crashes \in 0..MaxCrashes
  /\ \A s \in {ReadAll, kept, written} : s \in Seq(1..MaxEvents)

\* Whatever crashes happened and wherever they fell, the events a reader of the
\* file was promised are there, first and in order: those Append returned for as
\* long as the machine is up, those fsynced for good, those of an earlier life
\* that were found when the file was opened.  And nothing is read that was not
\* appended, in the order it was appended.
NothingLostNothingInvented ==
  /\ LogTypeOK
  /\ IsPrefix(kept, ReadAll)
  /\ \A i \in DOMAIN ReadAll : \E j \in DOMAIN written : ReadAll[i] = written[j]
  /\ \A i, j \in DOMAIN ReadAll : i < j => ReadAll[i] < ReadAll[j]

\* What main replays when the file is opened is what was promised to a reader before
\* the repair, and no event that was never appended (wal.go 42-101, 220).
ReplayIsTrue ==
  [][ proc # "open" /\ proc' = "open" =>
        /\ IsPrefix(kept, kept')
        /\ \A i \in DOMAIN kept' : \E j \in DOMAIN written : kept'[i] = written[j]
    ]_logVars

\* An opened file with events in it is ready for the next Append: it ends with
\* the line feed of its last event ("garante que o arquivo termine em '\n'",
\* wal.go:62-63).
EndsInLineFeed ==
  proc = "open" /\ ~broken /\ file # <<>> => file[Len(file)] = LineFeed
=============================================================================
