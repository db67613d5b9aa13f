------------------------------ MODULE ToolLog ------------------------------
(***************************************************************************)
(* A log file and the ToolLogs that are open on it: append, rotation with a *)
(* failure at each of its steps, the buffer in memory, and the snapshot of   *)
(* a file somebody else writes.                                             *)
(*                                                                         *)
(* A ToolLog is used under its mutex, one line at a time.  The log of an     *)
(* elevated tool has two of them: one in the manager, whose proxy thread     *)
(* reports there and whose window shows the file, and one in the helper.     *)
(* These share nothing but the file system, so their steps interleave.       *)
(***************************************************************************)
EXTENDS Integers, Sequences, FiniteSets, SequencesExt

CONSTANTS
    Manager, Helper,    \* the two ToolLogs
    LineCapacity,       \* ToolLog::line_capacity
    ByteCapacity,       \* ToolLog::byte_capacity
    MaxFileBytes,       \* ToolLog::max_file_bytes
    MaxTailBytes,       \* MAX_TAIL_BYTES, what a snapshot reads of a file
    LineBytes,          \* bound: the lengths of the lines written
    MaxLines,           \* bound: the lines written
    OldBytes,           \* bound: the lengths of the line an earlier run left
    Faults,             \* bound: the kinds of fault that happen, each at most once
    MaxFaults,          \* bound: the faults that happen
    None

\* AppConfig::validate: the capacities are positive, and a file has room for any line.
ASSUME CapacityAssumption ==
    /\ LineCapacity \in Nat \ {0} /\ ByteCapacity \in Nat \ {0}
    /\ MaxFileBytes \in Nat /\ MaxTailBytes \in Nat
    /\ LineBytes \subseteq Nat \ {0}
    /\ \A n \in LineBytes : n + 1 <= MaxFileBytes
ASSUME BoundAssumption ==
    /\ MaxLines \in Nat /\ OldBytes \subseteq Nat \ {0} /\ MaxFaults \in Nat
    /\ Faults \subseteq {"open", "append", "remove", "rename", "read"}
    /\ Manager # Helper

VARIABLES
    shared,     \* the helper runs and has the log open too
    file,       \* the file, or None
    backup,     \* log.1, or None
    pc,         \* where each ToolLog is: "idle" when its mutex is free
    handle,     \* where what it writes goes: "file", "backup", "gone" (removed) or "none"
    count,      \* LogInner::file_bytes
    line,       \* the line it writes
    lines,      \* LogInner::lines of the manager's
    buffered,   \* LogInner::buffered_bytes of the manager's
    cached,     \* LogInner::external_length of the manager's, or None
    measured,   \* the length a snapshot under way has read, or None
    next,       \* the number of the next line
    left,       \* history: bytes failed appends left in the file since it was opened
    logged,     \* history: the lines written to the file, or to what was the file
    hit,        \* history: the lines whose write was hit by a fault
    disturbed,  \* history: the file was replaced, or written by the manager, since the helper has it
    faults      \* history: the faults so far

bufferVars == <<lines, buffered, cached, measured>>
history == <<logged, hit, disturbed>>
vars == <<shared, file, backup, pc, handle, count, line, bufferVars, next, left, history, faults>>

-----------------------------------------------------------------------------
Logs == {Manager, Helper}
Given == [id : 1..MaxLines, bytes : LineBytes]
Line == [id : 0..MaxLines, bytes : Nat \ {0}]

\* The lines, and the length of what a failed append left behind the last of them
File == [lines : Seq(Line), torn : Nat]

\* None is told from every value it stands beside.
ASSUME NoneAssumption == None \notin Nat /\ None \notin Line /\ None \notin File

Bytes(ls) ==
    LET sum[n \in 0..Len(ls)] == IF n = 0 THEN 0 ELSE sum[n - 1] + ls[n].bytes
    IN  sum[Len(ls)]

\* On disk each line ends with a newline.
DiskBytes(ls) == Bytes(ls) + Len(ls)

Length(f) == DiskBytes(f.lines) + f.torn

\* What str::lines makes of it
Texts(f) == IF f.torn = 0 THEN f.lines ELSE Append(f.lines, [id |-> 0, bytes |-> f.torn])

EmptyFile == [lines |-> <<>>, torn |-> 0]

\* The buffer without its first n lines
Without(ls, n) == SubSeq(ls, n + 1, Len(ls))

\* The loop of push_bounded goes by its count of bytes, right or wrong.
Popped(ls, bytes, capacity) ==
    CHOOSE n \in 0..Len(ls) :
        LET Enough(k) == \/ k = Len(ls)
                         \/ /\ Len(ls) - k <= capacity
                            /\ bytes - Bytes(SubSeq(ls, 1, k)) <= ByteCapacity
        IN  Enough(n) /\ \A k \in 0..n - 1 : ~Enough(k)

\* What is read of a file from there on: if that is not its start, from the first newline.
TailFrom(ls, start) ==
    IF start <= 0 THEN ls
    ELSE LET Past(k) == k = Len(ls) \/ DiskBytes(SubSeq(ls, 1, k)) > start
         IN  Without(ls, CHOOSE n \in 0..Len(ls) : Past(n) /\ \A k \in 0..n - 1 : ~Past(k))

Latest(ls) == Without(ls, IF Len(ls) > LineCapacity THEN Len(ls) - LineCapacity ELSE 0)

\* What a snapshot takes from a file whose length was measured before it is read
Shown(f, length) ==
    LET all == Latest(TailFrom(Texts(f), length - MaxTailBytes))
    IN  Without(all, Popped(all, Bytes(all), Len(all)))

Fault(kind) ==
    /\ kind \in Faults \ faults /\ Cardinality(faults) < MaxFaults
    /\ faults' = faults \cup {kind}

Lost(w) == hit' = hit \cup {line[w].id} /\ UNCHANGED <<logged, disturbed>>

Go(w, from, to) == pc[w] = from /\ pc' = [pc EXCEPT ![w] = to]

Redirect(from, to) == [w \in Logs |-> IF handle[w] = from THEN to ELSE handle[w]]

-----------------------------------------------------------------------------
\* An earlier run may have left a file, of any length; ToolLog::open has opened it.
Init ==
    /\ shared \in BOOLEAN
    /\ file \in {EmptyFile}
              \cup {[lines |-> <<[id |-> 0, bytes |-> n]>>, torn |-> 0] : n \in OldBytes}
              \cup {[lines |-> <<>>, torn |-> n] : n \in OldBytes}
    /\ backup = None
    /\ pc = [w \in Logs |-> "idle"]
    /\ handle = [w \in Logs |-> "file"]
    /\ count = [w \in Logs |-> Length(file)]
    /\ line = [w \in Logs |-> None]
    /\ lines = <<>> /\ buffered = 0 /\ cached = None /\ measured = None
    /\ next = 1 /\ left = 0 /\ logged = {} /\ hit = {} /\ disturbed = FALSE
    /\ faults = {}

\* write takes the mutex; each line of a message is a write of its own.
Write(w, bytes) ==
    /\ w = Helper => shared
    /\ next <= MaxLines
    /\ Go(w, "idle", "check")
    /\ line' = [line EXCEPT ![w] = [id |-> next, bytes |-> bytes]]
    /\ next' = next + 1
    /\ disturbed' = (disturbed \/ (shared /\ w = Manager))
    /\ UNCHANGED <<shared, file, backup, handle, count, bufferVars, left, logged, hit, faults>>

(* open_private_log, where the file was left closed and at the end of a rotation *)

\* Mutant: the file is truncated instead of appended to.
OpenedEmpty(w) ==
    /\ file' = EmptyFile
    /\ handle' = [handle EXCEPT ![w] = "file"]
    /\ count' = [count EXCEPT ![w] = 0] /\ left' = 0

Opened(w) ==
    /\ file' = IF file = None THEN EmptyFile ELSE file
    /\ handle' = [handle EXCEPT ![w] = "file"]
    /\ count' = [count EXCEPT ![w] = Length(file')] /\ left' = 0

\* Mutant: a file that was left closed stays closed.
OpenNothing(w) ==
    /\ Go(w, "check", "push") /\ handle[w] = "none"
    /\ UNCHANGED <<shared, file, backup, handle, count, line, bufferVars, next, left, history,
                   faults>>

OpenFile(w) ==
    /\ handle[w] = "none"
    /\ \/ Go(w, "check", "check") /\ Opened(w) /\ UNCHANGED <<history, faults>>
       \/ /\ Go(w, "check", "push") /\ Fault("open") /\ Lost(w)
          /\ UNCHANGED <<file, handle, count, left>>
    /\ UNCHANGED <<shared, backup, line, bufferVars, next>>

(* write_formatted *)

DiskLength(w) == line[w].bytes + 1

\* Mutant: the newline is not counted.
FullIgnoresNewline(w) == count[w] > 0 /\ count[w] + line[w].bytes > MaxFileBytes

Full(w) == count[w] > 0 /\ count[w] + DiskLength(w) > MaxFileBytes

\* The line follows what a failed append left.
Appended(f, w) ==
    [lines |-> Append(f.lines, [line[w] EXCEPT !.bytes = @ + f.torn]), torn |-> 0]

Torn(f, bytes) == [f EXCEPT !.torn = @ + bytes]

\* The file is found to have room, or was rotated for the line.
StartsAppending(w) ==
    \/ Go(w, "check", "push") /\ handle[w] # "none" /\ ~Full(w)
    \/ Go(w, "append", "push")

AppendLine(w) ==
    /\ StartsAppending(w)
    /\ file' = IF handle[w] = "file" THEN Appended(file, w) ELSE file
    /\ backup' = IF handle[w] = "backup" THEN Appended(backup, w) ELSE backup
    /\ count' = [count EXCEPT ![w] = @ + DiskLength(w)]
    /\ logged' = IF handle[w] = "gone" THEN logged ELSE logged \cup {line[w].id}
    /\ UNCHANGED <<shared, handle, line, bufferVars, next, left, hit, disturbed, faults>>

\* A failed write may have written a part of the line, which is not counted.
AppendFails(w) ==
    /\ StartsAppending(w)
    /\ Fault("append") /\ Lost(w)
    /\ \E bytes \in 0..line[w].bytes :
         /\ file' = IF handle[w] = "file" THEN Torn(file, bytes) ELSE file
         /\ backup' = IF handle[w] = "backup" THEN Torn(backup, bytes) ELSE backup
         /\ left' = IF handle[w] = "file" THEN left + bytes ELSE left
    /\ UNCHANGED <<shared, handle, count, line, bufferVars, next>>

(* rotate: the file is closed, the backup removed, the file renamed and opened anew *)

\* Mutant: the file stays open while it is renamed.
BeginRotationOpen(w) ==
    /\ Go(w, "check", "remove") /\ handle[w] # "none" /\ Full(w)
    /\ UNCHANGED <<shared, file, backup, handle, count, line, bufferVars, next, left, history,
                   faults>>

BeginRotation(w) ==
    /\ Go(w, "check", "remove") /\ handle[w] # "none" /\ Full(w)
    /\ handle' = [handle EXCEPT ![w] = "none"]
    /\ UNCHANGED <<shared, file, backup, count, line, bufferVars, next, left, history, faults>>

RemoveBackup(w) ==
    /\ pc[w] = "remove"
    /\ \/ /\ Go(w, "remove", "rename")
          /\ backup' = None /\ handle' = Redirect("backup", "gone")
          /\ UNCHANGED <<hit, faults>>
       \/ /\ Go(w, "remove", "reopenFailed")
          /\ Fault("remove") /\ hit' = hit \cup {line[w].id}
          /\ UNCHANGED <<backup, handle>>
    /\ UNCHANGED <<shared, file, count, line, bufferVars, next, left, logged, disturbed>>

\* The other ToolLog may have rotated in between: a file that is gone is no failure, and a
\* backup that is back is replaced.
RenameFile(w) ==
    /\ pc[w] = "rename"
    /\ \/ /\ Go(w, "rename", "reopen")
          /\ IF file = None THEN UNCHANGED <<file, backup, handle>>
             ELSE /\ backup' = file /\ file' = None
                  /\ handle' = [v \in Logs |-> CASE handle[v] = "file" -> "backup"
                                                 [] handle[v] = "backup" -> "gone"
                                                 [] OTHER -> handle[v]]
          /\ disturbed' = (disturbed \/ shared)
          /\ UNCHANGED <<hit, faults>>
       \/ /\ Go(w, "rename", "reopenFailed")
          /\ Fault("rename") /\ hit' = hit \cup {line[w].id}
          /\ UNCHANGED <<file, backup, handle, disturbed>>
    /\ UNCHANGED <<shared, count, line, bufferVars, next, left, logged>>

Reopen(w) ==
    /\ pc[w] = "reopen"
    /\ \/ /\ Go(w, "reopen", "append") /\ Opened(w)
          /\ cached' = IF w = Manager THEN None ELSE cached
          /\ UNCHANGED <<history, faults>>
       \/ /\ Go(w, "reopen", "push")
          /\ Fault("open") /\ Lost(w) /\ UNCHANGED <<file, handle, count, left, cached>>
    /\ UNCHANGED <<shared, backup, line, lines, buffered, measured, next>>

\* After a failure the old file is opened again, and the line goes to the buffer only.
ReopenFailed(w) ==
    /\ Go(w, "reopenFailed", "push")
    /\ \/ Opened(w) /\ UNCHANGED faults
       \/ Fault("open") /\ UNCHANGED <<file, handle, count, left>>
    /\ UNCHANGED <<shared, backup, line, bufferVars, next, history>>

\* push_bounded; the helper's buffer is read by nobody.
PushBounded(w) ==
    /\ Go(w, "push", "idle")
    /\ IF w = Manager
       THEN LET all == Append(lines, line[w])
                bytes == buffered + line[w].bytes
                n == Popped(all, bytes, LineCapacity)
            IN  /\ lines' = Without(all, n)
                /\ buffered' = bytes - Bytes(SubSeq(all, 1, n))
       ELSE UNCHANGED <<lines, buffered>>
    /\ line' = [line EXCEPT ![w] = None]
    /\ UNCHANGED <<shared, file, backup, handle, count, cached, measured, next, left, history,
                   faults>>

-----------------------------------------------------------------------------
(* snapshot_external, called by the manager's window *)

\* The length is read before the mutex is taken.
MeasureFile ==
    /\ shared /\ measured = None /\ file # None
    /\ measured' = Length(file)
    /\ UNCHANGED <<shared, file, backup, pc, handle, count, line, lines, buffered, cached, next,
                   left, history, faults>>

SnapshotCached ==
    /\ measured # None /\ pc[Manager] = "idle"
    /\ cached = measured
    /\ measured' = None
    /\ UNCHANGED <<shared, file, backup, pc, handle, count, line, lines, buffered, cached, next,
                   left, history, faults>>

\* Mutant: the bytes of the lines that were read are not counted.
ReadKeepsCount ==
    /\ measured # None /\ pc[Manager] = "idle" /\ cached # measured /\ file # None
    /\ lines' = Shown(file, measured)
    /\ cached' = measured /\ measured' = None
    /\ UNCHANGED <<shared, file, backup, pc, handle, count, line, buffered, next, left, history, faults>>

ReadExternal ==
    /\ measured # None /\ pc[Manager] = "idle" /\ cached # measured /\ file # None
    /\ lines' = Shown(file, measured) /\ buffered' = Bytes(lines')
    /\ cached' = measured /\ measured' = None
    /\ UNCHANGED <<shared, file, backup, pc, handle, count, line, next, left, history, faults>>

\* Mutant: a length is remembered although nothing could be read.
ReadFailsAndCaches ==
    /\ measured # None /\ pc[Manager] = "idle" /\ cached # measured
    /\ \/ file = None /\ UNCHANGED faults
       \/ file # None /\ Fault("read")
    /\ cached' = measured /\ measured' = None
    /\ UNCHANGED <<shared, file, backup, pc, handle, count, line, lines, buffered, next, left, history>>

\* The file was renamed since, or cannot be read.
ReadFails ==
    /\ measured # None /\ pc[Manager] = "idle" /\ cached # measured
    /\ \/ file = None /\ UNCHANGED faults
       \/ file # None /\ Fault("read")
    /\ measured' = None
    /\ UNCHANGED <<shared, file, backup, pc, handle, count, line, lines, buffered, cached, next,
                   left, history>>

-----------------------------------------------------------------------------
Continue(w) ==
    \/ OpenFile(w) \/ AppendLine(w) \/ AppendFails(w)
    \/ BeginRotation(w) \/ RemoveBackup(w) \/ RenameFile(w)
    \/ Reopen(w) \/ ReopenFailed(w) \/ PushBounded(w)

Snapshot == MeasureFile \/ SnapshotCached \/ ReadExternal \/ ReadFails

Next ==
    \/ Snapshot
    \/ \E w \in Logs : Continue(w) \/ \E bytes \in LineBytes : Write(w, bytes)

Spec == Init /\ [][Next]_vars

-----------------------------------------------------------------------------
(* Properties *)

\* Every variable has its type; a ToolLog is between lines without a line in hand, and
\* holds no file while it rotates.
TypeOK ==
    /\ shared \in BOOLEAN
    /\ file \in File \cup {None} /\ backup \in File \cup {None}
    /\ pc \in [Logs -> {"idle", "check", "append", "remove", "rename", "reopen",
                        "reopenFailed", "push"}]
    /\ handle \in [Logs -> {"file", "backup", "gone", "none"}]
    /\ count \in [Logs -> Nat]
    /\ line \in [Logs -> Given \cup {None}]
    /\ \A w \in Logs :
         /\ pc[w] = "idle" <=> line[w] = None
         /\ pc[w] \in {"remove", "rename", "reopen", "reopenFailed"} => handle[w] = "none"
         /\ handle[w] = "file" => file # None
    /\ lines \in Seq(Line) /\ buffered \in Nat
    /\ cached \in Nat \cup {None} /\ measured \in Nat \cup {None}
    /\ next \in 1..MaxLines + 1
    /\ left \in Nat /\ logged \subseteq 1..MaxLines /\ hit \subseteq 1..MaxLines
    /\ disturbed \in BOOLEAN /\ faults \subseteq Faults

\* The buffer stays within both capacities, and its count of bytes is right, whether lines
\* are pushed one by one or replaced by what a snapshot read.
BufferBounded ==
    /\ Len(lines) <= LineCapacity
    /\ buffered = Bytes(lines) /\ buffered <= ByteCapacity

\* The file of a log that one ToolLog writes grows within its limit only, however long it was
\* when it was opened and whatever fails: what goes beyond was left by failed appends, which
\* are not counted before the file is opened again.
FileBounded ==
    [][(~shared /\ file # None /\ file' # None /\ Length(file') > Length(file))
          => Length(file') <= MaxFileBytes + left']_vars

\* The file of every log grows within its limit only, that of an elevated tool included.
LogFileBounded ==
    [][(file # None /\ file' # None /\ Length(file') > Length(file))
          => Length(file') <= MaxFileBytes]_vars

LinesOf(f) == IF f = None THEN {} ELSE ToSet(f.lines)
KeptIds == {l.id : l \in LinesOf(backup) \cup LinesOf(file)}
KeptBytes == (IF backup = None THEN 0 ELSE Length(backup)) + (IF file = None THEN 0 ELSE Length(file))

\* Of a log that one ToolLog writes only the oldest lines go, and only when a whole file of
\* later ones is there: each step of a rotation may fail, and none gives up more.
HistoryKept ==
    ~shared =>
        /\ \A id \in logged \ KeptIds : \A kept \in KeptIds : id < kept
        /\ logged \ KeptIds # {}
              => \A bytes \in LineBytes :
                   (\A b \in LineBytes : b <= bytes) => KeptBytes + bytes + 1 > MaxFileBytes

\* When a ToolLog that has its file to itself is done with a line, the line is in the file,
\* unless a fault hit its own write: a failure, wherever in a rotation, is over with the line
\* it hit, and the next one is in the file again.
MissedOnlyByFault ==
    \A w \in Logs :
        (~shared /\ pc[w] = "push")
            => line[w].id \in hit \/ \E l \in LinesOf(file) : l.id = line[w].id

\* What the window shows of a file that the helper appends to is its end, whenever the length
\* it remembers is that of the file, although the length is read before the file: once it
\* stops growing, the next snapshot shows all of it.  A file that was rotated, or that the
\* proxy has written to as well, is not told from another of the same length.
WindowIsCurrent ==
    (shared /\ ~disturbed /\ file # None /\ cached = Length(file)) => lines = Shown(file, cached)

=============================================================================
