---------------------------- MODULE OutputReader ----------------------------
(***************************************************************************)
(* The thread that turns what a tool writes to its stdout, or stderr, into  *)
(* lines of the log.  The bytes arrive in pieces the tool does not choose;  *)
(* a line may lie in several of them, or a piece hold several lines.  Of an *)
(* overlong line the beginning is kept and the rest read and dropped.       *)
(***************************************************************************)
EXTENDS SequencesExt, Integers, SortedNumbers

CONSTANTS
    MaxBytes,   \* bound: what the tool writes in all
    MaxLine     \* log.max_line_bytes()

\* A letter, a carriage return and a newline.
Byte == {"x", "r", "n"}

VARIABLES
    written,    \* everything the tool writes
    rest,       \* what of it has not been read
    line,       \* output of read_capped_line
    truncated,  \* its flag
    observed,   \* its flag: something of the line was there
    logged,     \* the lines handed to the log
    reading     \* "on", "ended" or "failed"

vars == <<written, rest, line, truncated, observed, logged, reading>>

Line == [text : Seq(Byte), cut : BOOLEAN]

-----------------------------------------------------------------------------
\* trim_end_matches of the line ending
TrimEnd(text) ==
    LET ends == {i \in 0 .. Len(text) :
                     \A j \in i + 1 .. Len(text) : text[j] \in {"r", "n"}}
    IN SubSeq(text, 1, CHOOSE i \in ends : \A j \in ends : i <= j)

\* The log splits what it is given at newlines, and a blank text has no line at all.
Logged(text, cut) ==
    IF TrimEnd(text) = <<>> /\ ~cut THEN logged
    ELSE Append(logged, [text |-> TrimEnd(text), cut |-> cut])

Init ==
    /\ written \in BoundedSeq(Byte, MaxBytes) /\ rest = written
    /\ line = <<>> /\ truncated = FALSE /\ observed = FALSE
    /\ logged = <<>> /\ reading = "on"

\* Mutant: a line that is cut is not read to its end.
TakeStopsAtCap(end) ==
    LET copied == SubSeq(rest, 1, Min({end, MaxLine - Len(line)}))
        cut == truncated \/ Len(copied) < end
    IN IF rest[end] = "n" \/ cut
       THEN /\ logged' = Logged(line \o copied, cut)
            /\ line' = <<>> /\ truncated' = FALSE /\ observed' = FALSE
       ELSE /\ line' = line \o copied /\ truncated' = cut /\ observed' = TRUE
            /\ UNCHANGED logged

\* The part of a piece up to the first newline in it: what fits is kept.
Take(end) ==
    LET copied == SubSeq(rest, 1, Min({end, MaxLine - Len(line)}))
        cut == truncated \/ Len(copied) < end
    IN IF rest[end] = "n"
       THEN /\ logged' = Logged(line \o copied, cut)
            /\ line' = <<>> /\ truncated' = FALSE /\ observed' = FALSE
       ELSE /\ line' = line \o copied /\ truncated' = cut /\ observed' = TRUE
            /\ UNCHANGED logged

\* fill_buf returns a piece; what lies behind a newline in it is the next piece.
ReadPiece(size) ==
    /\ reading = "on" /\ size \in 1 .. Len(rest)
    /\ LET newlines == {i \in 1 .. size : rest[i] = "n"}
           end == IF newlines = {} THEN size ELSE Min(newlines)
       IN /\ Take(end)
          /\ rest' = SubSeq(rest, end + 1, Len(rest))
    /\ UNCHANGED <<written, reading>>

\* The tool and all that inherited its pipe are gone: the last line may lack its newline.
ReadEnd ==
    /\ reading = "on" /\ rest = <<>>
    /\ logged' = IF observed THEN Logged(line, truncated) ELSE logged
    /\ reading' = "ended"
    /\ UNCHANGED <<written, rest, line, truncated, observed>>

\* The line under way is lost with the error.
ReadFails ==
    /\ reading = "on"
    /\ reading' = "failed"
    /\ UNCHANGED <<written, rest, line, truncated, observed, logged>>

Next ==
    \/ \E size \in 1 .. MaxBytes : ReadPiece(size)
    \/ ReadEnd \/ ReadFails

Spec == Init /\ [][Next]_vars

-----------------------------------------------------------------------------
(* Properties *)

TypeOK ==
    /\ written \in Seq(Byte) /\ IsSuffix(rest, written)
    /\ line \in Seq(Byte) /\ Len(line) <= MaxLine
    /\ truncated \in BOOLEAN /\ observed \in BOOLEAN
    /\ logged \in Seq(Line)
    /\ reading \in {"on", "ended", "failed"}

\* The lines of a text, with their newlines, the last one perhaps without: between a newline
\* (or the beginning) and the next one (or the end).
Starts(text) == {i \in DOMAIN text : i = 1 \/ text[i - 1] = "n"}
Ends(text, i) == {j \in i .. Len(text) : text[j] = "n" \/ j = Len(text)}
LineAt(text, i) == SubSeq(text, i, Min(Ends(text, i)))

\* A line is cut to MaxLine bytes, and marked if it was longer with its ending.
Cut(whole) ==
    [text |-> TrimEnd(SubSeq(whole, 1, Min({MaxLine, Len(whole)}))), cut |-> Len(whole) > MaxLine]

\* What the log is owed for a text: every line of it that is not blank.
Blank == [text |-> <<>>, cut |-> FALSE]
Owed(text) ==
    LET owed == Sorted({i \in Starts(text) : Cut(LineAt(text, i)) # Blank})
    IN [k \in DOMAIN owed |-> Cut(LineAt(text, owed[k]))]

\* However the output was torn into pieces, the log holds the lines of what was written, in
\* order and without a gap, and all of them when the output ended; after a failed read all
\* but the line under way.
LinesDelivered ==
    /\ IsPrefix(logged, Owed(written))
    /\ reading = "ended" => logged = Owed(written)
    /\ reading = "on" /\ line = <<>> /\ ~observed =>
         logged = Owed(SubSeq(written, 1, Len(written) - Len(rest)))

=============================================================================
