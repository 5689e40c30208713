----------------------------- MODULE Transcript -----------------------------
(***************************************************************************)
(* The live files of a workflow (src/workflow_live.go): the CLI appends    *)
(* records to its journal and its agents' transcripts while a caller polls *)
(* them, passing back the offset it got last.  The CLI writes a line in    *)
(* pieces, and a poll may fall between any two of them.                    *)
(*                                                                         *)
(* A line is three pieces: the first part of its record, the rest of it,   *)
(* and its newline.  So piece i is the newline of line i \div 3 if 3       *)
(* divides i, and offsets and sizes are counted in pieces.                 *)
(***************************************************************************)
EXTENDS Naturals, Sequences, FiniteSetsExt

CONSTANT MaxTranscriptLines   \* bound on the lines the CLI writes

ASSUME TranscriptAssumption == MaxTranscriptLines \in Nat

\* What a line holds: a record of either role, one of no interest, or no JSON object.
LineKind == {"assistant", "user", "other", "bad"}

VARIABLES
  fileLines,   \* the kinds of the lines begun so far
  size,        \* the pieces in the file
  offset,      \* the offset the caller passes next
  polled,      \* the events it was given
  seenSize,    \* the size of the file at its last poll
  beyond       \* ErrOffsetBeyondEOF was returned

transcriptVars == <<fileLines, size, offset, polled, seenSize, beyond>>

TranscriptInit ==
  /\ fileLines = <<>> /\ size = 0 /\ offset = 0 /\ polled = <<>> /\ seenSize = 0 /\ beyond = FALSE

-----------------------------------------------------------------------------
Begins(n) == 3 * (n - 1)      \* the offset before the first piece of line n
RecordEnds(n) == 3 * n - 1    \* the offset before its newline

\* The CLI (external) writes the next piece, or begins a line.
AppendPiece ==
  /\ \/ size % 3 # 0 /\ UNCHANGED fileLines
     \/ /\ size % 3 = 0 /\ Len(fileLines) < MaxTranscriptLines
        /\ \E kind \in LineKind : fileLines' = Append(fileLines, kind)
  /\ size' = size + 1
  /\ UNCHANGED <<offset, polled, seenSize, beyond>>

-----------------------------------------------------------------------------
\* appendTranscriptLine: the results of a user line come before its text.
Decoded(n) ==
  CASE fileLines[n] = "assistant" -> <<<<n, "text">>, <<n, "tool_use">>>>
    [] fileLines[n] = "user" -> <<<<n, "tool_result">>, <<n, "user">>>>
    [] OTHER -> <<>>

\* The events of the lines ns of the file, as they are read, line after line.
TranscriptEvents(ns) ==
  LET batch == [n \in 1..Len(fileLines) |-> IF n \in ns THEN Decoded(n) ELSE <<>>]
      upTo[n \in 0..Len(fileLines)] == IF n = 0 THEN <<>> ELSE upTo[n - 1] \o batch[n]
  IN upTo[Len(fileLines)]

\* Mutant of WholeFrom: only lines that have their newline count.
WholeTerminated(from) ==
  {n \in 1..Len(fileLines) : Begins(n) >= from /\ RecordEnds(n) < size /\ fileLines[n] # "bad"}

\* The records after an offset that are whole, with or without their newline.
WholeFrom(from) ==
  {n \in 1..Len(fileLines) : Begins(n) >= from /\ RecordEnds(n) <= size /\ fileLines[n] # "bad"}

\* Mutant of NextOffset: all that was read counts as consumed.
NextOffsetAll(from) == size

\* Where the next read starts: behind the last newline, or behind a last record that
\* is whole already; its newline is then a blank line to the next read.
NextOffset(from) ==
  LET newlines == {i \in (from + 1)..size : i % 3 = 0}
      trailing == {n \in WholeFrom(from) : RecordEnds(n) = size}
  IN IF trailing # {} THEN size ELSE Max({from} \cup newlines)

\* ReadWorkflowAgentTranscript, readJSONLFrom
Poll ==
  /\ IF offset > size
     THEN beyond' = TRUE /\ offset' = 0 /\ UNCHANGED polled
     ELSE /\ polled' = polled \o TranscriptEvents(WholeFrom(offset))
          /\ offset' = NextOffset(offset)
          /\ UNCHANGED beyond
  /\ seenSize' = size
  /\ UNCHANGED <<fileLines, size>>

TranscriptNext == AppendPiece \/ Poll

TranscriptSpec == TranscriptInit /\ [][TranscriptNext]_transcriptVars

-----------------------------------------------------------------------------
TranscriptTypeOK ==
  /\ fileLines \in Seq(LineKind) /\ Len(fileLines) <= MaxTranscriptLines
  /\ size \in Nat /\ offset \in Nat /\ seenSize \in Nat /\ beyond \in BOOLEAN
  /\ polled \in Seq((1..MaxTranscriptLines) \X {"text", "tool_use", "tool_result", "user"})

\* However the polls fall between the writes, the caller has been given every record
\* that was whole at its last poll, once, in order, and nothing else; and a file that
\* is only appended to never looks truncated (readJSONLFrom's and ErrOffsetBeyondEOF's
\* docs).
PolledOnceInOrder ==
  /\ polled = TranscriptEvents({n \in 1..Len(fileLines) : RecordEnds(n) <= seenSize})
  /\ ~beyond
=============================================================================
