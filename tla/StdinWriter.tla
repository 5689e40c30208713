---------------------------- MODULE StdinWriter ----------------------------
(***************************************************************************)
(* How lines get to the CLI's stdin (src/session.go: writeStdinTimeout and *)
(* the first half of Close).  Every user message, control request and      *)
(* answer goes through it, each from a goroutine of its own.  The call     *)
(* holds s.mu and hands the line to a writing goroutine, which may block   *)
(* on a full pipe; at the deadline, or when the session's context ends,    *)
(* the call gives the write up and closes the pipe for good.  A line is    *)
(* LineLen pieces, of which any number may be in the pipe when its writer  *)
(* blocks.  Errors of Close, and a session without stdin, are left out.    *)
(***************************************************************************)
EXTENDS Naturals, Sequences, FiniteSets

CONSTANTS
  Writer,     \* calls of writeStdinTimeout, one line each
  LineLen,    \* pieces of a line
  StdinPipe   \* pieces the pipe holds

ASSUME StdinAssumption == LineLen \in Nat \ {0} /\ StdinPipe \in Nat \ {0}

VARIABLES
  write,          \* write[w]: where the call is, or how it returned
  written,        \* written[w]: pieces its goroutine put into the pipe
  writing,        \* writing[w]: the goroutine
  mu,             \* the holder of s.mu, or "free"
  stdinClosed,    \* s.stdinClosed
  pipeOpen,       \* the SDK's end of the pipe
  wire, unreadPieces,   \* all pieces ever put into the pipe; how many are still in it
  cliReads,       \* the CLI is alive
  sessionEnded,   \* the session's context
  closeCall       \* Close

callsVars == <<write, written, writing>>
pipeVars == <<wire, unreadPieces, cliReads>>
stdinVars == <<callsVars, mu, stdinClosed, pipeOpen, pipeVars, sessionEnded, closeCall>>

StdinInit ==
  /\ write = [w \in Writer |-> "idle"] /\ written = [w \in Writer |-> 0]
  /\ writing = [w \in Writer |-> "none"]
  /\ mu = "free" /\ stdinClosed = FALSE /\ pipeOpen = TRUE
  /\ wire = <<>> /\ unreadPieces = 0 /\ cliReads = TRUE
  /\ sessionEnded = FALSE /\ closeCall = "idle"

-----------------------------------------------------------------------------
(* writeStdinTimeout                                                       *)

CallWrite(w) ==
  /\ write[w] = "idle"
  /\ write' = [write EXCEPT ![w] = "locks"]
  /\ UNCHANGED <<written, writing, mu, stdinClosed, pipeOpen, pipeVars, sessionEnded, closeCall>>

RefuseWrite(w) ==
  /\ write[w] = "locks" /\ mu = "free" /\ stdinClosed
  /\ write' = [write EXCEPT ![w] = "failed"]
  /\ UNCHANGED <<written, writing, mu, stdinClosed, pipeOpen, pipeVars, sessionEnded, closeCall>>

StartWrite(w) ==
  /\ write[w] = "locks" /\ mu = "free" /\ ~stdinClosed
  /\ mu' = "held"
  /\ write' = [write EXCEPT ![w] = "writes"]
  /\ writing' = [writing EXCEPT ![w] = "running"]
  /\ UNCHANGED <<written, stdinClosed, pipeOpen, pipeVars, sessionEnded, closeCall>>

\* The goroutine: w.Write, which blocks while the pipe is full ...
WritePiece(w) ==
  /\ writing[w] = "running" /\ pipeOpen /\ cliReads /\ unreadPieces < StdinPipe
  /\ wire' = Append(wire, w) /\ unreadPieces' = unreadPieces + 1
  /\ written' = [written EXCEPT ![w] = @ + 1]
  /\ writing' = [writing EXCEPT ![w] = IF written[w] + 1 = LineLen THEN "done" ELSE "running"]
  /\ UNCHANGED <<write, mu, stdinClosed, pipeOpen, cliReads, sessionEnded, closeCall>>

\* ... and fails once either end of it is closed.
WriteBreaks(w) ==
  /\ writing[w] = "running" /\ ~(pipeOpen /\ cliReads)
  /\ writing' = [writing EXCEPT ![w] = "error"]
  /\ UNCHANGED <<write, written, mu, stdinClosed, pipeOpen, pipeVars, sessionEnded, closeCall>>

WriteReturns(w) ==
  /\ write[w] = "writes" /\ writing[w] \in {"done", "error"}
  /\ write' = [write EXCEPT ![w] = IF writing[w] = "done" THEN "ok" ELSE "failed"]
  /\ stdinClosed' = (stdinClosed \/ writing[w] = "error")
  /\ mu' = "free"
  /\ UNCHANGED <<written, writing, pipeOpen, pipeVars, sessionEnded, closeCall>>

\* Mutant of GiveUpWrite: the call returns, and the pipe stays usable.
GiveUpKeepsPipe(w) ==
  /\ write[w] = "writes"
  /\ write' = [write EXCEPT ![w] = "failed"]
  /\ mu' = "free"
  /\ UNCHANGED <<written, writing, stdinClosed, pipeOpen, pipeVars, sessionEnded, closeCall>>

\* Mutant of GiveUpWrite: no deadline, only the end of the session's context.
GiveUpAtEnd(w) ==
  /\ write[w] = "writes" /\ sessionEnded
  /\ write' = [write EXCEPT ![w] = "failed"]
  /\ stdinClosed' = TRUE /\ pipeOpen' = FALSE /\ mu' = "free"
  /\ UNCHANGED <<written, writing, pipeVars, sessionEnded, closeCall>>

\* The deadline, or the end of the session's context: the pipe is closed, which
\* wakes the goroutine, and no line is written after this one.
GiveUpWrite(w) ==
  /\ write[w] = "writes"
  /\ write' = [write EXCEPT ![w] = "failed"]
  /\ stdinClosed' = TRUE /\ pipeOpen' = FALSE /\ mu' = "free"
  /\ UNCHANGED <<written, writing, pipeVars, sessionEnded, closeCall>>

-----------------------------------------------------------------------------
(* Close, as far as stdin goes, and then the end of the context            *)

CallClose ==
  /\ closeCall = "idle"
  /\ closeCall' = "locks"
  /\ UNCHANGED <<callsVars, mu, stdinClosed, pipeOpen, pipeVars, sessionEnded>>

CloseStdin ==
  /\ closeCall = "locks" /\ mu = "free"
  /\ stdinClosed' = TRUE /\ pipeOpen' = FALSE
  /\ closeCall' = "closed"
  /\ UNCHANGED <<callsVars, mu, pipeVars, sessionEnded>>

\* Close's grace period, or the owner of the context given to Connect.
EndSession ==
  /\ ~sessionEnded
  /\ sessionEnded' = TRUE
  /\ UNCHANGED <<callsVars, mu, stdinClosed, pipeOpen, pipeVars, closeCall>>

-----------------------------------------------------------------------------
CLIReadsPiece ==
  /\ cliReads /\ unreadPieces > 0
  /\ unreadPieces' = unreadPieces - 1
  /\ UNCHANGED <<callsVars, mu, stdinClosed, pipeOpen, wire, cliReads, sessionEnded, closeCall>>

CLIDies ==
  /\ cliReads
  /\ cliReads' = FALSE
  /\ UNCHANGED <<callsVars, mu, stdinClosed, pipeOpen, wire, unreadPieces, sessionEnded, closeCall>>

StdinNext ==
  \/ \E w \in Writer : \/ CallWrite(w) \/ RefuseWrite(w) \/ StartWrite(w)
                       \/ WritePiece(w) \/ WriteBreaks(w) \/ WriteReturns(w) \/ GiveUpWrite(w)
  \/ CallClose \/ CloseStdin \/ EndSession \/ CLIReadsPiece \/ CLIDies

StdinSpec == StdinInit /\ [][StdinNext]_stdinVars

\* Timers fire, and a goroutine that waits for a mutex gets it (Go's starvation
\* mode).  The CLI need not read.
StdinFairness ==
  /\ \A w \in Writer : /\ WF_stdinVars(WriteReturns(w) \/ GiveUpWrite(w))
                       /\ SF_stdinVars(RefuseWrite(w) \/ StartWrite(w))
  /\ SF_stdinVars(CloseStdin)

-----------------------------------------------------------------------------
StdinTypeOK ==
  /\ write \in [Writer -> {"idle", "locks", "writes", "ok", "failed"}]
  /\ written \in [Writer -> 0..LineLen]
  /\ writing \in [Writer -> {"none", "running", "done", "error"}]
  /\ mu \in {"free", "held"} /\ stdinClosed \in BOOLEAN /\ pipeOpen \in BOOLEAN
  /\ wire \in Seq(Writer) /\ unreadPieces \in 0..StdinPipe /\ cliReads \in BOOLEAN
  /\ sessionEnded \in BOOLEAN /\ closeCall \in {"idle", "locks", "closed"}

\* What reaches the CLI is whole lines, in the order they were written, and at most
\* one torn line after all of them; a write that reports success is one of the whole
\* ones (writeStdinTimeout's doc: an abandoned write is never let loose among the
\* bytes of later messages).
LinesStayWhole ==
  /\ \A i, j, k \in 1..Len(wire) : i < j /\ j < k /\ wire[i] = wire[k] => wire[j] = wire[i]
  /\ \A i \in 1..Len(wire) : wire[i] # wire[Len(wire)] => written[wire[i]] = LineLen
  /\ \A w \in Writer : write[w] = "ok" => written[w] = LineLen

\* Close gets stdin closed although a write hangs on a CLI that reads no more
\* (writeStdinTimeout's deadline; before it, the lock was held for ever).
CloseGetsStdin == StdinFairness => ((closeCall = "locks") ~> (closeCall = "closed"))
=============================================================================
