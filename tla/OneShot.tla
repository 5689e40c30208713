------------------------------ MODULE OneShot ------------------------------
(***************************************************************************)
(* One run of the CLI with a prompt (src/client.go: Run, readProcess;      *)
(* src/parse.go: ParseEvents; src/stream.go).  Five goroutines hand events *)
(* on: the parser reads stdout into `parsed', the collector notes what it  *)
(* needs for the end and passes on to `events', scanStderr adds the lines  *)
(* of stderr, the stream's own goroutine tracks the state and passes on to *)
(* `tracked', and the caller reads, waits or closes.  The context may end  *)
(* at any step; the executor then kills the CLI.                           *)
(*                                                                         *)
(* An event is its kind.  CLIStateChangeEvents and the kinds that no code  *)
(* here tells apart are "text".                                            *)
(***************************************************************************)
EXTENDS Naturals, Sequences

CONSTANTS
  StdoutPipe,   \* lines the pipe from the CLI holds
  ParsedCap,    \* capacity of `parsed'  (64 in the code)
  EventsChan,   \* capacity of `events'  (64)
  TrackedCap,   \* capacity of `tracked' (64)
  RunLines,     \* the kinds of line the CLI writes
  MaxRunLines   \* bound on the lines it writes

\* Lines of stdout.  "note" is the result of a task-notification turn, "sub" an
\* API error of a subagent, "long" a line past the scanner's limit.
RunLine == {"init", "text", "alien", "sub", "note", "answer", "maxturns", "api", "long"}

ASSUME OneShotAssumption ==
  /\ StdoutPipe \in Nat \ {0} /\ ParsedCap \in Nat \ {0} /\ EventsChan \in Nat \ {0}
  /\ TrackedCap \in Nat \ {0} /\ MaxRunLines \in Nat
  /\ RunLines \subseteq RunLine

VARIABLES
  stdout, process, runLines, warning, ending,      \* the CLI
  parser, emitting, parsed,                        \* ParseEvents
  seen, stderrSaid, stderrPc, events, runner,      \* readProcess
  held, interposer, tracked, stream,               \* Stream
  runCtxEnded, caller, outcome                     \* the caller

cliSide == <<stdout, process, runLines, warning, ending>>
parseSide == <<parser, emitting, parsed>>
readSide == <<seen, stderrSaid, stderrPc, events, runner>>
streamSide == <<held, interposer, tracked, stream>>
callSide == <<runCtxEnded, caller, outcome>>
runVars == <<cliSide, parseSide, readSide, streamSide, callSide>>

FinalLine == {"answer", "maxturns", "api", "long"}
RunResult == {"note", "answer", "maxturns", "synthesized"}
FatalEvent == {"api", "panic", "exit", "nostart"}
RunEvent == RunResult \cup FatalEvent
              \cup {"start", "init", "text", "alien", "error", "stderr"}

\* The events emitted for a line.
Emitted(line) ==
  CASE line \in {"sub", "long"} -> <<"error">>
    [] line = "maxturns"        -> <<"error", "maxturns">>
    [] OTHER                    -> <<line>>

NoOutcome == [result |-> "none", err |-> "none", cut |-> TRUE]

Exited == process \in {"zero", "nonzero", "ctx"}

RunInit ==
  /\ stdout = <<>> /\ process = "none" /\ runLines = 0 /\ warning = "none" /\ ending = "none"
  /\ parser = "scan" /\ emitting = <<>> /\ parsed = <<>>
  /\ seen = {} /\ stderrSaid = FALSE /\ stderrPc = "scan"
  /\ events = <<>> /\ runner = "idle"
  /\ held = "none" /\ interposer = "tracks" /\ tracked = <<>>
  /\ stream = [state |-> "starting", result |-> "none", err |-> "none"]
  /\ runCtxEnded = FALSE /\ caller = "free" /\ outcome = NoOutcome

\* Run emits the StartEvent and starts the process, which may fail.
StartRun ==
  \E p \in {"runs", "failed"} :
    /\ runner = "idle"
    /\ process' = p
    /\ runner' = IF p = "runs" THEN "parse" ELSE "failing"
    /\ events' = <<"start">>
    /\ UNCHANGED <<stdout, runLines, warning, ending, parseSide, seen, stderrSaid, stderrPc,
                   streamSide, callSide>>

-----------------------------------------------------------------------------
(* The CLI.  After its final line it may still write, or hang.             *)

CLIWrites ==
  \E line \in RunLines :
    /\ process = "runs" /\ runLines < MaxRunLines /\ Len(stdout) < StdoutPipe
    /\ stdout' = Append(stdout, line)
    /\ runLines' = runLines + 1
    /\ ending' = IF ending = "none" /\ line \in FinalLine THEN line ELSE ending
    /\ UNCHANGED <<process, warning, parseSide, readSide, streamSide, callSide>>

CLIWarns ==
  /\ process = "runs" /\ warning = "none"
  /\ warning' = "written"
  /\ UNCHANGED <<stdout, process, runLines, ending, parseSide, readSide, streamSide, callSide>>

\* By itself, or killed once the context ended: cmd.Wait may then report the
\* context's error in place of an exit code.
CLIExits ==
  \E how \in {"zero", "nonzero", "ctx"} :
    /\ process = "runs" /\ (how = "ctx" => runCtxEnded)
    /\ process' = how
    /\ UNCHANGED <<stdout, runLines, warning, ending, parseSide, readSide, streamSide, callSide>>

-----------------------------------------------------------------------------
(* ParseEvents                                                             *)

\* Mutant of EndsStream: the notification's result ends the stream too.
EndsStreamAnyResult(line) == line \in FinalLine \cup {"note"}

\* The lines after which ParseEvents returns.
EndsStream(line) == line \in FinalLine

ScanLine ==
  /\ parser = "scan" /\ emitting = <<>> /\ stdout # <<>>
  /\ stdout' = Tail(stdout)
  /\ IF runCtxEnded
     THEN parser' = "done" /\ UNCHANGED emitting
     ELSE /\ emitting' = Emitted(Head(stdout))
          /\ parser' = IF EndsStream(Head(stdout)) THEN "done" ELSE "scan"
  /\ UNCHANGED <<process, runLines, warning, ending, parsed, readSide, streamSide, callSide>>

ScanEOF ==
  /\ parser = "scan" /\ emitting = <<>> /\ stdout = <<>> /\ Exited
  /\ parser' = "done"
  /\ UNCHANGED <<cliSide, emitting, parsed, readSide, streamSide, callSide>>

Emit ==
  /\ emitting # <<>> /\ Len(parsed) < ParsedCap
  /\ parsed' = Append(parsed, Head(emitting))
  /\ emitting' = Tail(emitting)
  /\ UNCHANGED <<cliSide, parser, readSide, streamSide, callSide>>

-----------------------------------------------------------------------------
(* readProcess                                                             *)

\* What the end of the run wants to know of an event.
Noted(event) ==
  {s \in {"result", "errorResult", "error", "alien"} :
     \/ s = "result" /\ event \in RunResult
     \/ s = "errorResult" /\ event = "maxturns"
     \/ s = "error" /\ event \in {"error", "api"}
     \/ s = "alien" /\ event = "alien"}

Collect ==
  /\ parsed # <<>> /\ Len(events) < EventsChan
  /\ parsed' = Tail(parsed)
  /\ seen' = seen \cup Noted(Head(parsed))
  /\ events' = Append(events, Head(parsed))
  /\ UNCHANGED <<cliSide, parser, emitting, stderrSaid, stderrPc, runner, streamSide, callSide>>

\* A line of stderr: passed on, or dropped if the context ended; the callback
\* may panic, which is reported as a fatal error.
ScanStderr ==
  /\ stderrPc = "scan" /\ warning = "written"
  /\ warning' = "read" /\ stderrSaid' = TRUE
  /\ \/ \E event \in {"stderr", "panic"} :
          /\ Len(events) < EventsChan
          /\ events' = Append(events, event)
          /\ stderrPc' = IF event = "panic" THEN "done" ELSE "scan"
     \/ /\ runCtxEnded
        /\ stderrPc' = "done" /\ UNCHANGED events
  /\ UNCHANGED <<stdout, process, runLines, ending, parseSide, seen, runner, streamSide, callSide>>

StderrEOF ==
  /\ stderrPc = "scan" /\ warning # "written" /\ Exited
  /\ stderrPc' = "done"
  /\ UNCHANGED <<cliSide, parseSide, seen, stderrSaid, events, runner, streamSide, callSide>>

\* The start failed; or the parser is through, the collector and scanStderr too,
\* and cmd.Wait returned.
RunnerReady ==
  \/ runner = "failing"
  \/ /\ runner = "parse" /\ parser = "done" /\ emitting = <<>> /\ parsed = <<>>
     /\ stderrPc = "done" /\ Exited

\* Mutant of LastEvent: no result is made up for a CLI that exits with none.
LastEventNone ==
  CASE process = "failed" -> <<"nostart">>
    [] process = "zero"   -> <<>>
    [] OTHER              -> <<"exit">>

\* The last event: the start or exit error, or a result if the CLI wrote none.
LastEvent ==
  CASE process = "failed"               -> <<"nostart">>
    [] process \in {"nonzero", "ctx"}    -> <<"exit">>
    [] process = "zero" /\ "result" \notin seen -> <<"synthesized">>
    [] OTHER                            -> <<>>

Finish ==
  /\ RunnerReady /\ Len(events) + Len(LastEvent) <= EventsChan
  /\ events' = events \o LastEvent
  /\ runner' = "closed"
  /\ UNCHANGED <<cliSide, parseSide, seen, stderrSaid, stderrPc, streamSide, callSide>>

\* processExitError and the fallbacks after it: where the exit error's message is from.
ExitMessage ==
  IF stderrSaid                 THEN "stderr"
  ELSE IF process = "ctx"       THEN "ctx"
  ELSE IF "error" \in seen       THEN "stdoutError"
  ELSE IF "errorResult" \in seen THEN "result"
  ELSE IF "alien" \in seen       THEN "unknownEvent"
  ELSE "empty"

-----------------------------------------------------------------------------
(* Stream                                                                  *)

\* The error an event carries into the stream's.
ErrorOf(event) == IF event = "exit" THEN ExitMessage ELSE event

TrackRun(event) ==
  CASE event = "init" -> [stream EXCEPT !.state = "running"]
    [] event = "note" -> [stream EXCEPT !.result = IF @ = "none" THEN "note" ELSE @]
    [] event \in RunResult \ {"note"} ->
         [stream EXCEPT !.state = "done", !.result = event,
                        !.err = IF @ = "none" /\ event = "maxturns" THEN event ELSE @]
    [] event \in FatalEvent ->
         [stream EXCEPT !.state = "failed", !.err = IF @ = "none" THEN ErrorOf(event) ELSE @]
    [] OTHER -> stream

Track ==
  /\ interposer = "tracks" /\ held = "none" /\ events # <<>>
  /\ held' = Head(events) /\ events' = Tail(events)
  /\ stream' = TrackRun(Head(events))
  /\ UNCHANGED <<cliSide, parseSide, seen, stderrSaid, stderrPc, runner, interposer, tracked,
                 callSide>>

Forward ==
  /\ held # "none" /\ Len(tracked) < TrackedCap
  /\ tracked' = Append(tracked, held) /\ held' = "none"
  /\ UNCHANGED <<cliSide, parseSide, readSide, interposer, stream, callSide>>

\* Mutant of GiveUp: the goroutine returns at once.
GiveUpReturns ==
  /\ held # "none" /\ runCtxEnded
  /\ held' = "none" /\ interposer' = "closed"
  /\ UNCHANGED <<cliSide, parseSide, readSide, tracked, stream, callSide>>

\* The context ended: what is left is read and thrown away.
GiveUp ==
  /\ held # "none" /\ runCtxEnded
  /\ held' = "none" /\ interposer' = "drains"
  /\ UNCHANGED <<cliSide, parseSide, readSide, tracked, stream, callSide>>

DrainRaw ==
  /\ interposer = "drains" /\ events # <<>>
  /\ events' = Tail(events)
  /\ UNCHANGED <<cliSide, parseSide, seen, stderrSaid, stderrPc, runner, streamSide, callSide>>

CloseTracked ==
  /\ interposer \in {"tracks", "drains"} /\ held = "none" /\ events = <<>> /\ runner = "closed"
  /\ interposer' = "closed"
  /\ UNCHANGED <<cliSide, parseSide, readSide, held, tracked, stream, callSide>>

-----------------------------------------------------------------------------
(* The caller                                                              *)

\* Next, the range over Events, or the draining in Wait and Close.
ReadNext ==
  /\ tracked # <<>>
  /\ tracked' = Tail(tracked)
  /\ UNCHANGED <<cliSide, parseSide, readSide, held, interposer, stream, callSide>>

CallWait ==
  /\ caller = "free" /\ outcome = NoOutcome /\ runner \notin {"idle", "failing"}
  /\ caller' = "waits"
  /\ UNCHANGED <<cliSide, parseSide, readSide, streamSide, runCtxEnded, outcome>>

\* tracked and done are closed.
WaitReturns ==
  /\ caller = "waits" /\ interposer = "closed" /\ tracked = <<>> /\ runner = "closed"
  /\ caller' = "free"
  /\ outcome' = [result |-> stream.result, err |-> stream.err, cut |-> runCtxEnded]
  /\ UNCHANGED <<cliSide, parseSide, readSide, streamSide, runCtxEnded>>

\* Close, or the end of the context Run was given.
EndContext ==
  /\ ~runCtxEnded /\ runner # "idle"
  /\ runCtxEnded' = TRUE
  /\ UNCHANGED <<cliSide, parseSide, readSide, streamSide, caller, outcome>>

Reader == ScanLine \/ ScanEOF \/ Emit
Goroutines == Collect \/ ScanStderr \/ StderrEOF \/ Finish
Interposer == Track \/ Forward \/ GiveUp \/ DrainRaw \/ CloseTracked

RunNext ==
  \/ StartRun
  \/ CLIWrites \/ CLIWarns \/ CLIExits
  \/ ScanLine \/ ScanEOF \/ Emit
  \/ Collect \/ ScanStderr \/ StderrEOF \/ Finish
  \/ Track \/ Forward \/ GiveUp \/ DrainRaw \/ CloseTracked
  \/ ReadNext \/ CallWait \/ WaitReturns \/ EndContext

RunSpec == RunInit /\ [][RunNext]_runVars

\* Goroutines that can run do, and the executor kills the CLI of an ended context
\* (SIGTERM, and Process.Kill WaitDelay later).  A caller need not read.
RunFairness ==
  /\ WF_runVars(Reader) /\ WF_runVars(Collect)
  /\ WF_runVars(ScanStderr \/ StderrEOF) /\ WF_runVars(Finish)
  /\ WF_runVars(Interposer)
  /\ WF_runVars(runCtxEnded /\ CLIExits)

-----------------------------------------------------------------------------
RunTypeOK ==
  /\ stdout \in Seq(RunLine) /\ Len(stdout) <= StdoutPipe
  /\ process \in {"none", "runs", "failed", "zero", "nonzero", "ctx"} /\ runLines \in 0..MaxRunLines
  /\ warning \in {"none", "written", "read"} /\ ending \in FinalLine \cup {"none"}
  /\ parser \in {"scan", "done"} /\ emitting \in Seq(RunEvent)
  /\ parsed \in Seq(RunEvent) /\ Len(parsed) <= ParsedCap
  /\ seen \subseteq {"result", "errorResult", "error", "alien"}
  /\ stderrSaid \in BOOLEAN /\ stderrPc \in {"scan", "done"}
  /\ events \in Seq(RunEvent) /\ Len(events) <= EventsChan /\ runner \in {"idle", "parse", "failing", "closed"}
  /\ held \in RunEvent \cup {"none"} /\ interposer \in {"tracks", "drains", "closed"}
  /\ tracked \in Seq(RunEvent) /\ Len(tracked) <= TrackedCap
  /\ stream.state \in {"starting", "running", "done", "failed"}
  /\ stream.result \in RunResult \cup {"none"}
  /\ runCtxEnded \in BOOLEAN /\ caller \in {"free", "waits"}
  /\ outcome.result \in RunResult \cup {"none"} /\ outcome.cut \in BOOLEAN

\* Wait of a run whose context did not end tells how the run ended: the answer is
\* its result whatever notifications came before it, an API error and an exit code
\* are errors, and a run without any of them still has a result (Stream.trackState,
\* readProcess, RunText's ErrEmptyOutput).
OutcomeTellsTheEnding ==
  outcome # NoOutcome /\ ~outcome.cut =>
    /\ ending \in {"answer", "maxturns"} => outcome.result = ending
    /\ ending \in {"maxturns", "api"} => outcome.err # "none"
    /\ process # "zero" => outcome.err # "none"
    /\ outcome.result # "none" \/ outcome.err # "none"

\* A run whose context ended comes to its end even if nobody reads its events:
\* every channel is drained on the way down (newStream, scanStderr, readProcess).
CancelledRunEnds ==
  RunFairness => (runCtxEnded ~> (runner = "closed" /\ interposer = "closed"))
=============================================================================
