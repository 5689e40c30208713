--------------------------- MODULE ActivityStream ---------------------------
(***************************************************************************)
(* Who moves a Session's activity tracker, and in which order the moves    *)
(* are announced (src/session.go): readLoop observes every event it reads, *)
(* callers of Query and SendMessage mark theirs, both under stateMu, and   *)
(* both enqueue the CLIStateChangeEvent only after they released it.       *)
(*                                                                         *)
(* The CLI's side is external: a turn runs for a message from stdin, or    *)
(* for a task notification; tools are used and answered within it; a       *)
(* message written meanwhile may be folded into it; an API error, or any   *)
(* result, leaves the tools that are still outstanding unanswered.  A line *)
(* is read here in the step that writes it.  A write may fail: stdin is     *)
(* then closed for good, the caller gets the error, and what it marked     *)
(* before the write stays marked.                                          *)
(***************************************************************************)
EXTENDS ActivityTracker, FiniteSets

CONSTANTS
  Callers,       \* goroutines that call Query and SendMessage
  MaxCalls,      \* bound on the calls
  MaxNoteTurns   \* bound on the notification turns

VARIABLES
  \* the CLI
  turn, failed, outstanding, stdin, noteTurns,
  \* the session
  state, promptEchoed, rlPc, transition, ticker,
  \* the callers; stdinClosed, set by a failed write (StdinWriter models the write)
  call, calls, stdinFailed,
  \* history: the tracker stands where it stood when a write failed after the mark
  unsent,
  \* the state in the latest CLIStateChangeEvent enqueued
  announced

turnVars == <<turn, failed, outstanding, stdin, noteTurns>>
sessionVars == <<state, promptEchoed>>
loopVars == <<rlPc, transition, ticker>>
callVars == <<call, calls, stdinFailed, unsent>>
vars == <<trackerVars, turnVars, sessionVars, loopVars, callVars, announced>>

Init ==
  /\ TrackerInit
  /\ turn = "none" /\ failed = FALSE /\ outstanding = {} /\ stdin = 0 /\ noteTurns = 0
  /\ state = "idle" /\ promptEchoed = FALSE
  /\ rlPc = "scan" /\ transition = "none" /\ ticker = FALSE
  /\ call = [c \in Callers |-> "idle"] /\ calls = 0 /\ stdinFailed = FALSE /\ unsent = FALSE
  /\ announced = "idle"

-----------------------------------------------------------------------------
(* readLoop                                                                *)

InTurn == rlPc = "scan" /\ turn # "none" /\ ~failed

\* Mutant of ThenEmit: an event that moved nothing is announced too.
ThenEmitAlways ==
  /\ transition' = IF activity' # activity THEN activity' ELSE "none"
  /\ rlPc' = "emit"
  /\ UNCHANGED ticker

\* emitTransition comes next, if the tracker moved.
ThenEmit ==
  /\ transition' = IF activity' # activity THEN activity' ELSE "none"
  /\ rlPc' = IF activity' # activity THEN "emit" ELSE "scan"
  /\ UNCHANGED ticker

\* notePromptEcho
PromptEcho ==
  /\ promptEchoed' = (promptEchoed \/ state = "running")
  /\ UNCHANGED state

\* A turn starts: its init and, for a caller's message, the echo.
ReadCallerTurn ==
  /\ rlPc = "scan" /\ turn = "none" /\ stdin > 0
  /\ turn' = "caller" /\ stdin' = stdin - 1
  /\ PromptEcho
  /\ UNCHANGED <<trackerVars, failed, outstanding, noteTurns, loopVars, callVars, announced>>

ReadNoteTurn ==
  /\ rlPc = "scan" /\ turn = "none" /\ noteTurns < MaxNoteTurns
  /\ turn' = "note" /\ noteTurns' = noteTurns + 1
  /\ UNCHANGED <<trackerVars, failed, outstanding, stdin, sessionVars, loopVars, callVars,
                 announced>>

\* The echo of a message that is folded into the turn.
ReadFolded ==
  /\ InTurn /\ stdin > 0
  /\ stdin' = stdin - 1
  /\ PromptEcho
  /\ UNCHANGED <<trackerVars, turn, failed, outstanding, noteTurns, loopVars, callVars,
                 announced>>

ReadContent ==
  /\ InTurn
  /\ ObserveContent
  /\ ThenEmit
  /\ UNCHANGED <<turnVars, sessionVars, callVars, announced>>

ReadSubagent ==
  /\ InTurn
  /\ ObserveSubagent
  /\ ThenEmit
  /\ UNCHANGED <<turnVars, sessionVars, callVars, announced>>

ReadToolUse(t) ==
  /\ InTurn /\ t \notin outstanding
  /\ ObserveToolUse(t)
  /\ outstanding' = outstanding \cup {t}
  /\ ThenEmit
  /\ UNCHANGED <<turn, failed, stdin, noteTurns, sessionVars, callVars, announced>>

ReadToolResult(t) ==
  /\ InTurn /\ t \in outstanding
  /\ ObserveToolResult
  /\ outstanding' = outstanding \ {t}
  /\ ThenEmit
  /\ UNCHANGED <<turn, failed, stdin, noteTurns, sessionVars, callVars, announced>>

\* A user message answers several tool uses, or none.
ReadUser(ts) ==
  /\ InTurn
  /\ ObserveUser(Cardinality(ts))
  /\ outstanding' = outstanding \ ts
  /\ ThenEmit
  /\ UNCHANGED <<turn, failed, stdin, noteTurns, sessionVars, callVars, announced>>

\* Going idle forgets the mark.
StillUnsent == unsent' = (unsent /\ activity' # "idle")

EndTurn == turn' = "none" /\ failed' = FALSE /\ outstanding' = {}

\* A task-notification result answers the pending query only if the CLI has
\* read its prompt.
AnswersQuery == turn = "caller" \/ (turn = "note" /\ state = "running" /\ promptEchoed)

\* observeUnsolicitedResult: any other result of the CLI's own turn.
ReadHeldResult ==
  /\ rlPc = "scan" /\ turn = "note" /\ ~AnswersQuery
  /\ ObserveUnsolicitedResult(state = "running")
  /\ EndTurn
  /\ ThenEmit
  /\ StillUnsent
  /\ UNCHANGED <<stdin, noteTurns, sessionVars, call, calls, stdinFailed, announced>>

\* Any other result.  trackState comes first, under stateMu: from then on the
\* next query may be prepared, ...
ReadResult ==
  /\ rlPc = "scan" /\ AnswersQuery
  /\ EndTurn
  /\ state' = "idle"
  /\ rlPc' = "observe"
  /\ UNCHANGED <<trackerVars, stdin, noteTurns, promptEchoed, transition, ticker,
                 callVars, announced>>

\* A failed API call.  The turn's result follows it.
ReadApiError ==
  /\ InTurn
  /\ failed' = TRUE /\ outstanding' = {}
  /\ state' = "failed"
  /\ rlPc' = "observe"
  /\ UNCHANGED <<trackerVars, turn, stdin, noteTurns, promptEchoed, transition, ticker,
                 callVars, announced>>

\* ... before observe moves the tracker, under stateMu once more.
ObserveTracked ==
  /\ rlPc = "observe"
  /\ ObserveTerminal
  /\ ThenEmit
  /\ StillUnsent
  /\ UNCHANGED <<turnVars, sessionVars, call, calls, stdinFailed, announced>>

\* emitTransition: enqueue it, and start or stop the ticker.
EmitTransition ==
  /\ rlPc = "emit"
  /\ announced' = transition
  /\ ticker' = (transition = "awaiting")
  /\ transition' = "none"
  /\ rlPc' = "scan"
  /\ UNCHANGED <<trackerVars, turnVars, sessionVars, callVars>>

ReadLoop ==
  \/ ReadCallerTurn \/ ReadNoteTurn \/ ReadFolded \/ ReadContent \/ ReadSubagent
  \/ \E t \in Tool : ReadToolUse(t) \/ ReadToolResult(t)
  \/ \E ts \in SUBSET outstanding : ReadUser(ts)
  \/ ReadHeldResult \/ ReadResult \/ ReadApiError \/ ObserveTracked \/ EmitTransition

-----------------------------------------------------------------------------
(* Callers                                                                 *)

\* prepareQuery accepts a query.
PrepareQuery(c) ==
  /\ call[c] = "idle" /\ calls < MaxCalls /\ state = "idle"
  /\ state' = "running" /\ promptEchoed' = FALSE
  /\ call' = [call EXCEPT ![c] = "mark"] /\ calls' = calls + 1
  /\ UNCHANGED <<trackerVars, turnVars, loopVars, stdinFailed, unsent, announced>>

\* validateSendable accepts a message.
ValidateSendable(c) ==
  /\ call[c] = "idle" /\ calls < MaxCalls /\ state \in {"idle", "running"}
  /\ call' = [call EXCEPT ![c] = "mark"] /\ calls' = calls + 1
  /\ UNCHANGED <<trackerVars, turnVars, sessionVars, loopVars, stdinFailed, unsent, announced>>

\* emitQueryActivity: markQuery, ...
Mark(c) ==
  /\ call[c] = "mark"
  /\ MarkQuery
  /\ call' = [call EXCEPT ![c] = IF activity' # activity THEN "send" ELSE "write"]
  /\ UNCHANGED <<turnVars, sessionVars, loopVars, calls, stdinFailed, unsent, announced>>

\* ... and sendEvent of the transition it made.
SendTransition(c) ==
  /\ call[c] = "send"
  /\ announced' = "thinking"
  /\ call' = [call EXCEPT ![c] = "write"]
  /\ UNCHANGED <<trackerVars, turnVars, sessionVars, loopVars, calls, stdinFailed, unsent>>

\* sendUserMessage: the write succeeds, ...
Write(c) ==
  /\ call[c] = "write" /\ ~stdinFailed
  /\ stdin' = stdin + 1
  /\ call' = [call EXCEPT ![c] = "idle"]
  /\ UNCHANGED <<trackerVars, turn, failed, outstanding, noteTurns, sessionVars, loopVars,
                 calls, stdinFailed, unsent, announced>>

\* ... or fails, as every later one does.  A line that is given up may have arrived all
\* the same.  The error goes to the caller: neither the state nor the tracker moves back.
WriteFails(c) ==
  /\ call[c] = "write"
  /\ stdinFailed' = TRUE
  /\ stdin' \in IF stdinFailed THEN {stdin} ELSE {stdin, stdin + 1}
  /\ unsent' = (activity # "idle")
  /\ call' = [call EXCEPT ![c] = "idle"]
  /\ UNCHANGED <<trackerVars, turn, failed, outstanding, noteTurns, sessionVars, loopVars,
                 calls, announced>>

CallStep(c) ==
  \/ PrepareQuery(c) \/ ValidateSendable(c) \/ Mark(c) \/ SendTransition(c)
  \/ Write(c) \/ WriteFails(c)

Next == ReadLoop \/ \E c \in Callers : CallStep(c)

Spec == Init /\ [][Next]_vars

-----------------------------------------------------------------------------
(* Properties                                                              *)

TypeOK ==
  /\ activity \in {"idle", "thinking", "awaiting"}
  /\ pendingToolUses \in Nat
  /\ firstPending \in Tool \cup {NoTool}
  /\ turn \in {"none", "caller", "note"} /\ failed \in BOOLEAN /\ outstanding \in SUBSET Tool
  /\ stdin \in Nat /\ noteTurns \in Nat
  /\ state \in {"idle", "running", "failed"} /\ promptEchoed \in BOOLEAN
  /\ rlPc \in {"scan", "observe", "emit"} /\ ticker \in BOOLEAN
  /\ transition \in {"none", "idle", "thinking", "awaiting"}
  /\ call \in [Callers -> {"idle", "mark", "send", "write"}] /\ calls \in Nat
  /\ stdinFailed \in BOOLEAN /\ unsent \in BOOLEAN
  /\ announced \in {"idle", "thinking", "awaiting"}

\* The count of pending tool uses is the number of tools the CLI has not
\* answered, over tool_result blocks of either kind, parallel tools, subagents
\* and turns that end with tools unanswered (activity.go:88, "so pairing stays
\* balanced").
PairingBalanced ==
  rlPc # "observe" => pendingToolUses = Cardinality(outstanding)

\* The ticker runs exactly while the tracker awaits a tool result, whoever
\* moves the tracker (session.go:1130, "its lifetime mirrors the state machine
\* exactly").
TickerMirrorsState ==
  rlPc # "emit" => (ticker <=> activity = "awaiting")

\* Between turns the tracker is idle again (README.md:531, "ActivityIdle: between
\* turns"): no order of calls, folded messages, notification turns and errors leaves it
\* thinking or awaiting.  One thing does: SendMessage marks the tracker, then its write
\* fails (session.go:486-491, 439-444), and no terminal event has been read since.
IdleBetweenTurns ==
  /\ turn = "none" /\ stdin = 0 /\ rlPc = "scan" /\ state = "idle"
  /\ \A c \in Callers : call[c] = "idle"
  => activity = "idle" \/ unsent

\* While a query is pending, consumers have been told so: QueryMsg emits the
\* thinking transition "before writing stdin so the transition is visible in
\* the pump ahead of any CLI response to this query" (session.go:465).
PendingQueryAnnounced ==
  /\ state = "running" /\ turn = "none" /\ rlPc = "scan"
  /\ \A c \in Callers : call[c] = "idle"
  => announced # "idle"
=============================================================================
