---------------------------- MODULE SessionTurns ----------------------------
(***************************************************************************)
(* Session.Query and Session.Wait without routing, and how a session tells *)
(* turns of its own from those the CLI starts (src/session.go:             *)
(* prepareQuery, QueryMsg, SendMsg, Wait, sendUserMessage, notePromptEcho, *)
(* noteTurnStart, noteTurnEnd, observeUnsolicitedResult, trackState).  Each *)
(* of them holds stateMu for one step; Wait and sendUserMessage let go of  *)
(* it in between.                                                          *)
(*                                                                         *)
(* The CLI is external, as in ClaudeCLI: a turn per message, or one of its *)
(* own; a message written meanwhile may be folded in; slash commands have  *)
(* no echo.  A message is the query it asks, or 0 for SendMessage.         *)
(***************************************************************************)
EXTENDS Integers, Sequences

CONSTANTS
  TurnCaller,    \* goroutines that use the session
  MaxQueries,    \* bound on the queries
  MaxSends,      \* bound on the messages of SendMessage
  MaxWaits,      \* bound on the calls of Wait
  MaxOwnTurns,   \* bound on the turns the CLI starts by itself
  LinesCap       \* lines the CLI's stdout pipe holds

ASSUME TurnsAssumption ==
  {MaxQueries, MaxSends, MaxWaits, MaxOwnTurns} \subseteq Nat /\ LinesCap \in Nat \ {0}

VARIABLES
  inbox, lines, running, ownTurns,                  \* the CLI
  sessionState, waited, lastResult, lastErr,        \* under stateMu
  asked, readyClosed, sessionDone,                  \* the latest resultReady, those closed
  unread, sentAny, turnEchoed, promptSeen,          \* under stateMu: the turn accounting
  stdinBroken, step, message, waitsFor,             \* the callers
  sends, waits, returned, flagged                   \* what they and the events told

turnCLI == <<inbox, lines, running, ownTurns>>
stateVars == <<sessionState, waited, lastResult, lastErr, asked, readyClosed>>
countVars == <<unread, sentAny, turnEchoed, promptSeen>>
turnCalls == <<step, message, waitsFor, sends, waits, returned>>
sessionTurnVars == <<turnCLI, stateVars, sessionDone, countVars, stdinBroken, turnCalls, flagged>>

\* The result of a turn that asked no query.
OtherResult == MaxQueries + 1
NoTurnRuns == [kind |-> "none", of |-> 0, failed |-> FALSE]

TurnsInit ==
  /\ inbox = <<>> /\ lines = <<>> /\ running = NoTurnRuns /\ ownTurns = 0
  /\ sessionState = "idle" /\ waited = FALSE /\ lastResult = 0 /\ lastErr = "none"
  /\ asked = 0 /\ readyClosed = {} /\ sessionDone = FALSE
  /\ unread = 0 /\ sentAny = FALSE /\ turnEchoed = FALSE /\ promptSeen = FALSE
  /\ stdinBroken = FALSE /\ step = [c \in TurnCaller |-> "free"]
  /\ message = [c \in TurnCaller |-> 0] /\ waitsFor = [c \in TurnCaller |-> 0]
  /\ sends = 0 /\ waits = 0 /\ returned = {} /\ flagged = {}

-----------------------------------------------------------------------------
(* The CLI                                                                 *)

Prints(ls) == Len(lines) + Len(ls) <= LinesCap /\ lines' = lines \o ls
Echo(m) == IF m.slash THEN <<>> ELSE <<[kind |-> "echo"]>>

TurnForMessage ==
  /\ running.kind = "none" /\ inbox # <<>> /\ ~sessionDone
  /\ running' = [kind |-> "caller", of |-> Head(inbox).q, failed |-> FALSE]
  /\ Prints(<<[kind |-> "init", own |-> FALSE]>> \o Echo(Head(inbox)))
  /\ inbox' = Tail(inbox)
  /\ UNCHANGED <<ownTurns, stateVars, sessionDone, countVars, stdinBroken, turnCalls, flagged>>

TurnOfItsOwn ==
  /\ running.kind = "none" /\ ownTurns < MaxOwnTurns /\ ~sessionDone
  /\ running' = [kind |-> "own", of |-> 0, failed |-> FALSE] /\ ownTurns' = ownTurns + 1
  /\ Prints(<<[kind |-> "init", own |-> TRUE]>>)
  /\ UNCHANGED <<inbox, stateVars, sessionDone, countVars, stdinBroken, turnCalls, flagged>>

MessageFolded ==
  /\ running.kind # "none" /\ inbox # <<>> /\ ~Head(inbox).slash
  /\ running' = [running EXCEPT !.of = IF Head(inbox).q = 0 THEN @ ELSE Head(inbox).q]
  /\ Prints(Echo(Head(inbox)))
  /\ inbox' = Tail(inbox)
  /\ UNCHANGED <<ownTurns, stateVars, sessionDone, countVars, stdinBroken, turnCalls, flagged>>

TurnFails ==
  /\ running.kind = "caller" /\ ~running.failed
  /\ running' = [running EXCEPT !.failed = TRUE]
  /\ Prints(<<[kind |-> "apierror"]>>)
  /\ UNCHANGED <<inbox, ownTurns, stateVars, sessionDone, countVars, stdinBroken, turnCalls, flagged>>

TurnEnds ==
  /\ running.kind # "none"
  /\ running' = NoTurnRuns
  /\ Prints(<<[kind |-> "result", own |-> running.kind = "own",
               of |-> IF running.of = 0 THEN OtherResult ELSE running.of]>>)
  /\ UNCHANGED <<inbox, ownTurns, stateVars, sessionDone, countVars, stdinBroken, turnCalls, flagged>>

-----------------------------------------------------------------------------
(* readLoop                                                                *)

NextLine(kind) == lines # <<>> /\ Head(lines).kind = kind /\ lines' = Tail(lines)

\* noteTurnStart
ReadInit ==
  /\ NextLine("init")
  /\ flagged' = IF sentAny /\ unread = 0 /\ ~turnEchoed THEN {Head(lines).own} ELSE {}
  /\ UNCHANGED <<inbox, running, ownTurns, stateVars, sessionDone, countVars, stdinBroken, turnCalls>>

\* notePromptEcho
ReadEcho ==
  /\ NextLine("echo")
  /\ promptSeen' = (promptSeen \/ sessionState = "running")
  /\ unread' = IF unread > 0 THEN unread - 1 ELSE unread
  /\ turnEchoed' = TRUE
  /\ UNCHANGED <<inbox, running, ownTurns, stateVars, sessionDone, sentAny, stdinBroken, turnCalls,
                 flagged>>

\* trackState: the waiters of the latest query are released.
Release == readyClosed' = readyClosed \cup {asked}

ReadFatalError ==
  /\ NextLine("apierror")
  /\ sessionState' = "failed" /\ lastErr' = IF lastErr = "none" THEN "api" ELSE lastErr
  /\ Release
  /\ UNCHANGED <<inbox, running, ownTurns, waited, lastResult, asked, sessionDone, countVars,
                 stdinBroken, turnCalls, flagged>>

\* Mutant of TurnSettled: an echoed turn takes another message off the count.
TurnSettledTwice(r) ==
  /\ unread' = IF ~r.own /\ unread > 0 THEN unread - 1 ELSE unread
  /\ turnEchoed' = FALSE

\* noteTurnEnd: a turn without an echo consumed one message.
TurnSettled(r) ==
  /\ unread' = IF ~r.own /\ ~turnEchoed /\ unread > 0 THEN unread - 1 ELSE unread
  /\ turnEchoed' = FALSE

\* observeUnsolicitedResult, then trackState unless the result is held.
ReadTurnResult ==
  /\ NextLine("result")
  /\ TurnSettled(Head(lines))
  /\ IF Head(lines).own /\ ~(sessionState = "running" /\ promptSeen)
     THEN UNCHANGED stateVars
     ELSE /\ sessionState' = "idle" /\ lastResult' = Head(lines).of
          /\ Release
          /\ UNCHANGED <<waited, lastErr, asked>>
  /\ UNCHANGED <<inbox, running, ownTurns, sessionDone, sentAny, promptSeen, stdinBroken,
                 turnCalls, flagged>>

\* The process ended and every line was read: done is closed (setDoneState).
SessionOver ==
  /\ ~sessionDone /\ lines = <<>> /\ running.kind = "none"
  /\ sessionDone' = TRUE
  /\ sessionState' = IF sessionState = "failed" THEN "failed" ELSE "done"
  /\ UNCHANGED <<turnCLI, waited, lastResult, lastErr, asked, readyClosed, countVars, stdinBroken,
                 turnCalls, flagged>>

-----------------------------------------------------------------------------
(* The callers                                                             *)

\* prepareQuery
PrepareQueryState ==
  /\ sessionState = "idle"
  /\ sessionState' = "running" /\ waited' = FALSE /\ lastResult' = 0 /\ lastErr' = "none"
  /\ promptSeen' = FALSE /\ asked' = asked + 1

CallQuery(c) ==
  /\ step[c] = "free" /\ asked < MaxQueries
  /\ PrepareQueryState
  /\ message' = [message EXCEPT ![c] = asked + 1] /\ step' = [step EXCEPT ![c] = "counts"]
  /\ UNCHANGED <<turnCLI, readyClosed, sessionDone, unread, sentAny, turnEchoed, stdinBroken,
                 waitsFor, sends, waits, returned, flagged>>

CallSend(c) ==
  /\ step[c] = "free" /\ sends < MaxSends /\ sessionState \in {"idle", "running"}
  /\ sends' = sends + 1
  /\ message' = [message EXCEPT ![c] = 0] /\ step' = [step EXCEPT ![c] = "counts"]
  /\ UNCHANGED <<turnCLI, stateVars, sessionDone, countVars, stdinBroken, waitsFor, waits, returned,
                 flagged>>

\* sendUserMessage counts before it writes.
CountMessage == unread' = unread + 1 /\ sentAny' = TRUE

StartSend(c) ==
  /\ step[c] = "counts"
  /\ CountMessage
  /\ step' = [step EXCEPT ![c] = "writes"]
  /\ UNCHANGED <<turnCLI, stateVars, sessionDone, turnEchoed, promptSeen, stdinBroken, message,
                 waitsFor, sends, waits, returned, flagged>>

\* A write that fails takes its count back, and is the last one; the CLI may have
\* got the line all the same (a deadline that passes as the write completes).
WriteMessage(c) ==
  \E slash \in BOOLEAN, arrives \in BOOLEAN, fails \in BOOLEAN :
    /\ step[c] = "writes" /\ (arrives => ~stdinBroken) /\ (~arrives => fails /\ ~slash)
    /\ inbox' = IF arrives THEN Append(inbox, [q |-> message[c], slash |-> slash]) ELSE inbox
    /\ step' = [step EXCEPT ![c] = IF fails THEN "retracts" ELSE "free"]
    /\ stdinBroken' = (stdinBroken \/ fails)
    /\ UNCHANGED <<lines, running, ownTurns, stateVars, sessionDone, countVars, message, waitsFor,
                   sends, waits, returned, flagged>>

TakeBackCount(c) ==
  /\ step[c] = "retracts"
  /\ unread' = unread - 1
  /\ step' = [step EXCEPT ![c] = "free"]
  /\ UNCHANGED <<turnCLI, stateVars, sessionDone, sentAny, turnEchoed, promptSeen, stdinBroken,
                 message, waitsFor, sends, waits, returned, flagged>>

\* What Wait hands over, for which query it was called.
Handed(for) == [for |-> for, result |-> lastResult, err |-> lastErr, ended |-> sessionDone]

CallSessionWait(c) ==
  /\ step[c] = "free" /\ waits < MaxWaits
  /\ waits' = waits + 1
  /\ IF waited
     THEN returned' = returned \cup {Handed(asked)} /\ UNCHANGED <<step, waitsFor>>
     ELSE /\ waitsFor' = [waitsFor EXCEPT ![c] = asked] /\ step' = [step EXCEPT ![c] = "waits"]
          /\ UNCHANGED returned
  /\ UNCHANGED <<turnCLI, stateVars, sessionDone, countVars, stdinBroken, message, sends, flagged>>

SessionWaitReturns(c) ==
  /\ step[c] = "waits" /\ (waitsFor[c] \in readyClosed \/ sessionDone)
  /\ waited' = TRUE
  /\ returned' = returned \cup {Handed(waitsFor[c])}
  /\ step' = [step EXCEPT ![c] = "free"]
  /\ UNCHANGED <<turnCLI, sessionState, lastResult, lastErr, asked, readyClosed, sessionDone,
                 countVars, stdinBroken, message, waitsFor, sends, waits, flagged>>

TurnsNext ==
  \/ TurnForMessage \/ TurnOfItsOwn \/ MessageFolded \/ TurnFails \/ TurnEnds
  \/ ReadInit \/ ReadEcho \/ ReadFatalError \/ ReadTurnResult \/ SessionOver
  \/ \E c \in TurnCaller : \/ CallQuery(c) \/ CallSend(c) \/ StartSend(c) \/ WriteMessage(c)
                           \/ TakeBackCount(c) \/ CallSessionWait(c) \/ SessionWaitReturns(c)

TurnsSpec == TurnsInit /\ [][TurnsNext]_sessionTurnVars

-----------------------------------------------------------------------------
TurnsTypeOK ==
  /\ inbox \in Seq([q : 0..MaxQueries, slash : BOOLEAN]) /\ Len(lines) <= LinesCap
  /\ running.kind \in {"none", "caller", "own"} /\ ownTurns \in 0..MaxOwnTurns
  /\ sessionState \in {"idle", "running", "failed", "done"} /\ waited \in BOOLEAN
  /\ lastResult \in 0..OtherResult /\ lastErr \in {"none", "api"}
  /\ asked \in 0..MaxQueries /\ readyClosed \subseteq 0..MaxQueries /\ sessionDone \in BOOLEAN
  /\ unread \in -1..(MaxQueries + MaxSends) /\ sentAny \in BOOLEAN
  /\ turnEchoed \in BOOLEAN /\ promptSeen \in BOOLEAN /\ stdinBroken \in BOOLEAN
  /\ step \in [TurnCaller -> {"free", "counts", "writes", "retracts", "waits"}]
  /\ sends \in 0..MaxSends /\ waits \in 0..MaxWaits /\ flagged \subseteq BOOLEAN

\* A Wait that returns while the session lives brings the result or the error of the
\* query it was called for (Session.Wait: "blocks until a ResultEvent or error for
\* the current query").  A turn that SendMessage started may answer in its place.
WaitIsForItsQuery ==
  \A r \in returned : ~r.ended /\ r.err = "none" =>
    r.result # 0 /\ (sends = 0 => r.result = r.for)

\* An init is flagged unsolicited only for a turn the CLI started by itself, unless a
\* write that was reported failed reached the CLI (noteTurnStart, and the counting
\* of sendUserMessage, notePromptEcho and noteTurnEnd).
UnsolicitedIsTrue == FALSE \in flagged => stdinBroken
=============================================================================
