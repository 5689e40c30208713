----------------------------- MODULE ClaudeCLI -----------------------------
(***************************************************************************)
(* The Claude CLI process as the Session sees it: a reader of stdin, a     *)
(* writer of JSONL lines, running one turn at a time.  It is not part of   *)
(* the repository; its behaviour is the one src/session.go relies on and   *)
(* describes (observeUnsolicitedResult, noteTurnStart, SendMessage):       *)
(*                                                                         *)
(*   - a turn begins with an init line; a caller's message is echoed when  *)
(*     the turn that consumes it reads it, except a slash command;         *)
(*   - a message that arrives while a turn runs may be folded into it;     *)
(*   - turns for task notifications run without any message, ahead of what *)
(*     waits in stdin, and their result says so in its origin;             *)
(*   - an API error is a line of its own, before the turn's result.        *)
(***************************************************************************)
EXTENDS Integers, Sequences

CONSTANTS
  MaxGen,        \* bound on the queries a run asks
  Lines,         \* the optional kinds of line: a subset of {"init", "tool"}
  Slash,         \* whether messages may be slash commands: a subset of BOOLEAN
  ErrorTurns,    \* the kinds of turn an API error can end
  Exits,         \* how it may end: a subset of {"exited", "crashed"}
  MaxNoteTurns,  \* bound on the notification turns
  StdoutCap      \* bound on the lines in the stdout pipe

ASSUME CLIAssumption ==
  /\ MaxGen \in Nat /\ MaxNoteTurns \in Nat /\ StdoutCap \in Nat
  /\ Lines \subseteq {"init", "tool"} /\ Slash \subseteq BOOLEAN
  /\ ErrorTurns \subseteq {"caller", "note"} /\ Exits \subseteq {"exited", "crashed"}

VARIABLES
  stdin,      \* messages written by the SDK, not read yet
  stdout,     \* lines written, not read by the SDK yet
  turn,       \* the turn that runs
  cli,        \* "up", "exited" (code 0) or "crashed"
  noteTurns   \* notification turns started so far

cliVars == <<stdin, stdout, turn, cli, noteTurns>>

\* A message asks query q; 0 is a message that asks none (SendMessage).
Message == [q : 0..MaxGen, slash : BOOLEAN]

\* A line, with the queries its turn has consumed.
Line == [kind : {"init", "echo", "tool", "apierror", "result"},
         of : SUBSET (1..MaxGen), note : BOOLEAN]

NoTurn == [kind |-> "none", of |-> {}, failed |-> FALSE, tool |-> FALSE]

CLIInit ==
  /\ stdin = << >> /\ stdout = << >>
  /\ turn = NoTurn
  /\ cli = "up"
  /\ noteTurns = 0

Asks(m) == {m.q} \ {0}

\* The lines of the optional kinds an instance leaves out are not written.
Written(kind, of) ==
  IF kind \in Lines THEN <<[kind |-> kind, of |-> of, note |-> FALSE]>> ELSE << >>

EchoOf(m) ==
  IF m.slash THEN << >> ELSE <<[kind |-> "echo", of |-> Asks(m), note |-> FALSE]>>

Emit(lines) ==
  /\ Len(stdout) + Len(lines) <= StdoutCap
  /\ stdout' = stdout \o lines

\* A turn for the next message.
StartTurn ==
  /\ cli = "up" /\ turn.kind = "none" /\ stdin # << >>
  /\ LET m == Head(stdin) IN
       /\ turn' = [NoTurn EXCEPT !.kind = "caller", !.of = Asks(m)]
       /\ Emit(Written("init", {}) \o EchoOf(m))
  /\ stdin' = Tail(stdin)
  /\ UNCHANGED <<cli, noteTurns>>

\* A turn of the CLI's own, for a background task.
StartNoteTurn ==
  /\ cli = "up" /\ turn.kind = "none" /\ noteTurns < MaxNoteTurns
  /\ turn' = [NoTurn EXCEPT !.kind = "note"]
  /\ noteTurns' = noteTurns + 1
  /\ Emit(Written("init", {}))
  /\ UNCHANGED <<stdin, cli>>

\* A message is folded into the turn that runs.
Fold ==
  /\ cli = "up" /\ turn.kind # "none" /\ stdin # << >> /\ ~Head(stdin).slash
  /\ turn' = [turn EXCEPT !.of = @ \cup Asks(Head(stdin))]
  /\ Emit(EchoOf(Head(stdin)))
  /\ stdin' = Tail(stdin)
  /\ UNCHANGED <<cli, noteTurns>>

\* An assistant message that calls a tool: at most one per turn here.
CallTool ==
  /\ cli = "up" /\ turn.kind # "none" /\ ~turn.failed /\ ~turn.tool
  /\ "tool" \in Lines
  /\ Emit(Written("tool", turn.of))
  /\ turn' = [turn EXCEPT !.tool = TRUE]
  /\ UNCHANGED <<stdin, cli, noteTurns>>

\* The synthetic message for a failed API call; the result line still follows.
FailTurn ==
  /\ cli = "up" /\ turn.kind \in ErrorTurns /\ ~turn.failed
  /\ Emit(<<[kind |-> "apierror", of |-> turn.of, note |-> FALSE]>>)
  /\ turn' = [turn EXCEPT !.failed = TRUE]
  /\ UNCHANGED <<stdin, cli, noteTurns>>

EndTurn ==
  /\ cli = "up" /\ turn.kind # "none"
  /\ Emit(<<[kind |-> "result", of |-> turn.of, note |-> turn.kind = "note"]>>)
  /\ turn' = NoTurn
  /\ UNCHANGED <<stdin, cli, noteTurns>>

\* The process ends, by itself or killed; what it wrote can still be read.
Exit ==
  /\ cli = "up"
  /\ cli' \in Exits
  /\ turn' = NoTurn
  /\ stdin' = << >>
  /\ UNCHANGED <<stdout, noteTurns>>

CLINext ==
  \/ StartTurn \/ StartNoteTurn \/ Fold \/ CallTool \/ FailTurn \/ EndTurn \/ Exit
=============================================================================
