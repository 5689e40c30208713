-------------------------- MODULE ActivityTracker --------------------------
(***************************************************************************)
(* The activityTracker of a Session (src/activity.go): is the model idle,  *)
(* thinking, or waiting for the result of a tool?  It counts the tool uses *)
(* that are outstanding and remembers the first of them, for the           *)
(* ToolProgressEvent.  Session.stateMu is held over every operation.       *)
(*                                                                         *)
(* Each operation moves the tracker; it yields a CLIStateChangeEvent       *)
(* exactly when it changes "activity".                                     *)
(***************************************************************************)
EXTENDS Integers

CONSTANTS
  Tool,    \* tool uses
  NoTool   \* no tool use

ASSUME NoToolAssumption == NoTool \notin Tool

VARIABLES
  activity,         \* t.state
  pendingToolUses,  \* t.pendingToolUses
  firstPending      \* t.firstPending

trackerVars == <<activity, pendingToolUses, firstPending>>

TrackerInit ==
  /\ activity = "idle"
  /\ pendingToolUses = 0
  /\ firstPending = NoTool

\* moveTo: leaving "awaiting", or not getting there, forgets the first tool use.
MoveTo(next) ==
  /\ activity' = next
  /\ firstPending' = IF next # activity /\ next # "awaiting" THEN NoTool ELSE firstPending

\* observe of a TurnEvent, or of a top-level text or thinking block.
ObserveContent ==
  /\ MoveTo(IF activity = "idle" THEN "thinking" ELSE activity)
  /\ UNCHANGED pendingToolUses

\* observe of an event of a subagent.
ObserveSubagent == UNCHANGED trackerVars

\* Mutant of ObserveToolUse: the latest tool use is the one reported.
ObserveToolUseLatest(t) ==
  /\ pendingToolUses' = pendingToolUses + 1
  /\ firstPending' = t
  /\ activity' = "awaiting"

\* observe of a top-level tool_use.
ObserveToolUse(t) ==
  /\ pendingToolUses' = pendingToolUses + 1
  /\ firstPending' = IF pendingToolUses = 0 THEN t ELSE firstPending
  /\ activity' = "awaiting"

Settled(n) == IF pendingToolUses > n THEN pendingToolUses - n ELSE 0

\* observe of a top-level tool_result block in an assistant message.
ObserveToolResult ==
  /\ pendingToolUses' = Settled(1)
  /\ MoveTo(IF pendingToolUses' = 0 THEN "thinking" ELSE activity)

\* Mutant of ObserveUser: however many results a message holds, it settles one.
ObserveUserOne(n) ==
  /\ pendingToolUses' = IF n > 0 THEN Settled(1) ELSE pendingToolUses
  /\ MoveTo(IF pendingToolUses' = 0 /\ activity = "awaiting" THEN "thinking" ELSE activity)

\* observe of a top-level user message that holds n tool_result blocks.
ObserveUser(n) ==
  /\ pendingToolUses' = Settled(n)
  /\ MoveTo(IF pendingToolUses' = 0 /\ activity = "awaiting" THEN "thinking" ELSE activity)

\* Mutant of ObserveTerminal: tools the turn left unanswered stay counted.
ObserveTerminalKeeps ==
  /\ UNCHANGED pendingToolUses
  /\ MoveTo("idle")

\* observe of a ResultEvent or of a fatal ErrorEvent.
ObserveTerminal ==
  /\ pendingToolUses' = 0
  /\ MoveTo("idle")

\* Mutant of ObserveUnsolicitedResult: it always expects a prompt to follow.
ObserveUnsolicitedThinking(queryPending) ==
  /\ pendingToolUses' = 0
  /\ MoveTo("thinking")

\* The result of a turn the CLI started by itself.
ObserveUnsolicitedResult(queryPending) ==
  /\ pendingToolUses' = 0
  /\ MoveTo(IF queryPending THEN "thinking" ELSE "idle")

\* Mutant of MarkQuery: a message sent while a tool runs moves the tracker too.
MarkQueryAlways ==
  /\ activity' = "thinking"
  /\ UNCHANGED <<pendingToolUses, firstPending>>

\* Query and SendMessage mark the tracker before they write.
MarkQuery ==
  /\ activity' = IF activity = "idle" THEN "thinking" ELSE activity
  /\ UNCHANGED <<pendingToolUses, firstPending>>

\* What a tick of the tool-progress ticker reports, if anything.
FirstPending == IF activity = "awaiting" THEN firstPending ELSE NoTool

-----------------------------------------------------------------------------
\* The tracker's three parts agree, so a tick has a tool to report as long as,
\* and only when, the session waits for one.
TrackerAgrees ==
  /\ activity = "awaiting" <=> pendingToolUses > 0
  /\ activity = "awaiting" <=> FirstPending \in Tool
  /\ activity # "awaiting" => firstPending = NoTool

\* "Parallel tool_use calls do not change the reported tool; the first one is
\* stable until the awaiting state ends" (README.md:543).
FirstPendingStable ==
  [][activity = "awaiting" /\ activity' = "awaiting"
       => firstPending' = firstPending]_trackerVars
=============================================================================
