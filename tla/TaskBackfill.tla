---------------------------- MODULE TaskBackfill ----------------------------
(***************************************************************************)
(* The identity of background tasks (src/task_backfill.go).  The CLI says  *)
(* what a task is when it starts, and no more in the later lines about it; *)
(* the backfiller of a decoding loop puts it back onto their events, and   *)
(* finds the agent of a workflow that a tick is about.  Type, workflow     *)
(* name and ownership go together and are the type here.                   *)
(***************************************************************************)
EXTENDS Naturals, FiniteSets

CONSTANT BackgroundTask   \* task ids

TaskType == {"agent", "workflow"}

\* An entry of a workflow's tree: the name ticks use for it ("<phase>: <label>"), the
\* agent (phase and label), and its id, 0 while it is queued.
AgentEntry == [name : {"x", "y"}, agent : {"a", "b"}, id : 0..2]

Entry(name, agent, id) == [name |-> name, agent |-> agent, id |-> id]

\* None, one queued, one started, one retried, two whose names agree, two apart.
Trees == {{}, {Entry("x", "a", 0)}, {Entry("x", "a", 1)},
          {Entry("x", "a", 1), Entry("x", "a", 2)},
          {Entry("x", "a", 1), Entry("x", "b", 2)},
          {Entry("x", "a", 1), Entry("y", "b", 2)}}

VARIABLES
  cliTask,    \* cliTask[t]: the CLI's task, its type ("" once or before it is known) and tree
  byID,       \* taskTypeBackfiller.byID
  taskEvent   \* the event of the last line about a task

backfillVars == <<cliTask, byID, taskEvent>>

NoTask == [type |-> "", agents |-> {}]
NoAgent == [agent |-> "", id |-> 0]

BackfillInit ==
  /\ cliTask = [t \in BackgroundTask |-> NoTask]
  /\ byID = [t \in BackgroundTask |-> NoTask]
  /\ taskEvent = [type |-> "", sub |-> "none", truth |-> "", agent |-> NoAgent, about |-> NoAgent]

-----------------------------------------------------------------------------
\* Mutant of Resolve: the first entry with the name is the one.
ResolveFirst(agents, name) ==
  LET named == {r \in agents : r.name = name}
  IN IF named = {} THEN NoAgent
     ELSE [agent |-> (CHOOSE r \in named : TRUE).agent, id |-> (CHOOSE r \in named : TRUE).id]

\* resolveWorkflowAgent: the one agent with that name; its id, if all its entries agree.
Resolve(agents, name) ==
  LET named == {r \in agents : r.name = name}
      ids == {r.id : r \in named}
  IN IF Cardinality({r.agent : r \in named}) # 1 THEN NoAgent
     ELSE [agent |-> (CHOOSE r \in named : TRUE).agent,
           id |-> IF Cardinality(ids) = 1 THEN CHOOSE i \in ids : TRUE ELSE 0]

\* apply: what the line says of the task, else what is remembered ...
Known(t, line) ==
  CASE line.type # "" -> [type |-> line.type, agents |-> {}]
    [] line.type = "" /\ line.withTree /\ byID[t].type = "workflow" ->
         [byID[t] EXCEPT !.agents = line.tree]
    [] OTHER -> byID[t]

\* Mutant of Remembered: a terminal status in a task_updated drops the entry too.
RememberedUntilUpdated(t, line) ==
  IF line.sub \in {"task_notification", "task_updated"} /\ line.terminal
  THEN NoTask ELSE Known(t, line)

\* ... and what is remembered of it: nothing after its terminal notification.
Remembered(t, line) ==
  IF line.sub = "task_notification" /\ line.terminal THEN NoTask ELSE Known(t, line)

\* The event of a line that is about the CLI's agent entry `about'.
Backfill(t, line, about) ==
  /\ taskEvent' = [type |-> Known(t, line).type, sub |-> line.sub,
                   truth |-> IF line.type # "" THEN line.type ELSE cliTask[t].type,
                   agent |-> IF line.sub = "task_progress" /\ Known(t, line).type = "workflow"
                             THEN Resolve(Known(t, line).agents, about.name) ELSE NoAgent,
                   about |-> [agent |-> about.agent, id |-> about.id]]
  /\ byID' = [byID EXCEPT ![t] = Remembered(t, line)]

-----------------------------------------------------------------------------
(* The lines of the CLI, external.  A task that an earlier process left    *)
(* behind has lines, but no start.                                         *)

TaskLine(sub, terminal) ==
  [sub |-> sub, type |-> "", withTree |-> FALSE, tree |-> {}, terminal |-> terminal]

Nobody == Entry("y", "", 0)

TaskStarts(t) ==
  \E type \in TaskType :
    /\ cliTask[t] = NoTask
    /\ cliTask' = [cliTask EXCEPT ![t] = [type |-> type, agents |-> {}]]
    /\ Backfill(t, [TaskLine("task_started", FALSE) EXCEPT !.type = type], Nobody)

\* A tick of a workflow is about an agent of its tree, and brings the tree if it changed.
TaskTicks(t) ==
  \/ /\ cliTask[t].type = "agent"
     /\ Backfill(t, TaskLine("task_progress", FALSE), Nobody)
     /\ UNCHANGED cliTask
  \/ \E tree \in Trees : \E about \in tree :
       /\ cliTask[t].type = "workflow"
       /\ cliTask' = [cliTask EXCEPT ![t].agents = tree]
       /\ Backfill(t, [TaskLine("task_progress", FALSE)
                         EXCEPT !.withTree = tree # cliTask[t].agents, !.tree = tree], about)

TaskUpdated(t) ==
  \E terminal \in BOOLEAN :
    /\ Backfill(t, TaskLine("task_updated", terminal), Nobody)
    /\ UNCHANGED cliTask

TaskNotifies(t) ==
  \E terminal \in BOOLEAN :
    /\ Backfill(t, TaskLine("task_notification", terminal), Nobody)
    /\ cliTask' = [cliTask EXCEPT ![t] = IF terminal THEN NoTask ELSE @]

BackfillNext ==
  \E t \in BackgroundTask : TaskStarts(t) \/ TaskTicks(t) \/ TaskUpdated(t) \/ TaskNotifies(t)

BackfillSpec == BackfillInit /\ [][BackfillNext]_backfillVars

-----------------------------------------------------------------------------
BackfillTypeOK ==
  /\ cliTask \in [BackgroundTask -> [type : TaskType \cup {""}, agents : Trees]]
  /\ byID \in [BackgroundTask -> [type : TaskType \cup {""}, agents : SUBSET AgentEntry]]
  /\ taskEvent.type \in TaskType \cup {""} /\ taskEvent.agent.agent \in {"", "a", "b"}

\* Every event of a task, the notification of its end included, says of what type it
\* is, and a tick names the agent it is about or none (taskTypeBackfiller's and
\* resolveWorkflowAgent's docs).
TasksKeepTheirIdentity ==
  /\ taskEvent.type = taskEvent.truth
  /\ taskEvent.agent.agent # "" => taskEvent.agent.agent = taskEvent.about.agent
  /\ taskEvent.agent.id # 0 => taskEvent.agent.id = taskEvent.about.id
=============================================================================
